-------------------------- MODULE MCCompactDecoder --------------------------
(***************************************************************************)
(* CompactDecoder on sentences of two and three tokens: up to four         *)
(* candidates, a candidate listed twice, and a word that stands in two     *)
(* tokens.  Weights modulo 3 tie often, modulo 97 seldom; hashes agree in  *)
(* the low bits, differ only in the bit a grown table looks at, or collide *)
(* altogether.                                                             *)
(***************************************************************************)
EXTENDS CompactDecoder

MCTokens ==
  {<<<<1, 2>>, <<3, 4>>, <<5, 6>>>>, <<<<1, 2>>, <<3, 4, 5, 6>>>>,
   <<<<1, 2>>, <<2, 3>>, <<4, 4>>>>, <<<<1>>, <<2, 3>>, <<1, 3>>>>}

Code(w) == IF w > 0 THEN w ELSE 6 - w

MCWeight(s, a, b, c) ==
  (s.p * Code(a) * Code(b) + s.q * Code(b) * Code(c) * Code(c) + Code(a) * Code(c)) % s.m

MCHash(s, a, b) == s.a * Code(a) + s.b * Code(b)

MCSentences ==
  [words : MCTokens, p : 1 .. 6, q : 1 .. 6, m : {2, 3, 97}, a : {0, 3, 5}, b : {0, 5, 8}]
=============================================================================
