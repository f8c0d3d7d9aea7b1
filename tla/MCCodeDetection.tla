-------------------------- MODULE MCCodeDetection --------------------------
(***************************************************************************)
(* Short documents for CodeDetection: every sequence of up to three        *)
(* fragments, and every document of up to four lines.                      *)
(***************************************************************************)
EXTENDS CodeDetection

(* Single characters and fragments whose joining is delicate. *)
MCFragments ==
  {Chars(text) : text \in
     {"a", "aB", "_", "1", "0", "'", "-", ".", ",", ":", "/", "=", "//", "->", "(", ")", "<",
      "\"", "#", "\t", "\r", "\n", " ", "e5", "x1", "ali@x.tr", "id=", "http://abc", "ftp://abcd",
      "2024-01-01", "T10:20:30", "www."}}
  \cup {<<class>> : class \in DOMAIN UnicodeKind \cup {"esc", "backtick"}}

MCFragmentDocuments ==
  MCFragments \cup {a \o b : a \in MCFragments, b \in MCFragments}
MCThrice ==
  {a \o b \o c : a, c \in {Chars(t) : t \in {"a", "1", ".", "=", "*", "\n", " "}}
                          \cup {<<"backtick">>, <<"joiner">>, <<"pictograph">>, <<"decimal">>},
                 b \in MCFragments}

(* Lines: strong, moderate and weak ones, prose, blanks and fences. *)
MCLines ==
  {Chars(text) : text \in
     {"fn a() {", "x = y", "f.b();", "}", "", "# not", "a_b: c", "Bu bir deneme.",
      "alt", "//"}}
  \cup {<<"backtick", "backtick", "backtick">>}

Document(lines) == FoldLeft(LAMBDA text, line : text \o line \o <<"\n">>, <<>>, lines)

MCLineDocuments ==
  UNION {{Document(lines) : lines \in [1 .. n -> MCLines]} : n \in 1 .. 3}
  \cup {Document(lines) : lines \in
          [1 .. 5 -> {Chars("fn a() {"), <<>>, Chars("Bu bir deneme."), Chars("alt")}]}

MCDocuments == MCFragmentDocuments \cup MCThrice \cup MCLineDocuments
=============================================================================
