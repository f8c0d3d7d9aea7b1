------------------------------ MODULE Conditions ------------------------------
(***************************************************************************)
(* The conditions on the edges of the morphology graph, from the formula   *)
(* of the bundle to the answer of the runtime: Compile (the compiler of    *)
(* the binary), Validated (its validator) and Evaluate (the virtual        *)
(* machine of the runtime, with its bounded stack).  A formula is          *)
(* [kind, children] for AND, OR and NOT and [kind, of] for the rest, of    *)
(* the sequence of names it asks about; a program is a sequence of         *)
(* instructions [kind, of, count].  A path is what MorphologyRuntime says: *)
(* its history is the sequence of its nodes, the stem first.               *)
(***************************************************************************)
LOCAL INSTANCE Naturals
LOCAL INSTANCE Sequences
LOCAL INSTANCE SequencesExt
LOCAL INSTANCE FiniteSetsExt

CONSTANTS
  Dictionary,   \* dictionary records by identifier
  Inline        \* Booleans the machine keeps without allocating (32)

ASSUME InlineAssumption == Inline \in Nat \ {0}

Structural == {"AND", "OR", "NOT"}
Null == "null"
Total(counts) == FoldLeft(LAMBDA sum, count : sum + count, 0, counts)
-----------------------------------------------------------------------------
(* Condition::validate and zemberek_condition_count of the bundle. *)
RECURSIVE WellFormed(_)
WellFormed(formula) ==
  CASE formula.kind \in {"AND", "OR"} ->
         /\ Len(formula.children) >= 2
         /\ \A i \in DOMAIN formula.children : WellFormed(formula.children[i])
    [] formula.kind = "NOT" -> WellFormed(formula.children[1])
    [] formula.kind \in {"DictionaryItemIsAny", "DictionaryItemIsNone"} ->
         \A i \in DOMAIN formula.of : formula.of[i] = Null => i = Len(formula.of)
    [] OTHER -> TRUE

RECURSIVE ZemberekCount(_)
ZemberekCount(formula) ==
  IF formula.kind \notin {"AND", "OR"} THEN 1
  ELSE Total([i \in DOMAIN formula.children |-> ZemberekCount(formula.children[i])])

(* ConditionCompiler: children first. *)
RECURSIVE Compile(_)
Compile(formula) ==
  IF formula.kind \notin Structural
  THEN <<[kind |-> formula.kind, of |-> formula.of, count |-> 0]>>
  ELSE FlattenSeq([i \in DOMAIN formula.children |-> Compile(formula.children[i])])
         \o <<[kind |-> formula.kind, of |-> <<>>, count |-> Len(formula.children)]>>

(* ConditionProgramValidator: the stack holds the count of every operand.  *)
ValidateStep(state, instruction) ==
  LET depth == Len(state.stack)
      needed == IF instruction.kind \in Structural THEN instruction.count ELSE 0
      operands == SubSeq(state.stack, depth - needed + 1, depth)
      below == SubSeq(state.stack, 1, depth - needed)
      pushed == IF instruction.kind \in {"AND", "OR"} THEN Total(operands) ELSE 1
  IN  IF ~state.ok \/ needed > depth \/ (instruction.kind \in {"AND", "OR"} /\ needed < 2)
      THEN [state EXCEPT !.ok = FALSE]
      ELSE [state EXCEPT !.stack = Append(below, pushed)]

Validated(program) ==
  LET end == FoldLeft(ValidateStep, [stack |-> <<>>, ok |-> TRUE], program)
  IN  [ok |-> end.ok /\ (program # <<>> => Len(end.stack) = 1),
       count |-> IF end.stack = <<>> THEN 0 ELSE end.stack[1]]
-----------------------------------------------------------------------------
(* BoolStack: an array while it fits, a vector while it does not. *)
EmptyStack == [inline |-> [i \in 1 .. Inline |-> FALSE], len |-> 0, spilled |-> FALSE,
               overflow |-> <<>>, ok |-> TRUE]

Push(stack, value) ==
  CASE stack.spilled -> [stack EXCEPT !.overflow = Append(@, value)]
    [] ~stack.spilled /\ stack.len < Inline ->
         [stack EXCEPT !.inline[stack.len + 1] = value, !.len = @ + 1]
    [] OTHER -> [stack EXCEPT !.spilled = TRUE, !.overflow = Append(stack.inline, value)]

NegateLast(stack) ==
  IF stack.spilled
  THEN [stack EXCEPT !.overflow = [@ EXCEPT ![Len(stack.overflow)] = ~@]]
  ELSE IF stack.len = 0 THEN [stack EXCEPT !.ok = FALSE]
       ELSE [stack EXCEPT !.inline[stack.len] = ~@]

Combined(values, conjunction) ==
  IF conjunction THEN FALSE \notin ToSet(values) ELSE TRUE \in ToSet(values)

(* Mutant of ReduceLast: the values are not copied back.                   *)
ReduceWithoutCopy(stack, count, conjunction) ==
  LET values == IF stack.spilled THEN stack.overflow ELSE SubSeq(stack.inline, 1, stack.len)
      start == Len(values) - count
      reduced == Append(SubSeq(values, 1, start),
                        Combined(SubSeq(values, start + 1, Len(values)), conjunction))
  IN  CASE count > Len(values) -> [stack EXCEPT !.ok = FALSE]
        [] count <= Len(values) /\ stack.spilled /\ Len(reduced) > Inline ->
             [stack EXCEPT !.overflow = reduced]
        [] count <= Len(values) /\ stack.spilled /\ Len(reduced) <= Inline ->
             [stack EXCEPT !.spilled = FALSE, !.overflow = <<>>, !.len = Len(reduced)]
        [] OTHER -> Push([stack EXCEPT !.len = start], Last(reduced))

(* The last values become one; a vector that fits again goes back.         *)
ReduceLast(stack, count, conjunction) ==
  LET values == IF stack.spilled THEN stack.overflow ELSE SubSeq(stack.inline, 1, stack.len)
      start == Len(values) - count
      reduced == Append(SubSeq(values, 1, start),
                        Combined(SubSeq(values, start + 1, Len(values)), conjunction))
  IN  CASE count > Len(values) -> [stack EXCEPT !.ok = FALSE]
        [] count <= Len(values) /\ stack.spilled /\ Len(reduced) > Inline ->
             [stack EXCEPT !.overflow = reduced]
        [] count <= Len(values) /\ stack.spilled /\ Len(reduced) <= Inline ->
             [stack EXCEPT !.spilled = FALSE, !.overflow = <<>>, !.len = Len(reduced),
                           !.inline = [i \in 1 .. Inline |->
                             IF i <= Len(reduced) THEN reduced[i] ELSE stack.inline[i]]]
        [] OTHER -> Push([stack EXCEPT !.len = start], Last(reduced))

Single(stack) ==
  IF stack.spilled THEN [ok |-> stack.ok /\ Len(stack.overflow) = 1, value |-> Head(stack.overflow)]
  ELSE [ok |-> stack.ok /\ stack.len = 1, value |-> stack.inline[1]]
-----------------------------------------------------------------------------
(* The nodes a condition speaks of, by position; the stem is node 1. *)
LastDerivative(history, before) ==
  Max({0} \cup {i \in 2 .. before : history[i].derivative})
Group(history, end) ==
  {history[i] : i \in {j \in 2 .. end : j >= LastDerivative(history, end)}}
CurrentGroup(history) == Group(history, Len(history))
PreviousGroup(history) ==
  LET derivative == LastDerivative(history, Len(history))
  IN  IF derivative = 0 THEN {} ELSE Group(history, derivative - 1)

HasTailSequence(history, morphemes) ==
  LET skipped == Len(history) - Len(morphemes)
  IN  skipped >= 0 /\ \A i \in DOMAIN morphemes : history[skipped + i].morpheme = morphemes[i]
ContainsSequence(history, morphemes) ==
  morphemes # <<>> /\ \E end \in DOMAIN history :
                        HasTailSequence(SubSeq(history, 1, end), morphemes)

(* The machine's leaves about the stem and the text. *)
Feature(kind, of, path, hasTail) ==
  LET entry == Dictionary[path.dictionary]
  IN  CASE kind \in {"HasRootAttribute", "HasAnyRootAttribute"} -> entry.attributes \cap of # {}
        [] kind = "HasPhoneticAttribute" -> path.bits \cap of # {}
        [] kind \in {"DictionaryItemIs", "DictionaryItemIsAny"} -> path.dictionary \in of
        [] kind = "DictionaryItemIsNone" -> path.dictionary \notin of
        [] kind = "RootPrimaryPosIs" -> entry.pos \in of
        [] kind = "SecondaryPosIs" -> entry.secondary \in of
        [] kind = "HasAnySuffixSurface" -> path.suffix
        [] kind = "HasTail" -> hasTail
        [] kind = "HasNoTail" -> ~hasTail
Features ==
  {"HasRootAttribute", "HasAnyRootAttribute", "HasPhoneticAttribute", "DictionaryItemIs",
   "DictionaryItemIsAny", "DictionaryItemIsNone", "RootPrimaryPosIs", "SecondaryPosIs",
   "HasAnySuffixSurface", "HasTail", "HasNoTail"}

(* The machine's leaves about the path. *)
MorphemeOrSurface(kind, names, path) ==
  LET history == path.history
      of == ToSet(names)
      previous == {history[i].morpheme : i \in {j \in DOMAIN history : j = Len(history) - 1}}
  IN  CASE kind = "HasTailSequence" -> HasTailSequence(history, names)
        [] kind = "ContainsMorphemeSequence" -> ContainsSequence(history, names)
        [] kind \in {"CurrentMorphemeIs", "CurrentMorphemeIsAny"} -> Last(history).morpheme \in of
        [] kind \in {"PreviousMorphemeIs", "PreviousMorphemeIsAny"} ->
             previous \cap of # {}
        [] kind \in {"RootSurfaceIs", "RootSurfaceIsAny"} -> path.stem \in of
        [] kind = "PreviousGroupContainsMorpheme" ->
             \E node \in PreviousGroup(history) : node.morpheme \in of
        [] kind = "NoSurfaceAfterDerivation" ->
             \A i \in 2 .. Len(history) :
               i > LastDerivative(history, Len(history)) => history[i].surface = <<>>
        [] kind = "ContainsMorpheme" -> \E i \in DOMAIN history : history[i].morpheme \in of

StateOrGroup(kind, of, path) ==
  LET history == path.history
      previous == IF Len(history) = 1 THEN {} ELSE {history[Len(history) - 1].state}
      derivative == LastDerivative(history, Len(history))
  IN  CASE kind = "CurrentStateIs" -> Last(history).state \in of
        [] kind = "CurrentStateIsNot" -> Last(history).state \notin of
        [] kind \in {"PreviousStateIs", "PreviousStateIsAny"} -> previous \cap of # {}
        [] kind = "PreviousStateIsNot" -> previous \cap of = {}
        [] kind \in {"LastDerivationIs", "LastDerivationIsAny"} ->
             derivative # 0 /\ history[derivative].state \in of
        [] kind = "HasDerivation" -> path.derivation
        [] kind = "CurrentGroupContainsAny" ->
             \E node \in CurrentGroup(history) : node.state \in of
        [] kind = "PreviousGroupContains" -> \E node \in PreviousGroup(history) : node.state \in of
PathKinds ==
  {"HasTailSequence", "ContainsMorphemeSequence", "CurrentMorphemeIs", "CurrentMorphemeIsAny",
   "PreviousMorphemeIs", "PreviousMorphemeIsAny", "RootSurfaceIs", "RootSurfaceIsAny",
   "PreviousGroupContainsMorpheme", "NoSurfaceAfterDerivation", "ContainsMorpheme"}

Leaf(instruction, path, hasTail) ==
  CASE instruction.kind \in Features ->
         Feature(instruction.kind, ToSet(instruction.of), path, hasTail)
    [] instruction.kind \in PathKinds -> MorphemeOrSurface(instruction.kind, instruction.of, path)
    [] OTHER -> StateOrGroup(instruction.kind, ToSet(instruction.of), path)

(* ConditionVm::evaluate. *)
Evaluate(program, path, hasTail) ==
  Single(FoldLeft(
    LAMBDA stack, instruction :
      CASE instruction.kind = "NOT" -> NegateLast(stack)
        [] instruction.kind \in {"AND", "OR"} ->
             ReduceLast(stack, instruction.count, instruction.kind = "AND")
        [] OTHER -> Push(stack, Leaf(instruction, path, hasTail)),
    EmptyStack, program))

(* What the formula says. *)
RECURSIVE Holds(_, _, _)
Holds(formula, path, hasTail) ==
  CASE formula.kind = "AND" ->
         \A i \in DOMAIN formula.children : Holds(formula.children[i], path, hasTail)
    [] formula.kind = "OR" ->
         \E i \in DOMAIN formula.children : Holds(formula.children[i], path, hasTail)
    [] formula.kind = "NOT" -> ~Holds(formula.children[1], path, hasTail)
    [] OTHER -> Leaf(formula, path, hasTail)
=============================================================================
