------------------------------ MODULE MCRules ------------------------------
(***************************************************************************)
(* Inputs for Rules: both ends of time, values of up to four characters,  *)
(* lines of up to three options, every declaration of a table, and         *)
(* documents of two blocks, well formed or not.                            *)
(***************************************************************************)
EXTENDS Rules, FiniteSetsExt

\* Walls and windows about each end, and a window that spans all of time.
Edge == (0..3) \cup (190..196) \cup (164..173)
MCWindow ==
  [issued : {Aware(wall, offset) :
               wall \in Edge \cup {LastHour - e : e \in Edge}, offset \in {-23, -1, 0, 1, 23}},
   hours : {1, 2, 24, 168, 336} \cup {LastHour - 2 * ReadBackMargin - e : e \in 0..2}
             \cup {LastHour}]

Texts(classes, n) == UNION {[1..m -> classes] : m \in 0..n}

\* No NUL reaches a process by its arguments or its environment, and a line of
\* standard input ends at its newline.
Carries(way, text) ==
  /\ way[1] \in {"arguments", "environment"} => ~Has(text, {"0"})
  /\ way[1] = "stdin" => \A i \in 1..(Len(text) - 1) : text[i] # "n"

MCGiven ==
  {g \in [way : Way, text : Texts({"x", "@", "s", "w", "n", "c", "0", "u"}, 4)] :
     Carries(g.way, g.text)}

\* Three characters show how a value escapes.
FewGiven == [way : Way, text : Texts({"x", "@", "u"}, 3)]

Items == {<<o>> : o \in Valued} \cup {<<o, v>> : o \in Valued, v \in {"v", "-x", "--"}}
MCCommandLine == SeqOf(Items, 3)

MCDeclared == [role : Role, table : {t \in TableShape : WellFormed(t)}]

Pieces == {Published!Begin("a"), Published!End("a"), Published!Begin("b"), Published!End("b"),
           Published!Text("old"), Published!Text("new")}
Between == {<< >>, <<Published!Text("old")>>, <<Published!Text("new")>>}
Whole ==
  {p \o <<Published!Begin("a")>> \o q \o <<Published!End("a")>> \o r
     \o <<Published!Begin("b")>> \o s \o <<Published!End("b")>> \o <<Published!Text("tail")>> :
   p, q, r, s \in Between}
MCDocument ==
  [doc : SeqOf(Pieces, 4) \cup Whole, blocks : {<<"a", "b">>, <<"b", "a">>},
   registry : [{"a", "b"} -> {"old", "new"}]]
=============================================================================
