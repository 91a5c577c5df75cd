-------------------------- MODULE CommandLine_proofs --------------------------
(***************************************************************************)
(* The properties of CommandLine about a process, its files and what they   *)
(* hold, for every set of shells, of sessions and of files.                 *)
(*                                                                         *)
(* The programs are regular: a file is written in one block, from its       *)
(* creation to its end, a jump lands at the end of a block, only what was   *)
(* created is removed (Tidy), and once a file was created nothing but a     *)
(* failing export ends with the codes that refuse (Ordered): one lemma per  *)
(* part of a program, and Programs for the commands.  A process under way   *)
(* then keeps what its past established (ShellInvariant): only the block it *)
(* is in is half written, what it touched was created before, and no        *)
(* refusal comes late.                                                      *)
(*                                                                         *)
(* The second part, from the definition of Lies on, is about the history of *)
(* a matrix directory.  The program of an annual run is laid out step by    *)
(* step (AnnualProgram); at each place the run relies on files it has       *)
(* written itself, or found complete (OnCourse), and a mark is never there  *)
(* without a whole matrix (TrueMark), whatever died where (AnnualStays).    *)
(*                                                                         *)
(* The third part, from the definition of BatchProgram on, is about the     *)
(* rounds of a study: where a round is, which batch is active and what the  *)
(* files of the round are about belong together (StudyInvariant), and a     *)
(* command that is repeated finds them so.                                  *)
(***************************************************************************)
EXTENDS CommandLine, FiniteSetTheorems, WellFoundedInduction, TLAPS

-----------------------------------------------------------------------------
(* The steps of a program.                                                   *)

Writing == {"create", "rows", "close"}
Reading == {"read lines", "read json", "read sealed", "read tool"}
Codes == {1, 2, 101}
Deeds == Writing \cup Reading \cup {"options", "compute", "print", "verdict", "directory", "remove", "reuse",
                                     "open", "init", "begin", "commit"}
\* What a step may be about, if it is not the options, files to remove, or a number of steps.
Names == Roles \cup {"", "verify-cpu"}
CommandSteps == [do : Deeds, of : Names \cup Nat \cup SUBSET Names, code : Codes]

\* From the creation of a file to its end a process does nothing but write it and
\* read what the external program is given.
Block(c, h, j) ==
  /\ h \in DOMAIN c /\ j \in DOMAIN c /\ h < j
  /\ c[h].do = "create" /\ c[j].do = "close" /\ c[j].of = c[h].of
  /\ \A k \in DOMAIN c : h < k /\ k < j =>
        \/ c[k].do = "read tool"
        \/ c[k].do = "rows" /\ c[k].of = c[h].of
Framed(c) == \A i \in DOMAIN c : c[i].do \in Writing =>
                \E h, j \in DOMAIN c : h <= i /\ i <= j /\ Block(c, h, j)
Named(c) == /\ \A i \in DOMAIN c : c[i].do \in Writing \cup Reading => c[i].of \in Roles
            /\ \A i \in DOMAIN c : c[i].do \in {"options", "remove"} => c[i].of \in SUBSET Names

\* What is skipped when a matrix is reused ends with the end of a file.
Jumps(c) == \A i \in DOMAIN c : c[i].do = "reuse" =>
               c[i].of \in Nat /\ i + c[i].of \in DOMAIN c /\ c[i + c[i].of].do = "close"
\* Nothing is removed that the process has not created.
Removes(c) == \A i \in DOMAIN c : c[i].do = "remove" =>
                 \A role \in c[i].of : \E h \in DOMAIN c : h < i /\ c[h].do = "create" /\ c[h].of = role
\* No step is left out.
Unskipped(c) == \A i \in DOMAIN c : c[i].do # "reuse" /\ (c[i].do = "options" => c[i].of = {})
Kept(c) == \A i \in DOMAIN c : c[i].do # "remove"

Tidy(c) == c \in Seq(CommandSteps) /\ 1 \in DOMAIN c /\ Framed(c) /\ Named(c) /\ Jumps(c) /\ Removes(c)

\* Before a file is created anything may fail; after it, with one of the codes,
\* only what has to do with files.
Clean(c) == \A i \in DOMAIN c : c[i].do # "create"
Late(c, codes) == \A i \in DOMAIN c : c[i].code \in codes => c[i].do \in Exports
Ordered(c, codes) ==
  \A h, i \in DOMAIN c : h < i /\ c[h].do = "create" /\ c[i].code \in codes => c[i].do \in Exports

Opening(c) == Tidy(c) /\ Kept(c) /\ Clean(c)
Closing(c, codes) == Tidy(c) /\ Kept(c) /\ Late(c, codes)
Proper(c, codes) == Tidy(c) /\ Kept(c) /\ Ordered(c, codes)

-----------------------------------------------------------------------------
(* Sequences of steps one after the other.                                   *)

LEMMA Joined ==
  ASSUME NEW S, NEW s \in Seq(S), NEW t \in Seq(S)
  PROVE  /\ s \o t \in Seq(S)
         /\ DOMAIN (s \o t) = 1..(Len(s) + Len(t)) /\ Len(s) \in Nat /\ Len(t) \in Nat
         /\ DOMAIN s = 1..Len(s) /\ DOMAIN t = 1..Len(t)
         /\ \A i \in DOMAIN s : i \in DOMAIN (s \o t) /\ (s \o t)[i] = s[i]
         /\ \A i \in DOMAIN t : i + Len(s) \in DOMAIN (s \o t) /\ (s \o t)[i + Len(s)] = t[i]
         /\ \A i \in DOMAIN (s \o t) : \/ i \in DOMAIN s
                                       \/ i - Len(s) \in DOMAIN t /\ (s \o t)[i] = t[i - Len(s)]
  OBVIOUS

LEMMA FramedJoined ==
  ASSUME NEW s \in Seq(CommandSteps), NEW t \in Seq(CommandSteps), Framed(s), Framed(t)
  PROVE  Framed(s \o t)
  <1> DEFINE c == s \o t
  <1>1. /\ DOMAIN c = 1..(Len(s) + Len(t)) /\ Len(s) \in Nat /\ Len(t) \in Nat
        /\ DOMAIN s = 1..Len(s) /\ DOMAIN t = 1..Len(t)
        /\ \A i \in DOMAIN s : i \in DOMAIN c /\ c[i] = s[i]
        /\ \A i \in DOMAIN t : i + Len(s) \in DOMAIN c /\ c[i + Len(s)] = t[i]
        /\ \A i \in DOMAIN c : \/ i \in DOMAIN s
                               \/ i - Len(s) \in DOMAIN t /\ c[i] = t[i - Len(s)]
    BY Joined
  <1> HIDE DEF c
  <1> SUFFICES ASSUME NEW i \in DOMAIN c, c[i].do \in Writing
               PROVE  \E h, j \in DOMAIN c : h <= i /\ i <= j /\ Block(c, h, j)
    BY DEF Framed, c
  <1>2. CASE i \in DOMAIN s
    <2>1. PICK h \in DOMAIN s, j \in DOMAIN s : h <= i /\ i <= j /\ Block(s, h, j)
      BY <1>1, <1>2 DEF Framed
    <2>2. Block(c, h, j)
      <3>1. \A k \in DOMAIN c : h < k /\ k < j => k \in DOMAIN s /\ c[k] = s[k]
        BY <1>1
      <3>2. h \in DOMAIN c /\ j \in DOMAIN c /\ c[h] = s[h] /\ c[j] = s[j]
        BY <1>1
      <3>3. QED
        BY <2>1, <3>1, <3>2 DEF Block
    <2>3. QED
      BY <1>1, <2>1, <2>2
  <1>3. CASE i - Len(s) \in DOMAIN t /\ c[i] = t[i - Len(s)]
    <2>1. PICK h \in DOMAIN t, j \in DOMAIN t : h <= i - Len(s) /\ i - Len(s) <= j /\ Block(t, h, j)
      BY <1>1, <1>3 DEF Framed
    <2>2. \A k \in DOMAIN c : h + Len(s) < k /\ k < j + Len(s) =>
             k - Len(s) \in DOMAIN t /\ c[k] = t[k - Len(s)]
      BY <1>1
    <2>3. \A k \in DOMAIN c : h + Len(s) < k /\ k < j + Len(s) => h < k - Len(s) /\ k - Len(s) < j
      BY <1>1
    <2>4. Block(c, h + Len(s), j + Len(s))
      <3>1. /\ h + Len(s) \in DOMAIN c /\ j + Len(s) \in DOMAIN c /\ h + Len(s) < j + Len(s)
            /\ c[h + Len(s)] = t[h] /\ c[j + Len(s)] = t[j]
        <4>1. h < j
          BY <2>1 DEF Block
        <4>2. QED
          BY <1>1, <4>1
      <3>2. \A k \in DOMAIN t : h < k /\ k < j =>
               t[k].do = "read tool" \/ (t[k].do = "rows" /\ t[k].of = t[h].of)
        BY <2>1 DEF Block
      <3>3. t[h].do = "create" /\ t[j].do = "close" /\ t[j].of = t[h].of
        BY <2>1 DEF Block
      <3>4. ASSUME NEW k \in DOMAIN c, h + Len(s) < k, k < j + Len(s)
            PROVE  c[k].do = "read tool" \/ (c[k].do = "rows" /\ c[k].of = c[h + Len(s)].of)
        <4>1. k - Len(s) \in DOMAIN t /\ c[k] = t[k - Len(s)] /\ h < k - Len(s) /\ k - Len(s) < j
          BY <2>2, <2>3, <3>4
        <4>2. QED
          BY <3>1, <3>2, <4>1
      <3>5. QED
        BY <3>1, <3>3, <3>4 DEF Block
    <2>5. h + Len(s) <= i /\ i <= j + Len(s) /\ h + Len(s) \in DOMAIN c /\ j + Len(s) \in DOMAIN c
      BY <1>1, <2>1
    <2>6. QED
      BY <2>4, <2>5
  <1>4. QED
    BY <1>1, <1>2, <1>3

LEMMA TidyJoined ==
  ASSUME NEW s, NEW t, Tidy(s), Tidy(t)
  PROVE  Tidy(s \o t)
  <1> DEFINE c == s \o t
  <1>0. s \in Seq(CommandSteps) /\ t \in Seq(CommandSteps)
    BY DEF Tidy
  <1>1. /\ DOMAIN c = 1..(Len(s) + Len(t)) /\ Len(s) \in Nat /\ Len(t) \in Nat
        /\ DOMAIN s = 1..Len(s) /\ DOMAIN t = 1..Len(t)
        /\ \A i \in DOMAIN s : i \in DOMAIN c /\ c[i] = s[i]
        /\ \A i \in DOMAIN t : i + Len(s) \in DOMAIN c /\ c[i + Len(s)] = t[i]
        /\ \A i \in DOMAIN c : \/ i \in DOMAIN s
                               \/ i - Len(s) \in DOMAIN t /\ c[i] = t[i - Len(s)]
    BY <1>0, Joined
  <1>2. c \in Seq(CommandSteps) /\ Framed(c)
    BY <1>0, FramedJoined DEF Tidy
  <1> HIDE DEF c
  <1>3. Named(c)
    BY <1>1 DEF Named, Tidy
  <1>4. Jumps(c)
    <2> SUFFICES ASSUME NEW i \in DOMAIN c, c[i].do = "reuse"
                 PROVE  c[i].of \in Nat /\ i + c[i].of \in DOMAIN c /\ c[i + c[i].of].do = "close"
      BY DEF Jumps
    <2>1. CASE i \in DOMAIN s
      BY <1>1, <2>1 DEF Tidy, Jumps
    <2>2. CASE i - Len(s) \in DOMAIN t /\ c[i] = t[i - Len(s)]
      <3>1. t[i - Len(s)].of \in Nat /\ i - Len(s) + t[i - Len(s)].of \in DOMAIN t
            /\ t[i - Len(s) + t[i - Len(s)].of].do = "close"
        BY <2>2 DEF Tidy, Jumps
      <3>2. (i - Len(s) + t[i - Len(s)].of) + Len(s) = i + c[i].of
        BY <1>1, <2>2, <3>1
      <3>3. QED
        BY <1>1, <2>2, <3>1, <3>2
    <2>3. QED
      BY <1>1, <2>1, <2>2
  <1>5. Removes(c)
    <2> SUFFICES ASSUME NEW i \in DOMAIN c, c[i].do = "remove", NEW role \in c[i].of
                 PROVE  \E h \in DOMAIN c : h < i /\ c[h].do = "create" /\ c[h].of = role
      BY DEF Removes
    <2>1. CASE i \in DOMAIN s
      BY <1>1, <2>1 DEF Tidy, Removes
    <2>2. CASE i - Len(s) \in DOMAIN t /\ c[i] = t[i - Len(s)]
      <3>1. PICK h \in DOMAIN t : h < i - Len(s) /\ t[h].do = "create" /\ t[h].of = role
        BY <2>2 DEF Tidy, Removes
      <3>2. h + Len(s) \in DOMAIN c /\ h + Len(s) < i /\ c[h + Len(s)] = t[h]
        BY <1>1, <3>1
      <3>3. QED
        BY <3>1, <3>2
    <2>3. QED
      BY <1>1, <2>1, <2>2
  <1>6. QED
    BY <1>2, <1>3, <1>4, <1>5 DEF Tidy, c

LEMMA AnyJoined ==
  ASSUME NEW s, NEW t, Tidy(s), Tidy(t)
  PROVE  /\ Clean(s) /\ Clean(t) => Clean(s \o t)
         /\ Unskipped(s) /\ Unskipped(t) => Unskipped(s \o t)
         /\ Kept(s) /\ Kept(t) => Kept(s \o t)
         /\ \A codes : Late(s, codes) /\ Late(t, codes) => Late(s \o t, codes)
         /\ \A codes : Clean(s) /\ Ordered(t, codes) => Ordered(s \o t, codes)
         /\ \A codes : Ordered(s, codes) /\ Late(t, codes) => Ordered(s \o t, codes)
  <1> DEFINE c == s \o t
  <1>0. s \in Seq(CommandSteps) /\ t \in Seq(CommandSteps)
    BY DEF Tidy
  <1>1. /\ DOMAIN c = 1..(Len(s) + Len(t)) /\ Len(s) \in Nat /\ Len(t) \in Nat
        /\ DOMAIN s = 1..Len(s) /\ DOMAIN t = 1..Len(t)
        /\ \A i \in DOMAIN s : i \in DOMAIN c /\ c[i] = s[i]
        /\ \A i \in DOMAIN t : i + Len(s) \in DOMAIN c /\ c[i + Len(s)] = t[i]
        /\ \A i \in DOMAIN c : \/ i \in DOMAIN s
                               \/ i - Len(s) \in DOMAIN t /\ c[i] = t[i - Len(s)]
    BY <1>0, Joined
  <1> HIDE DEF c
  <1>2. Clean(s) /\ Clean(t) => Clean(c)
    BY <1>1 DEF Clean
  <1>3. Unskipped(s) /\ Unskipped(t) => Unskipped(c)
    BY <1>1 DEF Unskipped
  <1>4. Kept(s) /\ Kept(t) => Kept(c)
    BY <1>1 DEF Kept
  <1>5. ASSUME NEW codes, Late(s, codes), Late(t, codes)
        PROVE  Late(c, codes)
    BY <1>1, <1>5 DEF Late
  <1>6. ASSUME NEW codes, Clean(s), Ordered(t, codes)
        PROVE  Ordered(c, codes)
    <2> SUFFICES ASSUME NEW h \in DOMAIN c, NEW i \in DOMAIN c, h < i, c[h].do = "create", c[i].code \in codes
                 PROVE  c[i].do \in Exports
      BY DEF Ordered
    <2>1. h - Len(s) \in DOMAIN t /\ c[h] = t[h - Len(s)]
      BY <1>1, <1>6 DEF Clean
    <2>2. i - Len(s) \in DOMAIN t /\ c[i] = t[i - Len(s)] /\ h - Len(s) < i - Len(s)
      BY <1>1, <2>1
    <2>3. QED
      BY <1>6, <2>1, <2>2 DEF Ordered
  <1>7. ASSUME NEW codes, Ordered(s, codes), Late(t, codes)
        PROVE  Ordered(c, codes)
    <2> SUFFICES ASSUME NEW h \in DOMAIN c, NEW i \in DOMAIN c, h < i, c[h].do = "create", c[i].code \in codes
                 PROVE  c[i].do \in Exports
      BY DEF Ordered
    <2>1. CASE i \in DOMAIN s
      BY <1>1, <1>7, <2>1 DEF Ordered
    <2>2. CASE i - Len(s) \in DOMAIN t /\ c[i] = t[i - Len(s)]
      BY <1>7, <2>2 DEF Late
    <2>3. QED
      BY <1>1, <2>1, <2>2
  <1>8. QED
    BY <1>2, <1>3, <1>4, <1>5, <1>6, <1>7 DEF c

\* One after the other: what a program may be made of.
LEMMA Rules ==
  /\ \A s, t : Opening(s) /\ Opening(t) => Opening(s \o t)
  /\ \A s, t, codes : Closing(s, codes) /\ Closing(t, codes) => Closing(s \o t, codes)
  /\ \A s, t, codes : Opening(s) /\ Proper(t, codes) => Proper(s \o t, codes)
  /\ \A s, t, codes : Proper(s, codes) /\ Closing(t, codes) => Proper(s \o t, codes)
  /\ \A s, codes : Opening(s) => Proper(s, codes)
  /\ \A s, codes : Closing(s, codes) => Proper(s, codes)
  <1>1. \A s, codes : Clean(s) \/ Late(s, codes) => Ordered(s, codes)
    BY DEF Clean, Late, Ordered
  <1>2. \A s, t : Tidy(s) /\ Tidy(t) => Tidy(s \o t)
    BY TidyJoined
  <1>3. QED
    BY <1>1, <1>2, AnyJoined DEF Opening, Closing, Proper

-----------------------------------------------------------------------------
(* What programs are made of.                                                *)


\* A step that neither writes, removes nor skips.
LEMMA PlainPiece ==
  ASSUME NEW do \in Deeds, NEW of \in Names \cup Nat \cup SUBSET Names, NEW code \in Codes,
         do \notin Writing \cup {"remove", "reuse"}, do \in Reading => of \in Roles,
         do = "options" => of \in SUBSET Names
  PROVE  /\ Opening(<<Step(do, of, code)>>)
         /\ do # "options" \/ of = {} => Unskipped(<<Step(do, of, code)>>)
         /\ \A codes : code \notin codes \/ do \in Exports => Closing(<<Step(do, of, code)>>, codes)
  <1> DEFINE c == <<Step(do, of, code)>>
  <1>1. c \in Seq(CommandSteps) /\ DOMAIN c = {1} /\ c[1].do = do /\ c[1].of = of /\ c[1].code = code
    BY DEF CommandSteps, Step
  <1> HIDE DEF c
  <1>2. Tidy(c)
    BY <1>1 DEF Tidy, Framed, Named, Jumps, Removes, Writing
  <1>3. Clean(c) /\ Kept(c)
    BY <1>1 DEF Clean, Kept, Writing
  <1>4. \A codes : code \notin codes \/ do \in Exports => Late(c, codes)
    BY <1>1 DEF Late
  <1>5. do # "options" \/ of = {} => Unskipped(c)
    BY <1>1 DEF Unskipped
  <1>6. QED
    BY <1>2, <1>3, <1>4, <1>5 DEF Opening, Closing, c

\* The steps that only compute, print or open.
Harmless == Deeds \ (Writing \cup Reading \cup {"options", "remove", "reuse"})
LEMMA PlainStep ==
  ASSUME NEW do \in Harmless, NEW of \in Names, NEW code \in Codes
  PROVE  Opening(<<Step(do, of, code)>>)
  <1>1. /\ do \in Deeds /\ do \notin Writing \cup {"remove", "reuse"} /\ do \notin Reading /\ do # "options"
        /\ of \in Names \cup Nat \cup SUBSET Names
    BY DEF Harmless
  <1>2. QED
    BY ONLY <1>1, code \in Codes, PlainPiece

LEMMA OpeningPieces ==
  /\ \A code \in Codes : Opening(<<Step("compute", "", code)>>)
  /\ \A exports \in SUBSET Names : Opening(Options(exports))
  /\ Opening(Refusal) /\ Opening(Computation) /\ Opening(ToStdout) /\ Opening(Verdict)
  /\ \A role \in Roles, code \in {1, 2} :
        Opening(ReadLines(role, code)) /\ Opening(ReadJson(role, code)) /\ Opening(ReadSealed(role, code))
  /\ \A code \in {1, 2} : Opening(MakeDirectory(code))
  /\ Opening(<<Step("compute", "verify-cpu", 1)>>) /\ Opening(<<Step("verdict", "verify-cpu", 1)>>)
  /\ \A do \in {"open", "init", "begin", "commit"} : Opening(<<Step(do, "", 1)>>)
  <1>1. \A role \in Roles : role \in Names
    BY DEF Names
  <1>2. ASSUME NEW exports \in SUBSET Names PROVE Opening(Options(exports))
    BY PlainPiece DEF Options, Codes, Deeds, Names, Writing, Reading
  <1>0. PICK none \in Names : none = ""
    <2>1. "" \in Names
      BY Zenon DEF Names
    <2>2. QED
      BY <2>1, Zenon
  <1>10. /\ {"compute", "print", "verdict", "directory", "open", "init", "begin", "commit"} \subseteq Harmless
         /\ {1, 2, 101} \subseteq Codes
    BY DEF Harmless, Deeds, Writing, Reading, Codes
  <1>11. "verify-cpu" \in Names
    BY Zenon DEF Names
  <1>3. Opening(Refusal) /\ Opening(Computation) /\ Opening(ToStdout) /\ Opening(Verdict)
    <2>1. /\ Opening(<<Step("compute", none, 2)>>) /\ Opening(<<Step("compute", none, 1)>>)
          /\ Opening(<<Step("print", none, 101)>>) /\ Opening(<<Step("verdict", none, 1)>>)
      BY ONLY <1>0, <1>10, PlainStep
    <2>2. QED
      BY ONLY <1>0, <2>1, Zenon DEF Refusal, Computation, ToStdout, Verdict
  <1>4. ASSUME NEW role \in Roles, NEW code \in {1, 2}
        PROVE  Opening(ReadLines(role, code)) /\ Opening(ReadJson(role, code)) /\ Opening(ReadSealed(role, code))
    BY <1>1, PlainPiece DEF ReadLines, ReadJson, ReadSealed, Codes, Deeds, Names, Writing, Reading
  <1>5. ASSUME NEW code \in {1, 2} PROVE Opening(MakeDirectory(code))
    <2>1. Opening(<<Step("directory", none, code)>>)
      BY ONLY code \in {1, 2}, <1>0, <1>10, PlainStep
    <2>2. QED
      BY ONLY <1>0, <2>1, Zenon DEF MakeDirectory
  <1>6. Opening(<<Step("compute", "verify-cpu", 1)>>) /\ Opening(<<Step("verdict", "verify-cpu", 1)>>)
    BY ONLY <1>10, <1>11, PlainStep
  <1>7. ASSUME NEW do \in {"open", "init", "begin", "commit"} PROVE Opening(<<Step(do, "", 1)>>)
    <2>1. Opening(<<Step(do, none, 1)>>)
      BY ONLY do \in {"open", "init", "begin", "commit"}, <1>0, <1>10, PlainStep
    <2>2. QED
      BY ONLY <1>0, <2>1, Zenon
  <1>8. ASSUME NEW code \in Codes PROVE Opening(<<Step("compute", "", code)>>)
    <2>1. Opening(<<Step("compute", none, code)>>)
      BY ONLY code \in Codes, <1>0, <1>10, PlainStep
    <2>2. QED
      BY ONLY <1>0, <2>1, Zenon
  <1>9. QED
    BY <1>2, <1>3, <1>4, <1>5, <1>6, <1>7, <1>8

\* A file from its creation to its end.
LEMMA FilePieces ==
  ASSUME NEW role \in Roles, NEW code \in {1, 2}, NEW codes
  PROVE  Closing(WriteFile(role, code), codes) /\ Closing(Stream(role, code), codes)
  <1>1. role \in Names /\ code \in Codes
    BY DEF Codes, Names
  <1>2. Closing(WriteFile(role, code), codes)
    <2> DEFINE c == WriteFile(role, code)
    <2>1. /\ c \in Seq(CommandSteps) /\ DOMAIN c = 1..2
          /\ c[1] = Step("create", role, code) /\ c[2] = Step("close", role, code)
      BY <1>1 DEF WriteFile, Opened, CommandSteps, Step, Deeds, Writing
    <2> HIDE DEF c
    <2>2. c[1].do = "create" /\ c[2].do = "close" /\ c[1].of = role /\ c[2].of = role
      BY <2>1 DEF Step
    <2>3. Block(c, 1, 2)
      BY <2>1, <2>2 DEF Block
    <2>4. Framed(c)
      BY <2>1, <2>3 DEF Framed
    <2>5. Tidy(c) /\ Kept(c) /\ Late(c, codes)
      BY <2>1, <2>2, <2>4 DEF Tidy, Kept, Named, Jumps, Removes, Late, Exports
    <2>6. QED
      BY <2>5 DEF Closing, c
  <1>3. Closing(Stream(role, code), codes)
    <2> DEFINE c == Stream(role, code)
    <2>1. /\ c \in Seq(CommandSteps) /\ DOMAIN c = 1..3
          /\ c[1] = Step("create", role, code) /\ c[2] = Step("rows", role, code)
          /\ c[3] = Step("close", role, code)
      BY <1>1 DEF Stream, Opened, CommandSteps, Step, Deeds, Writing
    <2> HIDE DEF c
    <2>2. /\ c[1].do = "create" /\ c[2].do = "rows" /\ c[3].do = "close"
          /\ c[1].of = role /\ c[2].of = role /\ c[3].of = role
      BY <2>1 DEF Step
    <2>3. Block(c, 1, 3)
      <3>1. \A k \in DOMAIN c : 1 < k /\ k < 3 => k = 2
        BY <2>1
      <3>2. QED
        <4>1. 1 \in DOMAIN c /\ 3 \in DOMAIN c /\ c[3].of = c[1].of
          BY <2>1, <2>2
        <4>2. \A k \in DOMAIN c : 1 < k /\ k < 3 => c[k].do = "rows" /\ c[k].of = c[1].of
          BY <2>2, <3>1
        <4>3. 1 < 3
          OBVIOUS
        <4>4. QED
          BY <2>2, <4>1, <4>2, <4>3, Zenon DEF Block
    <2>4. Framed(c)
      BY <2>1, <2>3 DEF Framed
    <2>5. Tidy(c) /\ Kept(c) /\ Late(c, codes)
      BY <2>1, <2>2, <2>4 DEF Tidy, Kept, Named, Jumps, Removes, Late, Exports
    <2>6. QED
      BY <2>5 DEF Closing, c
  <1>4. QED
    BY <1>2, <1>3

LEMMA ClosingPieces ==
  /\ \A codes : 101 \notin codes => Closing(ToStdout, codes)
  /\ \A code \in {1, 2} : \A codes : Closing(MakeDirectory(code), codes)
  /\ \A role \in Roles, code \in {1, 2} : \A codes :
        Closing(WriteFile(role, code), codes) /\ Closing(Stream(role, code), codes)
  <1>1. ASSUME NEW codes, 101 \notin codes PROVE Closing(ToStdout, codes)
    BY <1>1, PlainPiece DEF ToStdout, Codes, Deeds, Names, Writing, Reading
  <1>2. ASSUME NEW code \in {1, 2}, NEW codes PROVE Closing(MakeDirectory(code), codes)
    BY PlainPiece DEF MakeDirectory, Codes, Deeds, Names, Writing, Reading, Exports
  <1>3. QED
    BY <1>1, <1>2, FilePieces

-----------------------------------------------------------------------------
(* The parts of programs.                                                    *)

LEMMA RoleNames ==
  /\ {"input", "weather", "manifest", "evaluations", "fast", "reference", "outputs", "output",
      "mask-csv", "timeline-csv", "mesh-obj", "boundary-csv", "matrix-csv", "pairs-csv",
      "metrics-csv", "materials.rad", "geometry.rad", "sensors.pts", "manifest.json", "sky.rad",
      "receiver.rad", "scene.oct", "daylight.mtx", "daylight.key", "weather.wea", "sky.mtx", "rgb",
      "study-data.json", "variants.parquet", "objective-space.gltf", "report.html", "viewer.html"}
      \subseteq Roles
  /\ {"verify-cpu", ""} \cup Roles \subseteq Names
  BY DEF Roles, Names, BundleFiles, ReportFiles

LEMMA OpeningParts ==
  /\ Opening(Refusal)
  /\ Opening(Computation)
  /\ Opening(ToStdout)
  /\ Opening(Verdict)
  /\ Opening(CreateSession)
  /\ Opening(Compared)
  /\ Opening(ComparisonPassed)
  /\ Opening(load_obj)
  /\ Opening(build_cli_scene)
  /\ Opening(checked_scene)
  /\ Opening(library)
  /\ Opening(load_weather)
  /\ Opening(load_mesh)
  /\ Opening(print_cache_status)
  /\ Opening(open_workspace)
  /\ Opening(export_radiance_bundle)
  /\ Opening(RadianceDiscover)
  /\ Opening(load_numeric_values("fast"))
  /\ Opening(load_numeric_values("reference"))
  /\ Opening(ReadLines("input", 1))
  /\ Opening(ReadLines("weather", 1))
  /\ Opening(ReadSealed("input", 1))
  /\ Opening(ReadSealed("input", 2))
  /\ Opening(ReadJson("input", 1))
  /\ Opening(ReadJson("manifest", 2))
  /\ Opening(ReadJson("evaluations", 2))
  /\ Opening(read_json("input"))
  /\ Opening(read_json("outputs"))
  /\ Opening(<<Step("begin", "", 1)>>)
  /\ Opening(<<Step("commit", "", 1)>>)
  /\ Opening(<<Step("init", "", 1)>>)
  /\ Opening(Options({}))
  /\ Opening(Options({"output"}))
  /\ Opening(Options({"timeline-csv"}))
  /\ Opening(parse_sky_view_options)
  /\ Opening(parse_annual_irradiance_options)
  /\ Opening(parse_surface_grid_options)
  /\ Opening(parse_isovist_options)
  /\ Opening(parse_intervisibility_options)
  /\ Opening(parse_visibility_graph_options)
  /\ Opening(parse_sun_position_options)
  /\ Opening(parse_scene_benchmark_options)
  /\ Opening(parse_check_options)
  /\ Opening(parse_repair_options)
  /\ Opening(parse_target_options)
  /\ Opening(parse_corridor_options)
  /\ Opening(parse_path_options)
  /\ Opening(parse_study_options)
  /\ Opening(parse_options)
  /\ Opening(parse_arguments)
  /\ Opening(parse_mesh_policy)
  /\ Opening(parse_weather_policy)
  <1>1. Opening(Refusal)
    BY OpeningPieces, Rules, RoleNames
  <1>2. Opening(Computation)
    BY OpeningPieces, Rules, RoleNames
  <1>3. Opening(ToStdout)
    BY OpeningPieces, Rules, RoleNames
  <1>4. Opening(Verdict)
    BY OpeningPieces, Rules, RoleNames
  <1>5. Opening(CreateSession)
    BY OpeningPieces, Rules, RoleNames DEF CreateSession
  <1>6. Opening(Compared)
    BY OpeningPieces, Rules, RoleNames DEF Compared
  <1>7. Opening(ComparisonPassed)
    BY OpeningPieces, Rules, RoleNames DEF ComparisonPassed
  <1>8. Opening(load_obj)
    BY OpeningPieces, Rules, RoleNames DEF load_obj
  <1>9. Opening(build_cli_scene)
    BY OpeningPieces, Rules, RoleNames DEF build_cli_scene
  <1>10. Opening(checked_scene)
    BY OpeningPieces, Rules, RoleNames DEF checked_scene, build_cli_scene
  <1>11. Opening(library)
    BY OpeningPieces, Rules, RoleNames DEF library
  <1>12. Opening(load_weather)
    BY OpeningPieces, Rules, RoleNames DEF load_weather
  <1>13. Opening(load_mesh)
    BY OpeningPieces, Rules, RoleNames DEF load_mesh
  <1>14. Opening(print_cache_status)
    BY OpeningPieces, Rules, RoleNames DEF print_cache_status
  <1>15. Opening(open_workspace)
    BY OpeningPieces, Rules, RoleNames DEF open_workspace
  <1>16. Opening(export_radiance_bundle)
    BY OpeningPieces, Rules, RoleNames DEF export_radiance_bundle
  <1>17. Opening(RadianceDiscover)
    BY OpeningPieces, Rules, RoleNames DEF RadianceDiscover
  <1>18. Opening(load_numeric_values("fast"))
    BY OpeningPieces, Rules, RoleNames DEF load_numeric_values
  <1>19. Opening(load_numeric_values("reference"))
    BY OpeningPieces, Rules, RoleNames DEF load_numeric_values
  <1>20. Opening(ReadLines("input", 1))
    BY OpeningPieces, Rules, RoleNames
  <1>21. Opening(ReadLines("weather", 1))
    BY OpeningPieces, Rules, RoleNames
  <1>22. Opening(ReadSealed("input", 1))
    BY OpeningPieces, Rules, RoleNames
  <1>23. Opening(ReadSealed("input", 2))
    BY OpeningPieces, Rules, RoleNames
  <1>24. Opening(ReadJson("input", 1))
    BY OpeningPieces, Rules, RoleNames
  <1>25. Opening(ReadJson("manifest", 2))
    BY OpeningPieces, Rules, RoleNames
  <1>26. Opening(ReadJson("evaluations", 2))
    BY OpeningPieces, Rules, RoleNames
  <1>27. Opening(read_json("input"))
    BY OpeningPieces, Rules, RoleNames DEF read_json
  <1>28. Opening(read_json("outputs"))
    BY OpeningPieces, Rules, RoleNames DEF read_json
  <1>29. Opening(<<Step("begin", "", 1)>>)
    BY OpeningPieces, Rules, RoleNames
  <1>30. Opening(<<Step("commit", "", 1)>>)
    BY OpeningPieces, Rules, RoleNames
  <1>31. Opening(<<Step("init", "", 1)>>)
    BY OpeningPieces, Rules, RoleNames
  <1>32. Opening(Options({}))
    BY OpeningPieces DEF Roles, Names
  <1>33. Opening(Options({"output"}))
    BY OpeningPieces DEF Roles, Names
  <1>34. Opening(Options({"timeline-csv"}))
    BY OpeningPieces DEF Roles, Names
  <1>35. Opening(parse_sky_view_options)
    BY OpeningPieces DEF parse_sky_view_options, Roles, Names
  <1>36. Opening(parse_annual_irradiance_options)
    BY OpeningPieces DEF parse_annual_irradiance_options, Roles, Names
  <1>37. Opening(parse_surface_grid_options)
    BY OpeningPieces DEF parse_surface_grid_options, Roles, Names
  <1>38. Opening(parse_isovist_options)
    BY OpeningPieces DEF parse_isovist_options, Roles, Names
  <1>39. Opening(parse_intervisibility_options)
    BY OpeningPieces DEF parse_intervisibility_options, Roles, Names
  <1>40. Opening(parse_visibility_graph_options)
    BY OpeningPieces DEF parse_visibility_graph_options, Roles, Names
  <1>41. Opening(parse_sun_position_options)
    BY OpeningPieces DEF parse_sun_position_options, Roles, Names
  <1>42. Opening(parse_scene_benchmark_options)
    BY OpeningPieces DEF parse_scene_benchmark_options, Roles, Names
  <1>43. Opening(parse_check_options)
    BY OpeningPieces DEF parse_check_options, Roles, Names
  <1>44. Opening(parse_repair_options)
    BY OpeningPieces DEF parse_repair_options, Roles, Names
  <1>45. Opening(parse_target_options)
    BY OpeningPieces DEF parse_target_options, Roles, Names
  <1>46. Opening(parse_corridor_options)
    BY OpeningPieces DEF parse_corridor_options, Roles, Names
  <1>47. Opening(parse_path_options)
    BY OpeningPieces DEF parse_path_options, Roles, Names
  <1>48. Opening(parse_study_options)
    BY OpeningPieces DEF parse_study_options, Roles, Names
  <1>49. Opening(parse_options)
    BY OpeningPieces DEF parse_options, Roles, Names
  <1>50. Opening(parse_arguments)
    BY OpeningPieces, Rules, RoleNames DEF parse_arguments
  <1>51. Opening(parse_mesh_policy)
    BY OpeningPieces, Rules, RoleNames DEF parse_mesh_policy
  <1>52. Opening(parse_weather_policy)
    BY OpeningPieces, Rules, RoleNames DEF parse_weather_policy
  <1>53. QED
    BY <1>1, <1>2, <1>3, <1>4, <1>5, <1>6, <1>7, <1>8, <1>9, <1>10, <1>11, <1>12, <1>13, <1>14,
       <1>15, <1>16, <1>17, <1>18, <1>19, <1>20, <1>21, <1>22, <1>23, <1>24, <1>25, <1>26, <1>27, <1>28,
       <1>29, <1>30, <1>31, <1>32, <1>33, <1>34, <1>35, <1>36, <1>37, <1>38, <1>39, <1>40, <1>41, <1>42,
       <1>43, <1>44, <1>45, <1>46, <1>47, <1>48, <1>49, <1>50, <1>51, <1>52

LEMMA ClosingParts ==
  ASSUME NEW codes, 101 \notin codes
  PROVE
  /\ Closing(ToStdout, codes)
  /\ Closing(write_shadow_mask_csv, codes)
  /\ Closing(write_irradiance_csv, codes)
  /\ Closing(write_isovist_csv, codes)
  /\ Closing(write_intervisibility_csv, codes)
  /\ Closing(write_visibility_pairs_csv, codes)
  /\ Closing(write_visibility_metrics_csv, codes)
  /\ Closing(write_surface_grid_csv, codes)
  /\ Closing(write_annual_csv, codes)
  /\ Closing(WriteFile("output", 1), codes)
  /\ Closing(Stream("output", 1), codes)
  /\ Closing(write_json, codes)
  /\ Closing(write_radiance_bundle, codes)
  /\ Closing(write_text("sky.rad"), codes)
  /\ Closing(MakeDirectory(1), codes)
  <1>1. Closing(ToStdout, codes)
    BY ClosingPieces, Rules, RoleNames
  <1>2. Closing(write_shadow_mask_csv, codes)
    BY ClosingPieces, Rules, RoleNames DEF write_shadow_mask_csv
  <1>3. Closing(write_irradiance_csv, codes)
    BY ClosingPieces, Rules, RoleNames DEF write_irradiance_csv
  <1>4. Closing(write_isovist_csv, codes)
    BY ClosingPieces, Rules, RoleNames DEF write_isovist_csv
  <1>5. Closing(write_intervisibility_csv, codes)
    BY ClosingPieces, Rules, RoleNames DEF write_intervisibility_csv
  <1>6. Closing(write_visibility_pairs_csv, codes)
    BY ClosingPieces, Rules, RoleNames DEF write_visibility_pairs_csv
  <1>7. Closing(write_visibility_metrics_csv, codes)
    BY ClosingPieces, Rules, RoleNames DEF write_visibility_metrics_csv
  <1>8. Closing(write_surface_grid_csv, codes)
    BY ClosingPieces, Rules, RoleNames DEF write_surface_grid_csv
  <1>9. Closing(write_annual_csv, codes)
    BY ClosingPieces, Rules, RoleNames DEF write_annual_csv
  <1>10. Closing(WriteFile("output", 1), codes)
    BY ClosingPieces, Rules, RoleNames
  <1>11. Closing(Stream("output", 1), codes)
    BY ClosingPieces, Rules, RoleNames
  <1>12. Closing(write_json, codes)
    <2>1. Closing(MakeDirectory(2), codes) /\ Closing(WriteFile("output", 2), codes)
      BY ClosingPieces, RoleNames
    <2>2. QED
      BY <2>1, Rules DEF write_json
  <1>13. Closing(write_radiance_bundle, codes)
    <2>1. /\ Closing(MakeDirectory(1), codes) /\ Closing(write_text("materials.rad"), codes)
          /\ Closing(write_text("geometry.rad"), codes) /\ Closing(write_text("sensors.pts"), codes)
          /\ Closing(write_text("manifest.json"), codes)
      BY ClosingPieces, RoleNames DEF write_text
    <2>2. QED
      BY <2>1, Rules DEF write_radiance_bundle
  <1>14. Closing(write_text("sky.rad"), codes)
    BY ClosingPieces, Rules, RoleNames DEF write_text
  <1>15. Closing(MakeDirectory(1), codes)
    BY ClosingPieces, Rules, RoleNames
  <1>16. QED
    BY <1>1, <1>2, <1>3, <1>4, <1>5, <1>6, <1>7, <1>8, <1>9, <1>10, <1>11, <1>12, <1>13, <1>14,
       <1>15

-----------------------------------------------------------------------------
(* The programs.                                                             *)

LEMMA PlainPrograms ==
  /\ Proper(run_self_test, {1, 2})
  /\ Proper(run_sun_position, {1, 2})
  /\ Proper(run_sky_view, {1, 2})
  /\ Proper(run_annual_irradiance, {1, 2})
  /\ Proper(run_scene_benchmark, {1, 2})
  /\ Proper(run_mesh_check, {1, 2})
  /\ Proper(run_mesh_repair, {1, 2})
  /\ Proper(run_isovist, {1, 2})
  /\ Proper(run_intervisibility, {1, 2})
  /\ Proper(run_visibility_graph, {1, 2})
  /\ Proper(run_target_view, {1, 2})
  /\ Proper(run_view_corridor, {1, 2})
  /\ Proper(run_observer_path, {1, 2})
  /\ Proper(run_study_rank, {1, 2})
  /\ Proper(run_optimizer_benchmark, {1, 2})
  /\ Proper(run_devices, {1, 2})
  /\ Proper(run_cache, {1, 2})
  /\ Proper(run_backend_benchmark, {1, 2})
  /\ Proper(run_daylight_point, {1, 2})
  /\ Proper(run_daylight_factor, {1, 2})
  /\ Proper(run_annual_daylight, {1, 2})
  /\ Proper(run_radiance_export, {1, 2})
  /\ Proper(run_daylight_compare, {1, 2})
  /\ Proper(run_isovist_3d, {1, 2})
  /\ Proper(run_landmark_visibility, {1, 2})
  /\ Proper(run_solar_envelope, {1, 2})
  /\ Proper(run_solar_scenarios, {1, 2})
  /\ Proper(run_mesh_convert, {1, 2})
  /\ Proper(run_scene_pack, {1, 2})
  /\ Proper(run_scene_unpack, {1, 2})
  /\ Proper(run_weather_convert, {1, 2})
  /\ Proper(run_evidence(sealed_passport), {1, 2})
  /\ Proper(run_evidence(sensitivity_design), {1, 2})
  /\ Proper(run_evidence(sensitivity_analyze), {1, 2})
  /\ Proper(run_evidence(robust), {1, 2})
  /\ Proper(run_evidence(rank), {1, 2})
  /\ Proper(run_evidence(fidelity), {1, 2})
  /\ Proper(run_evidence_table, {1, 2})
  /\ Proper(run_daylight_evidence_table, {1, 2})
  /\ Proper(run_study_schema, {1, 2})
  /\ Proper(run_study_init, {1, 2})
  /\ Proper(run_study_status, {1, 2})
  /\ Proper(run_study_batch, {1, 2})
  /\ Proper(run_study_commit, {1, 2})
  /\ Proper(Evaluator, {1, 2})
  <1>0. 101 \notin {1, 2}
    OBVIOUS
  <1>1. Proper(run_self_test, {1, 2})
    <2>1. Opening(Computation) /\ Opening(ToStdout)
      BY <1>0, OpeningParts, ClosingParts
    <2>2. QED
      BY <2>1, Rules DEF run_self_test
  <1>2. Proper(run_sun_position, {1, 2})
    <2>1. Opening(parse_sun_position_options) /\ Opening(Refusal) /\ Opening(Computation) /\
       Opening(ToStdout)
      BY <1>0, OpeningParts, ClosingParts
    <2>2. QED
      BY <2>1, Rules DEF run_sun_position
  <1>3. Proper(run_sky_view, {1, 2})
    <2>1. Opening(parse_sky_view_options) /\ Opening(load_obj) /\ Opening(Computation) /\
       Closing(write_shadow_mask_csv, {1, 2}) /\ Closing(ToStdout, {1, 2})
      BY <1>0, OpeningParts, ClosingParts
    <2>2. QED
      BY <2>1, Rules DEF run_sky_view
  <1>4. Proper(run_annual_irradiance, {1, 2})
    <2>1. Opening(parse_annual_irradiance_options) /\ Opening(load_obj) /\
       Opening(ReadLines("weather", 1)) /\ Opening(Computation) /\ Closing(write_irradiance_csv,
       {1, 2}) /\ Closing(ToStdout, {1, 2})
      BY <1>0, OpeningParts, ClosingParts
    <2>2. QED
      BY <2>1, Rules DEF run_annual_irradiance
  <1>5. Proper(run_scene_benchmark, {1, 2})
    <2>1. Opening(parse_scene_benchmark_options) /\ Opening(load_obj) /\ Opening(Computation) /\
       Opening(ToStdout) /\ Opening(Verdict)
      BY <1>0, OpeningParts, ClosingParts
    <2>2. QED
      BY <2>1, Rules DEF run_scene_benchmark
  <1>6. Proper(run_mesh_check, {1, 2})
    <2>1. Opening(parse_check_options) /\ Opening(load_obj) /\ Opening(Refusal) /\ Opening(ToStdout)
       /\ Opening(Verdict)
      BY <1>0, OpeningParts, ClosingParts
    <2>2. QED
      BY <2>1, Rules DEF run_mesh_check
  <1>7. Proper(run_mesh_repair, {1, 2})
    <2>1. Opening(parse_repair_options) /\ Opening(load_obj) /\ Opening(Refusal) /\
       Closing(WriteFile("output", 1), {1, 2}) /\ Closing(ToStdout, {1, 2})
      BY <1>0, OpeningParts, ClosingParts
    <2>2. QED
      BY <2>1, Rules DEF run_mesh_repair
  <1>8. Proper(run_isovist, {1, 2})
    <2>1. Opening(parse_isovist_options) /\ Opening(build_cli_scene) /\ Opening(Computation) /\
       Closing(write_isovist_csv, {1, 2}) /\ Closing(ToStdout, {1, 2})
      BY <1>0, OpeningParts, ClosingParts
    <2>2. QED
      BY <2>1, Rules DEF run_isovist
  <1>9. Proper(run_intervisibility, {1, 2})
    <2>1. Opening(parse_intervisibility_options) /\ Opening(build_cli_scene) /\ Opening(Computation)
       /\ Closing(write_intervisibility_csv, {1, 2}) /\ Closing(ToStdout, {1, 2})
      BY <1>0, OpeningParts, ClosingParts
    <2>2. QED
      BY <2>1, Rules DEF run_intervisibility
  <1>10. Proper(run_visibility_graph, {1, 2})
    <2>1. Opening(parse_visibility_graph_options) /\ Opening(build_cli_scene) /\
       Opening(Computation) /\ Closing(write_visibility_pairs_csv, {1, 2}) /\
       Closing(write_visibility_metrics_csv, {1, 2}) /\ Closing(ToStdout, {1, 2})
      BY <1>0, OpeningParts, ClosingParts
    <2>2. QED
      BY <2>1, Rules DEF run_visibility_graph
  <1>11. Proper(run_target_view, {1, 2})
    <2>1. Opening(parse_target_options) /\ Opening(build_cli_scene) /\ Opening(Compared) /\
       Opening(CreateSession) /\ Opening(Computation) /\ Opening(ToStdout) /\
       Opening(ComparisonPassed)
      BY <1>0, OpeningParts, ClosingParts
    <2>2. QED
      BY <2>1, Rules DEF run_target_view, WithComparison
  <1>12. Proper(run_view_corridor, {1, 2})
    <2>1. Opening(parse_corridor_options) /\ Opening(build_cli_scene) /\ Opening(Compared) /\
       Opening(CreateSession) /\ Opening(Computation) /\ Opening(ToStdout) /\
       Opening(ComparisonPassed)
      BY <1>0, OpeningParts, ClosingParts
    <2>2. QED
      BY <2>1, Rules DEF run_view_corridor, WithComparison
  <1>13. Proper(run_observer_path, {1, 2})
    <2>1. Opening(parse_path_options) /\ Opening(build_cli_scene) /\ Opening(Compared) /\
       Opening(CreateSession) /\ Opening(Computation) /\ Opening(ToStdout) /\
       Opening(ComparisonPassed)
      BY <1>0, OpeningParts, ClosingParts
    <2>2. QED
      BY <2>1, Rules DEF run_observer_path, WithComparison
  <1>14. Proper(run_study_rank, {1, 2})
    <2>1. Opening(parse_study_options) /\ Opening(Refusal) /\ Opening(Computation) /\
       Opening(ToStdout)
      BY <1>0, OpeningParts, ClosingParts
    <2>2. QED
      BY <2>1, Rules DEF run_study_rank
  <1>15. Proper(run_optimizer_benchmark, {1, 2})
    <2>1. Opening(Options({})) /\ Opening(Refusal) /\ Opening(Computation) /\ Opening(ToStdout)
      BY <1>0, OpeningParts, ClosingParts
    <2>2. QED
      BY <2>1, Rules DEF run_optimizer_benchmark
  <1>16. Proper(run_devices, {1, 2})
    <2>1. Opening(Options({})) /\ Opening(ToStdout)
      BY <1>0, OpeningParts, ClosingParts
    <2>2. QED
      BY <2>1, Rules DEF run_devices
  <1>17. Proper(run_cache, {1, 2})
    <2>1. Opening(Options({})) /\ Opening(Computation) /\ Opening(print_cache_status)
      BY <1>0, OpeningParts, ClosingParts
    <2>2. QED
      BY <2>1, Rules DEF run_cache
  <1>18. Proper(run_backend_benchmark, {1, 2})
    <2>1. Opening(parse_options) /\ Opening(load_obj) /\ Opening(Computation) /\
       Opening(build_cli_scene) /\ Opening(ToStdout) /\ Opening(Verdict)
      BY <1>0, OpeningParts, ClosingParts
    <2>2. QED
      BY <2>1, Rules DEF run_backend_benchmark
  <1>19. Proper(run_daylight_point, {1, 2})
    <2>1. Opening(parse_arguments) /\ Opening(Refusal) /\ Opening(checked_scene) /\ Opening(library)
       /\ Opening(Computation) /\ Opening(ToStdout)
      BY <1>0, OpeningParts, ClosingParts
    <2>2. QED
      BY <2>1, Rules DEF run_daylight_point
  <1>20. Proper(run_daylight_factor, {1, 2})
    <2>1. Opening(parse_arguments) /\ Opening(checked_scene) /\ Opening(library) /\
       Opening(Computation) /\ Opening(ToStdout)
      BY <1>0, OpeningParts, ClosingParts
    <2>2. QED
      BY <2>1, Rules DEF run_daylight_factor
  <1>21. Proper(run_annual_daylight, {1, 2})
    <2>1. Opening(Options({"timeline-csv"})) /\ Opening(checked_scene) /\ Opening(library) /\
       Opening(load_weather) /\ Opening(Computation) /\ Closing(write_annual_csv, {1, 2}) /\
       Closing(ToStdout, {1, 2})
      BY <1>0, OpeningParts, ClosingParts
    <2>2. QED
      BY <2>1, Rules DEF run_annual_daylight
  <1>22. Proper(run_radiance_export, {1, 2})
    <2>1. Opening(parse_arguments) /\ Opening(checked_scene) /\ Opening(library) /\
       Opening(export_radiance_bundle) /\ Closing(write_radiance_bundle, {1, 2}) /\
       Closing(ToStdout, {1, 2})
      BY <1>0, OpeningParts, ClosingParts
    <2>2. QED
      BY <2>1, Rules DEF run_radiance_export
  <1>23. Proper(run_daylight_compare, {1, 2})
    <2>1. Opening(Options({})) /\ Opening(load_numeric_values("fast")) /\
       Opening(load_numeric_values("reference")) /\ Opening(Computation) /\ Opening(ToStdout) /\
       Opening(Verdict)
      BY <1>0, OpeningParts, ClosingParts
    <2>2. QED
      BY <2>1, Rules DEF run_daylight_compare
  <1>24. Proper(run_isovist_3d, {1, 2})
    <2>1. Opening(Options({})) /\ Opening(Refusal) /\ Opening(build_cli_scene) /\
       Opening(Computation) /\ Opening(ToStdout)
      BY <1>0, OpeningParts, ClosingParts
    <2>2. QED
      BY <2>1, Rules DEF run_isovist_3d, Spatial
  <1>25. Proper(run_landmark_visibility, {1, 2})
    <2>1. Opening(Options({})) /\ Opening(Refusal) /\ Opening(build_cli_scene) /\
       Opening(Computation) /\ Opening(ToStdout)
      BY <1>0, OpeningParts, ClosingParts
    <2>2. QED
      BY <2>1, Rules DEF run_landmark_visibility, Spatial
  <1>26. Proper(run_solar_envelope, {1, 2})
    <2>1. Opening(Options({})) /\ Opening(Refusal) /\ Opening(build_cli_scene) /\
       Opening(Computation) /\ Opening(ToStdout)
      BY <1>0, OpeningParts, ClosingParts
    <2>2. QED
      BY <2>1, Rules DEF run_solar_envelope, Spatial
  <1>27. Proper(run_solar_scenarios, {1, 2})
    <2>1. Opening(Options({})) /\ Opening(Refusal) /\ Opening(build_cli_scene) /\
       Opening(Computation) /\ Opening(ToStdout)
      BY <1>0, OpeningParts, ClosingParts
    <2>2. QED
      BY <2>1, Rules DEF run_solar_scenarios, Spatial
  <1>28. Proper(run_mesh_convert, {1, 2})
    <2>1. Opening(parse_mesh_policy) /\ Opening(load_mesh) /\ Opening(Computation) /\
       Closing(WriteFile("output", 1), {1, 2}) /\ Closing(ToStdout, {1, 2})
      BY <1>0, OpeningParts, ClosingParts
    <2>2. QED
      BY <2>1, Rules DEF run_mesh_convert, write_mesh
  <1>29. Proper(run_scene_pack, {1, 2})
    <2>1. Opening(parse_mesh_policy) /\ Opening(load_mesh) /\ Opening(Computation) /\
       Closing(WriteFile("output", 1), {1, 2}) /\ Closing(ToStdout, {1, 2})
      BY <1>0, OpeningParts, ClosingParts
    <2>2. QED
      BY <2>1, Rules DEF run_scene_pack
  <1>30. Proper(run_scene_unpack, {1, 2})
    <2>1. Opening(Options({})) /\ Opening(ReadSealed("input", 1)) /\ Opening(Computation) /\
       Closing(WriteFile("output", 1), {1, 2}) /\ Closing(ToStdout, {1, 2})
      BY <1>0, OpeningParts, ClosingParts
    <2>2. QED
      BY <2>1, Rules DEF run_scene_unpack, write_mesh
  <1>31. Proper(run_weather_convert, {1, 2})
    <2>1. Opening(parse_weather_policy) /\ Opening(ReadLines("input", 1)) /\ Opening(Computation) /\
       Closing(WriteFile("output", 1), {1, 2}) /\ Closing(ToStdout, {1, 2})
      BY <1>0, OpeningParts, ClosingParts
    <2>2. QED
      BY <2>1, Rules DEF run_weather_convert
  <1>32. Proper(run_evidence(sealed_passport), {1, 2})
    <2>1. Opening(read_json("input")) /\ Opening(Refusal) /\ Closing(write_json, {1, 2}) /\
       Closing(ToStdout, {1, 2})
      BY <1>0, OpeningParts, ClosingParts
    <2>2. QED
      BY <2>1, Rules DEF run_evidence, sealed_passport
  <1>33. Proper(run_evidence(sensitivity_design), {1, 2})
    <2>1. Opening(read_json("input")) /\ Opening(Refusal) /\ Closing(write_json, {1, 2}) /\
       Closing(ToStdout, {1, 2})
      BY <1>0, OpeningParts, ClosingParts
    <2>2. QED
      BY <2>1, Rules DEF run_evidence, sensitivity_design
  <1>34. Proper(run_evidence(sensitivity_analyze), {1, 2})
    <2>1. Opening(ReadSealed("input", 2)) /\ Opening(read_json("outputs")) /\ Opening(Refusal) /\
       Closing(write_json, {1, 2}) /\ Closing(ToStdout, {1, 2})
      BY <1>0, OpeningParts, ClosingParts
    <2>2. QED
      BY <2>1, Rules DEF run_evidence, sensitivity_analyze
  <1>35. Proper(run_evidence(robust), {1, 2})
    <2>1. Opening(read_json("input")) /\ Opening(Refusal) /\ Closing(write_json, {1, 2}) /\
       Closing(ToStdout, {1, 2})
      BY <1>0, OpeningParts, ClosingParts
    <2>2. QED
      BY <2>1, Rules DEF run_evidence, robust
  <1>36. Proper(run_evidence(rank), {1, 2})
    <2>1. Opening(read_json("input")) /\ Opening(Refusal) /\ Closing(write_json, {1, 2}) /\
       Closing(ToStdout, {1, 2})
      BY <1>0, OpeningParts, ClosingParts
    <2>2. QED
      BY <2>1, Rules DEF run_evidence, rank
  <1>37. Proper(run_evidence(fidelity), {1, 2})
    <2>1. Opening(read_json("input")) /\ Opening(Refusal) /\ Closing(write_json, {1, 2}) /\
       Closing(ToStdout, {1, 2})
      BY <1>0, OpeningParts, ClosingParts
    <2>2. QED
      BY <2>1, Rules DEF run_evidence, fidelity
  <1>38. Proper(run_evidence_table, {1, 2})
    <2>1. Opening(ReadJson("input", 1)) /\ Opening(Computation) /\ Closing(MakeDirectory(1), {1, 2})
       /\ Closing(Stream("output", 1), {1, 2}) /\ Closing(ToStdout, {1, 2})
      BY <1>0, OpeningParts, ClosingParts
    <2>2. QED
      BY <2>1, Rules DEF run_evidence_table, write_evidence_table
  <1>39. Proper(run_daylight_evidence_table, {1, 2})
    <2>1. Opening(ReadJson("input", 1)) /\ Opening(Computation) /\ Closing(MakeDirectory(1), {1, 2})
       /\ Closing(Stream("output", 1), {1, 2}) /\ Closing(ToStdout, {1, 2})
      BY <1>0, OpeningParts, ClosingParts
    <2>2. QED
      BY <2>1, Rules DEF run_daylight_evidence_table, write_daylight_evidence_table,
         write_evidence_table
  <1>40. Proper(run_study_schema, {1, 2})
    <2>1. Opening(Options({"output"})) /\ Closing(WriteFile("output", 1), {1, 2}) /\
       Closing(ToStdout, {1, 2})
      BY <1>0, OpeningParts, ClosingParts
    <2>2. QED
      BY <2>1, Rules DEF run_study_schema
  <1>41. Proper(run_study_init, {1, 2})
    <2> DEFINE step == <<Step("init", "", 1)>>
    <2>1. Opening(Options({})) /\ Opening(ReadJson("manifest", 2)) /\ Opening(step) /\
       Opening(ToStdout)
      BY <1>0, OpeningParts, ClosingParts
    <2>2. run_study_init = Options({}) \o ReadJson("manifest", 2) \o step \o ToStdout
      BY DEF run_study_init
    <2> HIDE DEF step
    <2>3. QED
      BY <2>1, <2>2, Rules
  <1>42. Proper(run_study_status, {1, 2})
    <2>1. Opening(Options({})) /\ Opening(open_workspace) /\ Opening(ToStdout)
      BY <1>0, OpeningParts, ClosingParts
    <2>2. QED
      BY <2>1, Rules DEF run_study_status
  <1>43. Proper(run_study_batch, {1, 2})
    <2> DEFINE step == <<Step("begin", "", 1)>>
    <2>1. Opening(Options({"output"})) /\ Opening(open_workspace) /\ Opening(step) /\
       Closing(WriteFile("output", 1), {1, 2}) /\ Closing(ToStdout, {1, 2})
      BY <1>0, OpeningParts, ClosingParts
    <2>2. run_study_batch = Options({"output"}) \o open_workspace \o step \o WriteFile("output", 1) \o ToStdout
      BY DEF run_study_batch
    <2> HIDE DEF step
    <2>3. QED
      BY <2>1, <2>2, Rules
  <1>44. Proper(run_study_commit, {1, 2})
    <2> DEFINE step == <<Step("commit", "", 1)>>
    <2>1. Opening(Options({})) /\ Opening(ReadJson("evaluations", 2)) /\ Opening(open_workspace) /\
       Opening(step) /\ Opening(ToStdout)
      BY <1>0, OpeningParts, ClosingParts
    <2>2. run_study_commit = Options({}) \o ReadJson("evaluations", 2) \o open_workspace \o step \o ToStdout
      BY DEF run_study_commit
    <2> HIDE DEF step
    <2>3. QED
      BY <2>1, <2>2, Rules
  <1>45. Proper(Evaluator, {1, 2})
    <2>1. Opening(ReadJson("input", 1)) /\ Closing(WriteFile("output", 1), {1, 2})
      BY <1>0, OpeningParts, ClosingParts
    <2>2. QED
      BY <2>1, Rules DEF Evaluator
  <1>46. QED
    BY <1>1, <1>2, <1>3, <1>4, <1>5, <1>6, <1>7, <1>8, <1>9, <1>10, <1>11, <1>12, <1>13, <1>14,
       <1>15, <1>16, <1>17, <1>18, <1>19, <1>20, <1>21, <1>22, <1>23, <1>24, <1>25, <1>26, <1>27, <1>28,
       <1>29, <1>30, <1>31, <1>32, <1>33, <1>34, <1>35, <1>36, <1>37, <1>38, <1>39, <1>40, <1>41, <1>42,
       <1>43, <1>44, <1>45

-----------------------------------------------------------------------------
(* The four programs that may refuse after they have created a file.         *)

LEMMA OneMore ==
  ASSUME NEW S, NEW s \in Seq(S), NEW a \in S
  PROVE  /\ s \o <<a>> \in Seq(S) /\ Len(s \o <<a>>) = Len(s) + 1 /\ (s \o <<a>>)[Len(s) + 1] = a
         /\ \A i \in 1..Len(s) : (s \o <<a>>)[i] = s[i]
  OBVIOUS

LEMMA TwoMore ==
  ASSUME NEW S, NEW s \in Seq(S), NEW a \in S, NEW b \in S
  PROVE  /\ s \o <<a, b>> \in Seq(S) /\ Len(s \o <<a, b>>) = Len(s) + 2
         /\ (s \o <<a, b>>)[Len(s) + 1] = a /\ (s \o <<a, b>>)[Len(s) + 2] = b
         /\ \A i \in 1..Len(s) : (s \o <<a, b>>)[i] = s[i]
  OBVIOUS

LEMMA FourSteps ==
  ASSUME NEW S, NEW a \in S, NEW b \in S, NEW d \in S, NEW e \in S
  PROVE  LET c == <<a>> \o <<b>> \o <<d, e>>
         IN  c \in Seq(S) /\ DOMAIN c = 1..4 /\ c[1] = a /\ c[2] = b /\ c[3] = d /\ c[4] = e
  <1> DEFINE one == <<a>>
             two == one \o <<b>>
             c == two \o <<d, e>>
  <1>1. one \in Seq(S) /\ Len(one) = 1 /\ one[1] = a
    OBVIOUS
  <1> HIDE DEF one
  <1>2. two \in Seq(S) /\ Len(two) = 2 /\ two[2] = b /\ two[1] = a
    <2>0. one \in Seq(S)
      BY <1>1
    <2>1. /\ two \in Seq(S) /\ Len(two) = Len(one) + 1 /\ two[Len(one) + 1] = b
          /\ \A i \in 1..Len(one) : two[i] = one[i]
      BY <2>0, OneMore
    <2> HIDE DEF two
    <2>2. QED
      BY <1>1, <2>1
  <1> HIDE DEF two
  <1>3. c \in Seq(S) /\ Len(c) = 4 /\ c[3] = d /\ c[4] = e /\ c[1] = a /\ c[2] = b
    <2>0. two \in Seq(S)
      BY <1>2
    <2>1. /\ c \in Seq(S) /\ Len(c) = Len(two) + 2 /\ c[Len(two) + 1] = d /\ c[Len(two) + 2] = e
          /\ \A i \in 1..Len(two) : c[i] = two[i]
      BY <2>0, TwoMore
    <2> HIDE DEF c
    <2>2. QED
      BY <1>2, <2>1
  <1> HIDE DEF c
  <1>4. DOMAIN c = 1..4
    BY <1>3
  <1>5. QED
    BY <1>3, <1>4, Zenon DEF c, two, one

LEMMA FiveSteps ==
  ASSUME NEW S, NEW a \in S, NEW b \in S, NEW d \in S, NEW e \in S, NEW f \in S
  PROVE  LET c == <<a>> \o <<b>> \o <<d>> \o <<e, f>>
         IN  c \in Seq(S) /\ DOMAIN c = 1..5 /\ c[1] = a /\ c[2] = b /\ c[3] = d /\ c[4] = e /\ c[5] = f
  <1> DEFINE one == <<a>>
             two == one \o <<b>>
             three == two \o <<d>>
             c == three \o <<e, f>>
  <1>1. one \in Seq(S) /\ Len(one) = 1 /\ one[1] = a
    OBVIOUS
  <1> HIDE DEF one
  <1>2. two \in Seq(S) /\ Len(two) = 2 /\ two[2] = b /\ two[1] = a
    <2>0. one \in Seq(S)
      BY <1>1
    <2>1. /\ two \in Seq(S) /\ Len(two) = Len(one) + 1 /\ two[Len(one) + 1] = b
          /\ \A i \in 1..Len(one) : two[i] = one[i]
      BY <2>0, OneMore
    <2> HIDE DEF two
    <2>2. QED
      BY <1>1, <2>1
  <1> HIDE DEF two
  <1>3. three \in Seq(S) /\ Len(three) = 3 /\ three[3] = d /\ three[1] = a /\ three[2] = b
    <2>0. two \in Seq(S)
      BY <1>2
    <2>1. /\ three \in Seq(S) /\ Len(three) = Len(two) + 1 /\ three[Len(two) + 1] = d
          /\ \A i \in 1..Len(two) : three[i] = two[i]
      BY <2>0, OneMore
    <2> HIDE DEF three
    <2>2. QED
      BY <1>2, <2>1
  <1> HIDE DEF three
  <1>4. c \in Seq(S) /\ Len(c) = 5 /\ c[4] = e /\ c[5] = f /\ c[1] = a /\ c[2] = b /\ c[3] = d
    <2>0. three \in Seq(S)
      BY <1>3
    <2>1. /\ c \in Seq(S) /\ Len(c) = Len(three) + 2 /\ c[Len(three) + 1] = e /\ c[Len(three) + 2] = f
          /\ \A i \in 1..Len(three) : c[i] = three[i]
      BY <2>0, TwoMore
    <2> HIDE DEF c
    <2>2. QED
      BY <1>3, <2>1
  <1> HIDE DEF c
  <1>5. DOMAIN c = 1..5
    BY <1>4
  <1>6. QED
    BY <1>4, <1>5, Zenon DEF c, three, two, one

\* A step that writes the file of a role, or lets an external program read one.
InBlock(step, role) ==
  /\ step.code = 1 /\ step.of \in Roles
  /\ step.do = "read tool" \/ (step.do = "rows" /\ step.of = role)

\* What writes one file and does nothing else.
LEMMA OneBlock ==
  ASSUME NEW c, c \in Seq(CommandSteps), NEW n \in Nat, n > 1, DOMAIN c = 1..n, NEW role \in Roles,
         c[1] = Step("create", role, 1), c[n] = Step("close", role, 1),
         \A k \in DOMAIN c : k = 1 \/ k = n \/ InBlock(c[k], role)
  PROVE  Closing(c, {2})
  <1>1. 1 \in DOMAIN c /\ n \in DOMAIN c /\ 1 < n
    OBVIOUS
  <1>2. c[1].do = "create" /\ c[1].of = role /\ c[1].code = 1
    BY DEF Step
  <1>3. c[n].do = "close" /\ c[n].of = role /\ c[n].code = 1
    BY DEF Step
  <1>4. \A k \in DOMAIN c : 1 < k /\ k < n => \/ c[k].do = "read tool"
                                              \/ c[k].do = "rows" /\ c[k].of = c[1].of
    <2>1. \A k \in DOMAIN c : 1 < k /\ k < n => k # 1 /\ k # n
      OBVIOUS
    <2>2. QED
      BY <1>2, <2>1, Zenon DEF InBlock
  <1>5. Block(c, 1, n)
    BY <1>1, <1>2, <1>3, <1>4, Zenon DEF Block
  <1>6. \A k \in DOMAIN c : 1 <= k /\ k <= n
    OBVIOUS
  <1>7. Framed(c)
    BY <1>1, <1>5, <1>6, Zenon DEF Framed
  <1>8. \A k \in DOMAIN c : c[k].do \in {"create", "close", "rows", "read tool"} /\ c[k].of \in Roles /\ c[k].code = 1
    BY <1>2, <1>3 DEF InBlock
  <1>9. Tidy(c) /\ Kept(c)
    BY <1>1, <1>7, <1>8 DEF Tidy, Kept, Named, Jumps, Removes
  <1>10. Late(c, {2})
    <2>1. 1 \notin {2}
      OBVIOUS
    <2>2. QED
      BY <1>8, <2>1, Zenon DEF Late
  <1>11. QED
    BY <1>9, <1>10 DEF Closing

\* An external program writes a file.
LEMMA ToolPieces ==
  /\ \A in \in Roles, out \in Roles : Closing(run_command_to_file(in, out), {2})
  /\ Closing(dctimestep, {2})
  /\ Closing(parse_rgb_illuminance("rgb"), {2})
  <1>0. 1 \notin {2}
    OBVIOUS
  <1>1. ASSUME NEW in \in Roles, NEW out \in Roles PROVE Closing(run_command_to_file(in, out), {2})
    <2>1. /\ Step("create", out, 1) \in CommandSteps /\ Step("read tool", in, 1) \in CommandSteps
          /\ Step("rows", out, 1) \in CommandSteps /\ Step("close", out, 1) \in CommandSteps
      BY DEF CommandSteps, Step, Deeds, Writing, Reading, Names, Codes
    <2> DEFINE a == Step("create", out, 1)
               b == Step("read tool", in, 1)
               d == Step("rows", out, 1)
               e == Step("close", out, 1)
    <2> HIDE DEF a, b, d, e
    <2> DEFINE c == <<a>> \o <<b>> \o <<d, e>>
    <2>9. a \in CommandSteps /\ b \in CommandSteps /\ d \in CommandSteps /\ e \in CommandSteps
      BY <2>1 DEF a, b, d, e
    <2>10. c \in Seq(CommandSteps) /\ DOMAIN c = 1..4 /\ c[1] = a /\ c[2] = b /\ c[3] = d /\ c[4] = e
      BY <2>9, FourSteps
    <2> HIDE DEF c
    <2>8. /\ c \in Seq(CommandSteps) /\ DOMAIN c = 1..4
          /\ c[1] = Step("create", out, 1) /\ c[2] = Step("read tool", in, 1)
          /\ c[3] = Step("rows", out, 1) /\ c[4] = Step("close", out, 1)
      BY <2>10 DEF a, b, d, e
    <2>3. InBlock(Step("read tool", in, 1), out) /\ InBlock(Step("rows", out, 1), out)
      BY DEF InBlock, Step
    <2>4. 4 \in Nat /\ 4 > 1 /\ \A k \in 1..4 : k = 1 \/ k = 2 \/ k = 3 \/ k = 4
      OBVIOUS
    <2>5. \A k \in DOMAIN c : k = 1 \/ k = 4 \/ InBlock(c[k], out)
      BY <2>3, <2>4, <2>8, Zenon
    <2>6. Closing(c, {2})
      BY <2>4, <2>5, <2>8, OneBlock, Zenon
    <2>7. QED
      BY <2>6, Zenon DEF run_command_to_file, Opened, ReadTool, c, a, b, d, e
  <1>2. Closing(dctimestep, {2})
    <2>0. "rgb" \in Roles /\ "daylight.mtx" \in Roles /\ "sky.mtx" \in Roles
      BY DEF Roles
    <2>1. /\ Step("create", "rgb", 1) \in CommandSteps /\ Step("read tool", "daylight.mtx", 1) \in CommandSteps
          /\ Step("read tool", "sky.mtx", 1) \in CommandSteps /\ Step("rows", "rgb", 1) \in CommandSteps
          /\ Step("close", "rgb", 1) \in CommandSteps
      BY <2>0 DEF CommandSteps, Step, Deeds, Writing, Reading, Names, Codes
    <2> DEFINE a == Step("create", "rgb", 1)
               b == Step("read tool", "daylight.mtx", 1)
               d == Step("read tool", "sky.mtx", 1)
               e == Step("rows", "rgb", 1)
               f == Step("close", "rgb", 1)
    <2> HIDE DEF a, b, d, e, f
    <2> DEFINE c == <<a>> \o <<b>> \o <<d>> \o <<e, f>>
    <2>9. /\ a \in CommandSteps /\ b \in CommandSteps /\ d \in CommandSteps /\ e \in CommandSteps
          /\ f \in CommandSteps
      BY <2>1 DEF a, b, d, e, f
    <2>10. /\ c \in Seq(CommandSteps) /\ DOMAIN c = 1..5 /\ c[1] = a /\ c[2] = b /\ c[3] = d /\ c[4] = e
           /\ c[5] = f
      BY <2>9, FiveSteps
    <2> HIDE DEF c
    <2>8. /\ c \in Seq(CommandSteps) /\ DOMAIN c = 1..5
          /\ c[1] = Step("create", "rgb", 1) /\ c[2] = Step("read tool", "daylight.mtx", 1)
          /\ c[3] = Step("read tool", "sky.mtx", 1)
          /\ c[4] = Step("rows", "rgb", 1) /\ c[5] = Step("close", "rgb", 1)
      BY <2>10 DEF a, b, d, e, f
    <2>3. /\ InBlock(Step("read tool", "daylight.mtx", 1), "rgb") /\ InBlock(Step("rows", "rgb", 1), "rgb")
          /\ InBlock(Step("read tool", "sky.mtx", 1), "rgb")
      BY <2>0 DEF InBlock, Step
    <2>4. 5 \in Nat /\ 5 > 1 /\ \A k \in 1..5 : k = 1 \/ k = 2 \/ k = 3 \/ k = 4 \/ k = 5
      OBVIOUS
    <2>5. \A k \in DOMAIN c : k = 1 \/ k = 5 \/ InBlock(c[k], "rgb")
      BY <2>3, <2>4, <2>8, Zenon
    <2>6. Closing(c, {2})
      BY <2>0, <2>4, <2>5, <2>8, OneBlock, Zenon
    <2>7. QED
      BY <2>6, Zenon DEF dctimestep, Opened, ReadTool, c, a, b, d, e, f
  <1>3. Closing(parse_rgb_illuminance("rgb"), {2})
    <2>1. Closing(ReadJson("rgb", 1), {2})
      BY <1>0, PlainPiece, RoleNames DEF ReadJson, Codes, Deeds, Names, Writing, Reading
    <2>2. Closing(Computation, {2})
      BY <1>0, PlainPiece DEF Computation, Codes, Deeds, Names, Writing, Reading
    <2>3. QED
      BY <2>1, <2>2, Rules DEF parse_rgb_illuminance
  <1>4. QED
    BY <1>1, <1>2, <1>3

LEMMA SurfaceGrid == Proper(run_surface_grid, {2})
  <1> DEFINE step == <<Step("compute", "mesh-obj", 1)>>
  <1>1. Opening(parse_surface_grid_options) /\ Opening(load_obj) /\ Opening(Computation)
    BY OpeningParts
  <1>2. Closing(write_surface_grid_csv, {2}) /\ Closing(ToStdout, {2})
    BY ClosingParts
  <1>3. Closing(step, {2})
    <2>1. 1 \notin {2} /\ "mesh-obj" \in Names
      BY DEF Names, Roles
    <2>2. QED
      BY <2>1, PlainPiece DEF Codes, Deeds, Writing, Reading
  <1>4. Closing(WriteFile("mesh-obj", 1), {2})
    BY ClosingPieces, RoleNames
  <1>5. run_surface_grid = parse_surface_grid_options \o load_obj \o Computation \o write_surface_grid_csv
                           \o step \o WriteFile("mesh-obj", 1) \o ToStdout
    BY DEF run_surface_grid
  <1> HIDE DEF step
  <1>6. QED
    BY <1>1, <1>2, <1>3, <1>4, <1>5, Rules

LEMMA StudyReport == Proper(run_study_report, {2})
  <1>1. Opening(Options({})) /\ Opening(open_workspace) /\ Opening(Computation)
    BY OpeningParts
  <1>2. Closing(MakeDirectory(1), {2}) /\ Closing(ToStdout, {2})
    BY ClosingParts
  <1>3. Closing(Computation, {2})
    <2>1. 1 \notin {2}
      OBVIOUS
    <2>2. QED
      BY <2>1, PlainPiece DEF Computation, Codes, Deeds, Names, Writing, Reading
  <1>4. /\ Closing(Stream("variants.parquet", 1), {2}) /\ Closing(WriteFile("objective-space.gltf", 1), {2})
        /\ Closing(WriteFile("study-data.json", 1), {2}) /\ Closing(WriteFile("report.html", 1), {2})
        /\ Closing(WriteFile("viewer.html", 1), {2})
    BY ClosingPieces, RoleNames
  <1>5. Closing(write_parquet, {2}) /\ Closing(write_objective_gltf, {2})
    BY <1>3, <1>4, Rules DEF write_parquet, write_objective_gltf
  <1>6. Proper(write_report_package, {2})
    BY <1>1, <1>2, <1>4, <1>5, Rules DEF write_report_package
  <1>7. QED
    BY <1>1, <1>2, <1>6, Rules DEF run_study_report

Creates(c, role) == \E h \in DOMAIN c : c[h].do = "create" /\ c[h].of = role

LEMMA CreatesJoined ==
  ASSUME NEW s, NEW t, Tidy(s), Tidy(t), NEW role
  PROVE  Creates(s, role) \/ Creates(t, role) => Creates(s \o t, role)
  <1> DEFINE c == s \o t
  <1>0. s \in Seq(CommandSteps) /\ t \in Seq(CommandSteps)
    BY DEF Tidy
  <1>1. /\ \A i \in DOMAIN s : i \in DOMAIN c /\ c[i] = s[i]
        /\ \A i \in DOMAIN t : i + Len(s) \in DOMAIN c /\ c[i + Len(s)] = t[i]
    BY <1>0, Joined
  <1> HIDE DEF c
  <1>2. Creates(s, role) => Creates(c, role)
    BY <1>1 DEF Creates
  <1>3. Creates(t, role) => Creates(c, role)
    BY <1>1 DEF Creates
  <1>4. QED
    BY <1>2, <1>3 DEF c

\* What writes files, and no step of it is left out.
Steady(c) == Closing(c, {2}) /\ Unskipped(c)

LEMMA SteadyJoined ==
  ASSUME NEW s, NEW t, Steady(s), Steady(t)
  PROVE  /\ Steady(s \o t)
         /\ \A role : Creates(s, role) \/ Creates(t, role) => Creates(s \o t, role)
  <1>1. Tidy(s) /\ Tidy(t) /\ Closing(s, {2}) /\ Closing(t, {2}) /\ Unskipped(s) /\ Unskipped(t)
    BY DEF Steady, Closing
  <1>2. Closing(s \o t, {2})
    BY <1>1, Rules
  <1>3. Unskipped(s \o t)
    BY <1>1, AnyJoined
  <1>4. QED
    BY <1>1, <1>2, <1>3, CreatesJoined DEF Steady

LEMMA SteadyPieces ==
  /\ Steady(Computation) /\ Steady(MakeDirectory(1))
  /\ \A role \in Roles : Steady(write_text(role)) /\ Creates(write_text(role), role)
  /\ \A in \in Roles, out \in Roles :
        Steady(run_command_to_file(in, out)) /\ Creates(run_command_to_file(in, out), out)
  /\ Steady(parse_rgb_illuminance("rgb"))
  <1>0. 1 \notin {2} /\ 1 \in Codes /\ "" \in Names
    BY DEF Codes, Names
  <1>1. Steady(Computation)
    BY <1>0, PlainPiece DEF Computation, Steady, Deeds, Writing, Reading
  <1>2. Steady(MakeDirectory(1))
    BY <1>0, PlainPiece DEF MakeDirectory, Steady, Deeds, Writing, Reading
  <1>3. ASSUME NEW role \in Roles PROVE Steady(write_text(role)) /\ Creates(write_text(role), role)
    <2> DEFINE c == write_text(role)
    <2>1. Closing(c, {2})
      BY ClosingPieces DEF write_text
    <2>2. DOMAIN c = 1..2 /\ c[1] = Step("create", role, 1) /\ c[2] = Step("close", role, 1)
      BY DEF write_text, WriteFile, Opened
    <2> HIDE DEF c
    <2>3. c[1].do = "create" /\ c[1].of = role /\ c[2].do = "close" /\ 1 \in DOMAIN c
      BY <2>2 DEF Step
    <2>4. Unskipped(c)
      BY <2>2, <2>3 DEF Unskipped
    <2>5. Creates(c, role)
      BY <2>3 DEF Creates
    <2>6. QED
      BY <2>1, <2>4, <2>5 DEF c, Steady
  <1>4. ASSUME NEW in \in Roles, NEW out \in Roles
        PROVE  Steady(run_command_to_file(in, out)) /\ Creates(run_command_to_file(in, out), out)
    <2> DEFINE a == Step("create", out, 1)
               b == Step("read tool", in, 1)
               d == Step("rows", out, 1)
               e == Step("close", out, 1)
               c == <<a>> \o <<b>> \o <<d, e>>
    <2>1. run_command_to_file(in, out) = c
      BY DEF run_command_to_file, Opened, ReadTool
    <2>2. /\ a.do = "create" /\ b.do = "read tool" /\ d.do = "rows" /\ e.do = "close" /\ a.of = out
      BY DEF Step
    <2> HIDE DEF a, b, d, e
    <2>3. DOMAIN c = 1..4 /\ c[1] = a /\ c[2] = b /\ c[3] = d /\ c[4] = e
      <3>1. /\ a \in {a, b, d, e} /\ b \in {a, b, d, e} /\ d \in {a, b, d, e} /\ e \in {a, b, d, e}
        OBVIOUS
      <3>2. QED
        BY <3>1, FourSteps
    <2> HIDE DEF c
    <2>4. Unskipped(c)
      <3>1. \A i \in DOMAIN c : i = 1 \/ i = 2 \/ i = 3 \/ i = 4
        BY <2>3
      <3>2. \A i \in DOMAIN c : c[i] = a \/ c[i] = b \/ c[i] = d \/ c[i] = e
        BY <2>3, <3>1
      <3>3. \A i \in DOMAIN c : c[i].do # "reuse" /\ c[i].do # "options"
        BY <2>2, <3>2
      <3>4. QED
        BY <3>3 DEF Unskipped
    <2>5. Creates(c, out)
      <3>1. 1 \in DOMAIN c
        BY <2>3
      <3>2. QED
        BY <2>2, <2>3, <3>1 DEF Creates
    <2>6. QED
      BY <2>1, <2>4, <2>5, ToolPieces DEF Steady
  <1>5. Steady(parse_rgb_illuminance("rgb"))
    <2>1. Steady(ReadJson("rgb", 1))
      BY <1>0, PlainPiece, RoleNames DEF ReadJson, Steady, Deeds, Writing, Reading, Names
    <2>2. QED
      BY <1>1, <2>1, SteadyJoined DEF parse_rgb_illuminance
  <1>6. QED
    BY <1>1, <1>2, <1>3, <1>4, <1>5

\* Files that were created before are removed.
LEMMA Removing ==
  ASSUME NEW s, Steady(s), NEW roles \in SUBSET Names, \A role \in roles : Creates(s, role)
  PROVE  LET c == s \o <<Step("remove", roles, 1)>>
         IN  Tidy(c) /\ Late(c, {2}) /\ Unskipped(c)
  <1> DEFINE t == <<Step("remove", roles, 1)>>
             c == s \o t
  <1>1. t \in Seq(CommandSteps) /\ DOMAIN t = {1} /\ t[1].do = "remove" /\ t[1].of = roles /\ t[1].code = 1
    BY DEF CommandSteps, Step, Deeds, Codes
  <1>2. s \in Seq(CommandSteps) /\ Framed(s) /\ Named(s) /\ Jumps(s) /\ Removes(s) /\ Late(s, {2}) /\ Unskipped(s)
    BY DEF Steady, Closing, Tidy
  <1>3. Framed(t)
    BY <1>1 DEF Framed, Writing
  <1> HIDE DEF t
  <1>4. /\ c \in Seq(CommandSteps)
        /\ DOMAIN c = 1..(Len(s) + Len(t)) /\ Len(s) \in Nat /\ Len(t) \in Nat
        /\ DOMAIN s = 1..Len(s) /\ DOMAIN t = 1..Len(t)
        /\ \A i \in DOMAIN s : i \in DOMAIN c /\ c[i] = s[i]
        /\ \A i \in DOMAIN c : \/ i \in DOMAIN s
                               \/ i - Len(s) \in DOMAIN t /\ c[i] = t[i - Len(s)]
    BY <1>1, <1>2, Joined
  <1>5. Framed(c)
    BY <1>1, <1>2, <1>3, FramedJoined
  <1> HIDE DEF c
  <1>6. \A i \in DOMAIN c : \/ i \in DOMAIN s /\ c[i] = s[i]
                            \/ /\ c[i].do = "remove" /\ c[i].of = roles /\ c[i].code = 1
                               /\ \A h \in DOMAIN s : h < i
    BY <1>1, <1>4
  <1>7. Named(c)
    BY <1>2, <1>6 DEF Named, Writing, Reading
  <1>8. Jumps(c)
    <2> SUFFICES ASSUME NEW i \in DOMAIN c, c[i].do = "reuse"
                 PROVE  c[i].of \in Nat /\ i + c[i].of \in DOMAIN c /\ c[i + c[i].of].do = "close"
      BY DEF Jumps
    <2>1. i \in DOMAIN s /\ c[i] = s[i]
      BY <1>6
    <2>2. QED
      BY <1>2, <1>4, <2>1 DEF Jumps
  <1>9. Removes(c)
    <2> SUFFICES ASSUME NEW i \in DOMAIN c, c[i].do = "remove", NEW role \in c[i].of
                 PROVE  \E h \in DOMAIN c : h < i /\ c[h].do = "create" /\ c[h].of = role
      BY DEF Removes
    <2>1. CASE i \in DOMAIN s /\ c[i] = s[i]
      <3>1. PICK h \in DOMAIN s : h < i /\ s[h].do = "create" /\ s[h].of = role
        BY <1>2, <2>1 DEF Removes
      <3>2. QED
        BY <1>4, <3>1
    <2>2. CASE c[i].of = roles /\ \A h \in DOMAIN s : h < i
      <3>1. PICK h \in DOMAIN s : s[h].do = "create" /\ s[h].of = role
        BY <2>2 DEF Creates
      <3>2. QED
        BY <1>4, <2>2, <3>1
    <2>3. QED
      BY <1>6, <2>1, <2>2
  <1>10. Late(c, {2})
    BY <1>2, <1>6 DEF Late
  <1>11. Unskipped(c)
    BY <1>2, <1>6 DEF Unskipped
  <1>12. QED
    BY <1>4, <1>5, <1>7, <1>8, <1>9, <1>10, <1>11 DEF Tidy, c, t

Fills(c, roles) == Steady(c) /\ \A role \in roles : Creates(c, role)

LEMMA FillsJoined ==
  ASSUME NEW s, NEW t, NEW Q, NEW R, Fills(s, Q), Fills(t, R)
  PROVE  Fills(s \o t, Q \cup R)
  BY SteadyJoined DEF Fills

LEMMA FillingPieces ==
  /\ Fills(Computation, {}) /\ Fills(MakeDirectory(1), {}) /\ Fills(parse_rgb_illuminance("rgb"), {})
  /\ \A role \in Roles : Fills(write_text(role), {role})
  /\ \A in \in Roles, out \in Roles : Fills(run_command_to_file(in, out), {out})
  BY SteadyPieces DEF Fills

\* The run of one point removes the files that it has created, if it may.
LEMMA RadiancePoint ==
  /\ Tidy(run_radiance_point_reference) /\ Ordered(run_radiance_point_reference, {2})
  /\ Unskipped(run_radiance_point_reference)
  <1> DEFINE bundle == {"materials.rad", "geometry.rad", "sensors.pts", "manifest.json"}
             start == Computation \o temporary_directory
             files == start \o write_radiance_bundle
             before == files \o write_text("sky.rad") \o run_command_to_file("sky.rad", "scene.oct")
                       \o run_command_to_file("scene.oct", "rgb") \o parse_rgb_illuminance("rgb")
             roles == BundleFiles \cup {"sky.rad", "scene.oct", "rgb"}
  <1>1. Fills(write_radiance_bundle, bundle)
    <2> DEFINE one == MakeDirectory(1) \o write_text("materials.rad")
               two == one \o write_text("geometry.rad")
               three == two \o write_text("sensors.pts")
               four == three \o write_text("manifest.json")
    <2>1. Fills(one, {} \cup {"materials.rad"})
      BY FillingPieces, FillsJoined, RoleNames
    <2> HIDE DEF one
    <2>2. Fills(two, {} \cup {"materials.rad"} \cup {"geometry.rad"})
      BY <2>1, FillingPieces, FillsJoined, RoleNames
    <2> HIDE DEF two
    <2>3. Fills(three, {} \cup {"materials.rad"} \cup {"geometry.rad"} \cup {"sensors.pts"})
      BY <2>2, FillingPieces, FillsJoined, RoleNames
    <2> HIDE DEF three
    <2>4. Fills(four, {} \cup {"materials.rad"} \cup {"geometry.rad"} \cup {"sensors.pts"} \cup {"manifest.json"})
      BY <2>3, FillingPieces, FillsJoined, RoleNames
    <2>5. write_radiance_bundle = four
      BY Zenon DEF write_radiance_bundle, three, two, one
    <2> HIDE DEF four
    <2>6. QED
      BY <2>4, <2>5 DEF Fills
  <1>2. Fills(start, {} \cup {})
    BY FillingPieces, FillsJoined DEF temporary_directory
  <1> HIDE DEF start
  <1>3. Fills(files, {} \cup {} \cup bundle)
    <2> HIDE DEF bundle
    <2>1. QED
      BY <1>1, <1>2, FillsJoined
  <1>4. files = Computation \o temporary_directory \o write_radiance_bundle
    BY DEF start
  <1> HIDE DEF files
  <1>5. Fills(before, roles)
    <2> DEFINE one == files \o write_text("sky.rad")
               two == one \o run_command_to_file("sky.rad", "scene.oct")
               three == two \o run_command_to_file("scene.oct", "rgb")
               four == three \o parse_rgb_illuminance("rgb")
               set == {} \cup {} \cup bundle
    <2> HIDE DEF set
    <2>1. Fills(one, set \cup {"sky.rad"})
      BY <1>3, FillingPieces, FillsJoined, RoleNames DEF set
    <2> HIDE DEF one
    <2>2. Fills(two, set \cup {"sky.rad"} \cup {"scene.oct"})
      BY <2>1, FillingPieces, FillsJoined, RoleNames
    <2> HIDE DEF two
    <2>3. Fills(three, set \cup {"sky.rad"} \cup {"scene.oct"} \cup {"rgb"})
      BY <2>2, FillingPieces, FillsJoined, RoleNames
    <2> HIDE DEF three
    <2>4. Fills(four, set \cup {"sky.rad"} \cup {"scene.oct"} \cup {"rgb"} \cup {})
      BY <2>3, FillingPieces, FillsJoined, RoleNames
    <2>5. before = four
      BY Zenon DEF three, two, one
    <2>6. roles = set \cup {"sky.rad"} \cup {"scene.oct"} \cup {"rgb"} \cup {}
      BY DEF BundleFiles, set
    <2> HIDE DEF roles, before, four
    <2>7. QED
      BY <2>4, <2>5, <2>6
  <1>6. run_radiance_point = before \o <<Step("remove", roles, 1)>>
    BY <1>4, Zenon DEF run_radiance_point, remove_exact_working_directory
  <1>7. roles \in SUBSET Names
    BY RoleNames DEF BundleFiles
  <1> HIDE DEF before, roles
  <1>8. Tidy(run_radiance_point) /\ Late(run_radiance_point, {2}) /\ Unskipped(run_radiance_point)
    BY <1>5, <1>6, <1>7, Removing DEF Fills
  <1> DEFINE front == parse_arguments \o Refusal \o checked_scene \o library \o export_radiance_bundle
                      \o RadianceDiscover
             piece(c) == Opening(c) /\ Unskipped(c)
  <1>9. \A s, t : piece(s) /\ piece(t) => piece(s \o t)
    BY Rules, AnyJoined DEF Opening
  <1>10. piece(Refusal) /\ piece(Computation) /\ piece(ReadLines("input", 1)) /\ piece(Options({})) /\ piece(ToStdout)
    <2>1. Unskipped(Refusal) /\ Unskipped(Computation) /\ Unskipped(ToStdout)
      BY PlainPiece DEF Refusal, Computation, ToStdout, Codes, Names, Deeds, Writing, Reading
    <2>2. Unskipped(ReadLines("input", 1)) /\ Unskipped(Options({}))
      BY PlainPiece, RoleNames DEF ReadLines, Options, Codes, Names, Deeds, Writing, Reading
    <2>3. QED
      BY <2>1, <2>2, OpeningParts
  <1>11. /\ piece(parse_arguments) /\ piece(checked_scene) /\ piece(library) /\ piece(export_radiance_bundle)
         /\ piece(RadianceDiscover)
    <2> HIDE DEF piece
    <2>1. QED
      BY <1>9, <1>10 DEF parse_arguments, checked_scene, build_cli_scene, library, export_radiance_bundle,
         RadianceDiscover
  <1>12. piece(front)
    <2> HIDE DEF piece
    <2>1. QED
      BY <1>9, <1>10, <1>11
  <1>13. run_radiance_point_reference = front \o run_radiance_point \o ToStdout
    BY DEF run_radiance_point_reference
  <1> HIDE DEF front
  <1>14. Tidy(front) /\ Clean(front) /\ Unskipped(front) /\ Tidy(ToStdout) /\ Unskipped(ToStdout)
    BY <1>10, <1>12 DEF Opening
  <1>15. Late(ToStdout, {2})
    <2>1. 101 \notin {2}
      OBVIOUS
    <2>2. QED
      BY <2>1, ClosingPieces DEF Closing
  <1>16. Ordered(run_radiance_point, {2})
    BY <1>8 DEF Late, Ordered
  <1>17. /\ Tidy(front \o run_radiance_point) /\ Ordered(front \o run_radiance_point, {2})
         /\ Unskipped(front \o run_radiance_point)
    BY <1>8, <1>14, <1>16, TidyJoined, AnyJoined
  <1>18. QED
    BY <1>13, <1>14, <1>15, <1>17, TidyJoined, AnyJoined

\* The annual run skips the building of a matrix, and goes on where a file has
\* been closed.
LEMMA RadianceAnnual == Proper(run_radiance_annual_reference, {2})
  <1> DEFINE build == run_command_to_file("geometry.rad", "scene.oct")
                      \o run_command_to_file("scene.oct", "daylight.mtx")
             key == write_text("daylight.key")
             n == Len(BuildMatrix)
             skip == <<Step("reuse", n, 1)>>
  <1>1. Closing(build, {2}) /\ Closing(key, {2})
    <2>1. {"geometry.rad", "scene.oct", "daylight.mtx", "daylight.key"} \subseteq Roles
      BY RoleNames
    <2>2. /\ Closing(run_command_to_file("geometry.rad", "scene.oct"), {2})
          /\ Closing(run_command_to_file("scene.oct", "daylight.mtx"), {2})
      BY ONLY <2>1, ToolPieces
    <2>3. Closing(build, {2})
      BY ONLY <2>2, Rules DEF build
    <2>4. Closing(WriteFile("daylight.key", 1), {2})
      BY ONLY <2>1, ClosingPieces
    <2>5. QED
      BY ONLY <2>3, <2>4 DEF key, write_text
  <1>2. BuildMatrix = build \o key /\ ReuseOrBuild = skip \o BuildMatrix
    BY DEF BuildMatrix, ReuseOrBuild
  <1>3. key \in Seq(CommandSteps) /\ Len(key) = 2 /\ key[2].do = "close"
    <2>1. Len(key) = 2 /\ key[2] = Step("close", "daylight.key", 1)
      BY DEF write_text, WriteFile, Opened
    <2>2. QED
      BY <1>1, <2>1 DEF Closing, Tidy, Step
  <1> HIDE DEF build, key
  <1>4. Closing(BuildMatrix, {2})
    BY <1>1, <1>2, Rules
  <1>5. n \in Nat /\ n > 0 /\ n \in DOMAIN BuildMatrix /\ BuildMatrix[n].do = "close"
    <2>1. build \in Seq(CommandSteps)
      BY <1>1 DEF Closing, Tidy
    <2>2. n = Len(build) + 2 /\ Len(build) \in Nat
      <3>1. BuildMatrix \in Seq(CommandSteps) /\ DOMAIN BuildMatrix = 1..Len(BuildMatrix)
        BY <1>4 DEF Closing, Tidy
      <3>2. DOMAIN BuildMatrix = 1..(Len(build) + 2) /\ Len(build) \in Nat
        <4>1. DOMAIN (build \o key) = 1..(Len(build) + Len(key)) /\ Len(build) \in Nat
          BY <1>3, <2>1, Joined
        <4>2. QED
          BY <1>2, <1>3, <4>1
      <3>3. \A k, m \in Nat : 1..m = 1..(k + 2) => m = k + 2
        <4> SUFFICES ASSUME NEW k \in Nat, NEW m \in Nat, 1..m = 1..(k + 2) PROVE m = k + 2
          OBVIOUS
        <4>1. k + 2 \in 1..m
          OBVIOUS
        <4>2. m \in 1..(k + 2)
          BY <4>1
        <4>3. QED
          BY <4>1, <4>2
      <3>4. Len(BuildMatrix) \in Nat
        BY <3>1
      <3>5. QED
        BY <3>1, <3>2, <3>3, <3>4
    <2>3. 2 + Len(build) \in DOMAIN BuildMatrix /\ BuildMatrix[2 + Len(build)] = key[2]
      <3>1. 2 \in DOMAIN key
        BY <1>3
      <3>2. QED
        BY <1>2, <1>3, <2>1, <3>1, Joined
    <2>4. n = 2 + Len(build)
      BY <2>2
    <2> HIDE DEF n
    <2>5. QED
      BY <1>3, <2>2, <2>3, <2>4
  <1>6. /\ skip \in Seq(CommandSteps) /\ DOMAIN skip = {1} /\ Len(skip) = 1
        /\ skip[1].do = "reuse" /\ skip[1].of = n /\ skip[1].code = 1
    <2> HIDE DEF n
    <2> DEFINE a == Step("reuse", n, 1)
    <2>1. a.do = "reuse" /\ a.of = n /\ a.code = 1
      BY DEF Step
    <2>2. a \in CommandSteps
      <3>1. n \in Names \cup Nat \cup SUBSET Names
        BY <1>5, Zenon
      <3>2. "reuse" \in Deeds /\ 1 \in Codes
        BY DEF Deeds, Codes
      <3>3. QED
        BY <3>1, <3>2, Zenon DEF CommandSteps, Step
    <2> HIDE DEF a
    <2>3. <<a>> \in Seq(CommandSteps) /\ DOMAIN <<a>> = {1} /\ Len(<<a>>) = 1 /\ <<a>>[1] = a
      BY <2>2
    <2>4. QED
      BY <2>1, <2>3, Zenon DEF a
  <1> HIDE DEF skip, n
  <1>7. Framed(skip) /\ Named(skip) /\ Removes(skip) /\ Kept(skip) /\ Late(skip, {2})
    <2>1. \A i \in DOMAIN skip : skip[i].do = "reuse" /\ skip[i].code = 1
      BY <1>6
    <2>2. QED
      <3>1. \A i \in DOMAIN skip : skip[i].do \notin Writing \cup Reading \cup {"options", "remove"}
        BY <2>1 DEF Writing, Reading
      <3>2. Framed(skip) /\ Named(skip) /\ Removes(skip) /\ Kept(skip)
        BY <3>1 DEF Framed, Named, Removes, Kept
      <3>3. Late(skip, {2})
        BY <2>1 DEF Late
      <3>4. QED
        BY <3>2, <3>3
  <1>8. Closing(ReuseOrBuild, {2})
    <2> DEFINE c == skip \o BuildMatrix
    <2>1. /\ BuildMatrix \in Seq(CommandSteps) /\ Framed(BuildMatrix) /\ Named(BuildMatrix) /\ Jumps(BuildMatrix)
          /\ Removes(BuildMatrix) /\ Kept(BuildMatrix) /\ Late(BuildMatrix, {2})
      BY <1>4 DEF Closing, Tidy
    <2>2. Framed(c)
      BY <1>6, <1>7, <2>1, FramedJoined
    <2>3. /\ c \in Seq(CommandSteps)
          /\ \A i \in DOMAIN skip : i \in DOMAIN c /\ c[i] = skip[i]
          /\ \A i \in DOMAIN BuildMatrix : i + 1 \in DOMAIN c /\ c[i + 1] = BuildMatrix[i]
          /\ \A i \in DOMAIN c : i \in DOMAIN skip \/ (i - 1 \in DOMAIN BuildMatrix /\ c[i] = BuildMatrix[i - 1])
          /\ \A i \in DOMAIN c : i \in Int
      <3>1. skip \in Seq(CommandSteps)
        BY <1>6
      <3>2. /\ c \in Seq(CommandSteps)
            /\ DOMAIN c = 1..(Len(skip) + Len(BuildMatrix))
            /\ \A i \in DOMAIN skip : i \in DOMAIN c /\ c[i] = skip[i]
            /\ \A i \in DOMAIN BuildMatrix : i + Len(skip) \in DOMAIN c /\ c[i + Len(skip)] = BuildMatrix[i]
            /\ \A i \in DOMAIN c : \/ i \in DOMAIN skip
                                   \/ i - Len(skip) \in DOMAIN BuildMatrix /\ c[i] = BuildMatrix[i - Len(skip)]
        BY <2>1, <3>1, Joined
      <3> HIDE DEF c
      <3>3. \A i \in DOMAIN c : i \in Int
        BY <3>2
      <3>4. Len(skip) = 1
        BY <1>6
      <3>5. \A i \in DOMAIN BuildMatrix : i + 1 \in DOMAIN c /\ c[i + 1] = BuildMatrix[i]
        <4>1. \A i \in DOMAIN BuildMatrix : i + Len(skip) = i + 1
          BY <3>4
        <4>2. QED
          BY <3>2, <4>1, Zenon
      <3>6. \A i \in DOMAIN c : i \in DOMAIN skip \/ (i - 1 \in DOMAIN BuildMatrix /\ c[i] = BuildMatrix[i - 1])
        <4> SUFFICES ASSUME NEW i \in DOMAIN c, i \notin DOMAIN skip
                     PROVE  i - 1 \in DOMAIN BuildMatrix /\ c[i] = BuildMatrix[i - 1]
          OBVIOUS
        <4>1. i - Len(skip) = i - 1
          BY <3>4
        <4>2. i - Len(skip) \in DOMAIN BuildMatrix /\ c[i] = BuildMatrix[i - Len(skip)]
          BY <3>2
        <4>3. QED
          BY <4>1, <4>2
      <3>7. QED
        BY <3>2, <3>3, <3>5, <3>6
    <2> HIDE DEF c
    <2>4. Named(c)
      BY <1>6, <1>7, <2>1, <2>3 DEF Named
    <2>5. Jumps(c)
      <3> SUFFICES ASSUME NEW i \in DOMAIN c, c[i].do = "reuse"
                   PROVE  c[i].of \in Nat /\ i + c[i].of \in DOMAIN c /\ c[i + c[i].of].do = "close"
        BY DEF Jumps
      <3>1. CASE i \in DOMAIN skip
        <4>1. i = 1 /\ c[i].of = n
          BY <1>6, <2>3, <3>1
        <4>2. n + 1 \in DOMAIN c /\ c[n + 1] = BuildMatrix[n]
          BY <1>5, <2>3
        <4>3. QED
          BY <1>5, <4>1, <4>2
      <3>2. CASE i - 1 \in DOMAIN BuildMatrix /\ c[i] = BuildMatrix[i - 1]
        <4>1. /\ BuildMatrix[i - 1].of \in Nat /\ (i - 1) + BuildMatrix[i - 1].of \in DOMAIN BuildMatrix
              /\ BuildMatrix[(i - 1) + BuildMatrix[i - 1].of].do = "close"
          BY <2>1, <3>2 DEF Jumps
        <4>2. ((i - 1) + BuildMatrix[i - 1].of) + 1 = i + c[i].of
          BY <2>3, <3>2, <4>1
        <4>3. QED
          BY <2>3, <3>2, <4>1, <4>2
      <3>3. QED
        BY <2>3, <3>1, <3>2
    <2>6. Removes(c)
      <3>1. \A i \in DOMAIN c : c[i].do # "remove"
        <4> SUFFICES ASSUME NEW i \in DOMAIN c PROVE c[i].do # "remove"
          OBVIOUS
        <4>1. CASE i \in DOMAIN skip
          BY ONLY <1>6, <2>3, <4>1
        <4>2. CASE i - 1 \in DOMAIN BuildMatrix /\ c[i] = BuildMatrix[i - 1]
          BY ONLY <2>1, <4>2 DEF Kept
        <4>3. QED
          BY <2>3, <4>1, <4>2
      <3>2. QED
        BY <3>1 DEF Removes
    <2>7. Kept(c) /\ Late(c, {2})
      BY <1>7, <2>1, <2>3 DEF Kept, Late
    <2>8. 1 \in DOMAIN c
      BY <1>6, <2>3
    <2>9. QED
      BY <1>2, <2>2, <2>3, <2>4, <2>5, <2>6, <2>7, <2>8 DEF Closing, Tidy, c
  <1>9. /\ Opening(parse_arguments) /\ Opening(checked_scene) /\ Opening(load_weather) /\ Opening(library)
        /\ Opening(export_radiance_bundle) /\ Opening(RadianceDiscover) /\ Opening(Computation)
    BY OpeningParts
  <1>10. Closing(Computation, {2}) /\ Closing(MakeDirectory(1), {2}) /\ Closing(ToStdout, {2})
    <2>1. 1 \notin {2} /\ 101 \notin {2}
      OBVIOUS
    <2>2. Closing(Computation, {2})
      BY SteadyPieces DEF Steady
    <2>3. QED
      BY <2>1, <2>2, ClosingPieces
  <1>11. Closing(write_radiance_bundle, {2}) /\ Closing(write_text("receiver.rad"), {2}) /\ Closing(write_wea, {2})
    <2>1. Closing(write_radiance_bundle, {2})
      BY ClosingParts
    <2>2. "receiver.rad" \in Roles /\ "weather.wea" \in Roles
      BY RoleNames
    <2>3. QED
      BY <2>1, <2>2, ClosingPieces DEF write_text, write_wea
  <1>12. /\ Closing(run_command_to_file("weather.wea", "sky.mtx"), {2}) /\ Closing(dctimestep, {2})
         /\ Closing(parse_rgb_illuminance("rgb"), {2})
    BY ToolPieces, RoleNames
  <1>13. Closing(run_radiance_annual_matrix, {2})
    BY <1>8, <1>10, <1>11, <1>12, Rules DEF run_radiance_annual_matrix, temporary_directory
  <1>14. QED
    BY <1>9, <1>10, <1>13, Rules DEF run_radiance_annual_reference

-----------------------------------------------------------------------------
(* Every program, by the name of its command.                                *)

LEMMA Dispatch ==
  /\ main("self-test") = run_self_test
  /\ main("devices") = run_devices
  /\ main("cache") = run_cache
  /\ main("backend-benchmark") = run_backend_benchmark
  /\ main("sun-position") = run_sun_position
  /\ main("sky-view") = run_sky_view
  /\ main("isovist") = run_isovist
  /\ main("isovist-3d") = run_isovist_3d
  /\ main("landmark-visibility") = run_landmark_visibility
  /\ main("solar-envelope") = run_solar_envelope
  /\ main("solar-scenarios") = run_solar_scenarios
  /\ main("intervisibility") = run_intervisibility
  /\ main("visibility-graph") = run_visibility_graph
  /\ main("target-view") = run_target_view
  /\ main("view-corridor") = run_view_corridor
  /\ main("observer-path") = run_observer_path
  /\ main("study-rank") = run_study_rank
  /\ main("evidence passport") = run_evidence(sealed_passport)
  /\ main("evidence sensitivity-design") = run_evidence(sensitivity_design)
  /\ main("evidence sensitivity-analyze") = run_evidence(sensitivity_analyze)
  /\ main("evidence robust") = run_evidence(robust)
  /\ main("evidence rank") = run_evidence(rank)
  /\ main("evidence fidelity") = run_evidence(fidelity)
  /\ main("evidence-table") = run_evidence_table
  /\ main("daylight-evidence-table") = run_daylight_evidence_table
  /\ main("study-schema") = run_study_schema
  /\ main("study-init") = run_study_init
  /\ main("study-status") = run_study_status
  /\ main("study-batch") = run_study_batch
  /\ main("study-commit") = run_study_commit
  /\ main("study-report") = run_study_report
  /\ main("optimizer-benchmark") = run_optimizer_benchmark
  /\ main("annual-irradiance") = run_annual_irradiance
  /\ main("daylight-point") = run_daylight_point
  /\ main("daylight-factor") = run_daylight_factor
  /\ main("annual-daylight") = run_annual_daylight
  /\ main("radiance-export") = run_radiance_export
  /\ main("radiance-point") = run_radiance_point_reference
  /\ main("radiance-annual") = run_radiance_annual_reference
  /\ main("daylight-compare") = run_daylight_compare
  /\ main("mesh-check") = run_mesh_check
  /\ main("surface-grid") = run_surface_grid
  /\ main("mesh-repair") = run_mesh_repair
  /\ main("mesh-convert") = run_mesh_convert
  /\ main("scene-pack") = run_scene_pack
  /\ main("scene-unpack") = run_scene_unpack
  /\ main("weather-convert") = run_weather_convert
  /\ main("scene-bench") = run_scene_benchmark
  /\ main("evaluate") = Evaluator
  <1>1. main("self-test") = run_self_test
    BY DEF main
  <1>2. main("devices") = run_devices
    BY DEF main
  <1>3. main("cache") = run_cache
    BY DEF main
  <1>4. main("backend-benchmark") = run_backend_benchmark
    BY DEF main
  <1>5. main("sun-position") = run_sun_position
    BY DEF main
  <1>6. main("sky-view") = run_sky_view
    BY DEF main
  <1>7. main("isovist") = run_isovist
    BY DEF main
  <1>8. main("isovist-3d") = run_isovist_3d
    BY DEF main
  <1>9. main("landmark-visibility") = run_landmark_visibility
    BY DEF main
  <1>10. main("solar-envelope") = run_solar_envelope
    BY DEF main
  <1>11. main("solar-scenarios") = run_solar_scenarios
    BY DEF main
  <1>12. main("intervisibility") = run_intervisibility
    BY DEF main
  <1>13. main("visibility-graph") = run_visibility_graph
    BY DEF main
  <1>14. main("target-view") = run_target_view
    BY DEF main
  <1>15. main("view-corridor") = run_view_corridor
    BY DEF main
  <1>16. main("observer-path") = run_observer_path
    BY DEF main
  <1>17. main("study-rank") = run_study_rank
    BY DEF main
  <1>18. main("evidence passport") = run_evidence(sealed_passport)
    BY DEF main
  <1>19. main("evidence sensitivity-design") = run_evidence(sensitivity_design)
    BY DEF main
  <1>20. main("evidence sensitivity-analyze") = run_evidence(sensitivity_analyze)
    BY DEF main
  <1>21. main("evidence robust") = run_evidence(robust)
    BY DEF main
  <1>22. main("evidence rank") = run_evidence(rank)
    BY DEF main
  <1>23. main("evidence fidelity") = run_evidence(fidelity)
    BY DEF main
  <1>24. main("evidence-table") = run_evidence_table
    BY DEF main
  <1>25. main("daylight-evidence-table") = run_daylight_evidence_table
    BY DEF main
  <1>26. main("study-schema") = run_study_schema
    BY DEF main
  <1>27. main("study-init") = run_study_init
    BY DEF main
  <1>28. main("study-status") = run_study_status
    BY DEF main
  <1>29. main("study-batch") = run_study_batch
    BY DEF main
  <1>30. main("study-commit") = run_study_commit
    BY DEF main
  <1>31. main("study-report") = run_study_report
    BY DEF main
  <1>32. main("optimizer-benchmark") = run_optimizer_benchmark
    BY DEF main
  <1>33. main("annual-irradiance") = run_annual_irradiance
    BY DEF main
  <1>34. main("daylight-point") = run_daylight_point
    BY DEF main
  <1>35. main("daylight-factor") = run_daylight_factor
    BY DEF main
  <1>36. main("annual-daylight") = run_annual_daylight
    BY DEF main
  <1>37. main("radiance-export") = run_radiance_export
    BY DEF main
  <1>38. main("radiance-point") = run_radiance_point_reference
    BY DEF main
  <1>39. main("radiance-annual") = run_radiance_annual_reference
    BY DEF main
  <1>40. main("daylight-compare") = run_daylight_compare
    BY DEF main
  <1>41. main("mesh-check") = run_mesh_check
    BY DEF main
  <1>42. main("surface-grid") = run_surface_grid
    BY DEF main
  <1>43. main("mesh-repair") = run_mesh_repair
    BY DEF main
  <1>44. main("mesh-convert") = run_mesh_convert
    BY DEF main
  <1>45. main("scene-pack") = run_scene_pack
    BY DEF main
  <1>46. main("scene-unpack") = run_scene_unpack
    BY DEF main
  <1>47. main("weather-convert") = run_weather_convert
    BY DEF main
  <1>48. main("scene-bench") = run_scene_benchmark
    BY DEF main
  <1>49. main("evaluate") = Evaluator
    BY DEF main
  <1>50. QED
    BY <1>1, <1>2, <1>3, <1>4, <1>5, <1>6, <1>7, <1>8, <1>9, <1>10, <1>11, <1>12, <1>13, <1>14,
       <1>15, <1>16, <1>17, <1>18, <1>19, <1>20, <1>21, <1>22, <1>23, <1>24, <1>25, <1>26, <1>27, <1>28,
       <1>29, <1>30, <1>31, <1>32, <1>33, <1>34, <1>35, <1>36, <1>37, <1>38, <1>39, <1>40, <1>41, <1>42,
       <1>43, <1>44, <1>45, <1>46, <1>47, <1>48, <1>49

\* The grid and the report compute something after they have written their first
\* file, the Radiance runs work on files.
LateComputations == {"surface-grid", "study-report", "radiance-point", "radiance-annual"}

Standard(command) == Proper(main(command), {1, 2})

LEMMA StandardPrograms == \A command \in Commands \ LateComputations : Standard(command)
  <1>1. ASSUME NEW command \in Commands \ LateComputations
        PROVE  \/ command \in {"self-test", "devices", "cache", "backend-benchmark", "sun-position", "sky-view",
                              "isovist", "isovist-3d", "landmark-visibility", "solar-envelope", "solar-scenarios",
                              "intervisibility", "visibility-graph", "target-view", "view-corridor",
                              "observer-path", "study-rank", "evidence passport", "evidence sensitivity-design",
                              "evidence sensitivity-analyze", "evidence robust", "evidence rank"}
               \/ command \in {"evidence fidelity", "evidence-table", "daylight-evidence-table", "study-schema",
                              "study-init", "study-status", "study-batch", "study-commit", "optimizer-benchmark",
                              "annual-irradiance", "daylight-point", "daylight-factor", "annual-daylight",
                              "radiance-export", "daylight-compare", "mesh-check", "mesh-repair", "mesh-convert",
                              "scene-pack", "scene-unpack", "weather-convert", "scene-bench", "evaluate"}
    BY DEF Commands, LateComputations
  <1>2. Standard("self-test")
    BY Dispatch, PlainPrograms DEF Standard
  <1>3. Standard("devices")
    BY Dispatch, PlainPrograms DEF Standard
  <1>4. Standard("cache")
    BY Dispatch, PlainPrograms DEF Standard
  <1>5. Standard("backend-benchmark")
    BY Dispatch, PlainPrograms DEF Standard
  <1>6. Standard("sun-position")
    BY Dispatch, PlainPrograms DEF Standard
  <1>7. Standard("sky-view")
    BY Dispatch, PlainPrograms DEF Standard
  <1>8. Standard("isovist")
    BY Dispatch, PlainPrograms DEF Standard
  <1>9. Standard("isovist-3d")
    BY Dispatch, PlainPrograms DEF Standard
  <1>10. Standard("landmark-visibility")
    BY Dispatch, PlainPrograms DEF Standard
  <1>11. Standard("solar-envelope")
    BY Dispatch, PlainPrograms DEF Standard
  <1>12. Standard("solar-scenarios")
    BY Dispatch, PlainPrograms DEF Standard
  <1>13. Standard("intervisibility")
    BY Dispatch, PlainPrograms DEF Standard
  <1>14. Standard("visibility-graph")
    BY Dispatch, PlainPrograms DEF Standard
  <1>15. Standard("target-view")
    BY Dispatch, PlainPrograms DEF Standard
  <1>16. Standard("view-corridor")
    BY Dispatch, PlainPrograms DEF Standard
  <1>17. Standard("observer-path")
    BY Dispatch, PlainPrograms DEF Standard
  <1>18. Standard("study-rank")
    BY Dispatch, PlainPrograms DEF Standard
  <1>19. Standard("evidence passport")
    BY Dispatch, PlainPrograms DEF Standard
  <1>20. Standard("evidence sensitivity-design")
    BY Dispatch, PlainPrograms DEF Standard
  <1>21. Standard("evidence sensitivity-analyze")
    BY Dispatch, PlainPrograms DEF Standard
  <1>22. Standard("evidence robust")
    BY Dispatch, PlainPrograms DEF Standard
  <1>23. Standard("evidence rank")
    BY Dispatch, PlainPrograms DEF Standard
  <1>24. Standard("evidence fidelity")
    BY Dispatch, PlainPrograms DEF Standard
  <1>25. Standard("evidence-table")
    BY Dispatch, PlainPrograms DEF Standard
  <1>26. Standard("daylight-evidence-table")
    BY Dispatch, PlainPrograms DEF Standard
  <1>27. Standard("study-schema")
    BY Dispatch, PlainPrograms DEF Standard
  <1>28. Standard("study-init")
    BY Dispatch, PlainPrograms DEF Standard
  <1>29. Standard("study-status")
    BY Dispatch, PlainPrograms DEF Standard
  <1>30. Standard("study-batch")
    BY Dispatch, PlainPrograms DEF Standard
  <1>31. Standard("study-commit")
    BY Dispatch, PlainPrograms DEF Standard
  <1>32. Standard("optimizer-benchmark")
    BY Dispatch, PlainPrograms DEF Standard
  <1>33. Standard("annual-irradiance")
    BY Dispatch, PlainPrograms DEF Standard
  <1>34. Standard("daylight-point")
    BY Dispatch, PlainPrograms DEF Standard
  <1>35. Standard("daylight-factor")
    BY Dispatch, PlainPrograms DEF Standard
  <1>36. Standard("annual-daylight")
    BY Dispatch, PlainPrograms DEF Standard
  <1>37. Standard("radiance-export")
    BY Dispatch, PlainPrograms DEF Standard
  <1>38. Standard("daylight-compare")
    BY Dispatch, PlainPrograms DEF Standard
  <1>39. Standard("mesh-check")
    BY Dispatch, PlainPrograms DEF Standard
  <1>40. Standard("mesh-repair")
    BY Dispatch, PlainPrograms DEF Standard
  <1>41. Standard("mesh-convert")
    BY Dispatch, PlainPrograms DEF Standard
  <1>42. Standard("scene-pack")
    BY Dispatch, PlainPrograms DEF Standard
  <1>43. Standard("scene-unpack")
    BY Dispatch, PlainPrograms DEF Standard
  <1>44. Standard("weather-convert")
    BY Dispatch, PlainPrograms DEF Standard
  <1>45. Standard("scene-bench")
    BY Dispatch, PlainPrograms DEF Standard
  <1>46. Standard("evaluate")
    BY Dispatch, PlainPrograms DEF Standard
  <1>47. QED
    BY <1>1,
       <1>2, <1>3, <1>4, <1>5, <1>6, <1>7, <1>8, <1>9, <1>10, <1>11, <1>12, <1>13, <1>14, <1>15,
       <1>16, <1>17, <1>18, <1>19, <1>20, <1>21, <1>22, <1>23, <1>24, <1>25, <1>26, <1>27, <1>28, <1>29,
       <1>30, <1>31, <1>32, <1>33, <1>34, <1>35, <1>36, <1>37, <1>38, <1>39, <1>40, <1>41, <1>42, <1>43,
       <1>44, <1>45, <1>46

LEMMA Programs ==
  ASSUME NEW command \in Commands
  PROVE  /\ Tidy(main(command)) /\ (Kept(main(command)) \/ Unskipped(main(command)))
         /\ Ordered(main(command), {2})
         /\ command \in LateComputations \/ Ordered(main(command), {1})
  <1>1. CASE command \notin LateComputations
    <2>1. Proper(main(command), {1, 2})
      BY <1>1, StandardPrograms DEF Standard
    <2>2. Tidy(main(command)) /\ Kept(main(command)) /\ Ordered(main(command), {1, 2})
      BY <2>1 DEF Proper
    <2>3. Ordered(main(command), {1}) /\ Ordered(main(command), {2})
      BY <2>2 DEF Ordered
    <2>4. QED
      BY <2>2, <2>3
  <1>2. CASE command \in LateComputations
    <2>1. \/ main(command) \in {run_surface_grid, run_study_report, run_radiance_annual_reference}
          \/ main(command) = run_radiance_point_reference
      BY <1>2, Dispatch DEF LateComputations
    <2>2. CASE main(command) = run_radiance_point_reference
      BY <1>2, <2>2, RadiancePoint
    <2>3. CASE main(command) \in {run_surface_grid, run_study_report, run_radiance_annual_reference}
      <3>1. Proper(main(command), {2})
        BY <2>3, SurfaceGrid, StudyReport, RadianceAnnual
      <3>2. QED
        BY <1>2, <3>1 DEF Proper
    <2>4. QED
      BY <2>1, <2>2, <2>3
  <1>3. QED
    BY <1>1, <1>2

-----------------------------------------------------------------------------
(* What holds between steps.                                                 *)

States == {"none", "whole", "half", "mixed"}
FileStates == [state : States, by : Shells \cup {"user"}, batch : Int]
\* The step at which a process failed, if it did.
Failures == Deeds \cup {""}
ShellStates ==
  [session : Seq(Uses), at : Nat \ {0}, step : Nat, missing : SUBSET Names, code : Int, failed : Failures,
   last : Nat, faults : Nat, touched : SUBSET Files, wrote : SUBSET Files,
   seen : SUBSET [how : Reading, state : States], batch : Int]
CommandTypeOK ==
  /\ file \in [Files -> FileStates]
  /\ shell \in [Shells -> ShellStates]
  /\ workspace \in [exists : BOOLEAN, issued : Nat, committed : SUBSET Int]

Target(p, h) == Use(p).bind[Program(p)[h].of]
\* The process has created the file of a step and has not come past its end.
Within(p, h, j) ==
  /\ Block(Program(p), h, j) /\ h < shell[p].step /\ shell[p].step <= j
  /\ Program(p)[h].of \notin shell[p].missing

Standing(p) ==
  /\ Busy(p) => /\ shell[p].at <= Len(shell[p].session) /\ shell[p].step \in DOMAIN Program(p)
                /\ Program(p)[shell[p].step].of \notin shell[p].missing /\ shell[p].code = -1
  /\ ~Busy(p) => shell[p].missing = {}
\* What the process has touched is whole, or half-way in the file it is writing,
\* or another process has been at it.
TouchedIsSound(p) ==
  Busy(p) \/ shell[p].code = 0 =>
    \A f \in shell[p].touched :
       \/ f \in Others(p)
       \/ file[f].by = p /\ file[f].state = "whole"
       \/ /\ Busy(p) /\ file[f].by = p /\ file[f].state = "half"
          /\ \E h, j \in DOMAIN Program(p) : Within(p, h, j) /\ Target(p, h) = f
OpenIsHalf(p) ==
  Busy(p) => \A h, j \in DOMAIN Program(p) : Within(p, h, j) =>
     /\ Target(p, h) \in shell[p].touched
     /\ Target(p, h) \in Others(p) \/ (file[Target(p, h)].by = p /\ file[Target(p, h)].state = "half")
\* Where no step is left out, what comes before has been created.
CreatedIsWritten(p) ==
  Busy(p) /\ Unskipped(Program(p)) =>
    /\ shell[p].missing = {}
    /\ \A h \in DOMAIN Program(p) : h < shell[p].step /\ Program(p)[h].do = "create" => Target(p, h) \in shell[p].wrote
TouchedIsLate(p) ==
  Busy(p) /\ shell[p].touched # {} =>
    \E h \in DOMAIN Program(p) : h < shell[p].step /\ Program(p)[h].do = "create"
SealedIsWhole(p) == \A r \in shell[p].seen : r.how = "read sealed" => r.state = "whole"
RefusalsAreEarly(p) ==
  /\ shell[p].code = 2 /\ shell[p].touched # {} => shell[p].failed \in Exports
  /\ shell[p].code = 1 /\ shell[p].touched # {} => shell[p].failed \in Exports \/ Command(p) \in LateComputations

ShellInvariant(p) ==
  /\ Standing(p) /\ shell[p].touched \subseteq shell[p].wrote
  /\ TouchedIsSound(p) /\ OpenIsHalf(p) /\ CreatedIsWritten(p) /\ TouchedIsLate(p)
  /\ SealedIsWhole(p) /\ RefusalsAreEarly(p)
CommandInvariant == CommandTypeOK /\ \A p \in Shells : ShellInvariant(p)

\* What a command under way, or about to begin, is known to be.
LEMMA CommandFacts ==
  ASSUME CommandTypeOK, NEW p \in Shells, shell[p].at <= Len(shell[p].session)
  PROVE  /\ Use(p) \in Uses /\ Use(p).command \in Commands /\ Use(p).bind \in [Roles -> Files]
         /\ Tidy(Program(p)) /\ (Kept(Program(p)) \/ Unskipped(Program(p)))
         /\ Ordered(Program(p), {2})
         /\ Use(p).command \in LateComputations \/ Ordered(Program(p), {1})
         /\ \A i \in DOMAIN Program(p) :
              /\ i \in Nat \ {0} /\ Program(p)[i] \in CommandSteps
              /\ Program(p)[i].do \in Writing \cup Reading => Program(p)[i].of \in Roles /\ Target(p, i) \in Files
  <1>1. shell[p] \in ShellStates
    BY DEF CommandTypeOK
  <1>2. shell[p].session \in Seq(Uses) /\ shell[p].at \in Nat \ {0}
    BY <1>1 DEF ShellStates
  <1>3. Use(p) \in Uses
    BY <1>2 DEF Use
  <1>4. Use(p).command \in Commands /\ Use(p).bind \in [Roles -> Files]
    BY <1>3 DEF Uses
  <1>5. /\ Tidy(Program(p)) /\ (Kept(Program(p)) \/ Unskipped(Program(p))) /\ Ordered(Program(p), {2})
        /\ Use(p).command \in LateComputations \/ Ordered(Program(p), {1})
    BY <1>4, Programs DEF Program
  <1>6. Program(p) \in Seq(CommandSteps) /\ Named(Program(p))
    BY <1>5 DEF Tidy
  <1>7. ASSUME NEW i \in DOMAIN Program(p)
        PROVE  /\ i \in Nat \ {0} /\ Program(p)[i] \in CommandSteps
               /\ Program(p)[i].do \in Writing \cup Reading => Program(p)[i].of \in Roles /\ Target(p, i) \in Files
    <2>1. i \in Nat \ {0} /\ Program(p)[i] \in CommandSteps
      BY <1>6
    <2>2. Program(p)[i].do \in Writing \cup Reading => Program(p)[i].of \in Roles
      BY <1>6 DEF Named
    <2>3. Program(p)[i].of \in Roles => Target(p, i) \in Files
      BY <1>4 DEF Target
    <2>4. QED
      BY <2>1, <2>2, <2>3
  <1>8. QED
    BY <1>3, <1>4, <1>5, <1>7

LEMMA SmallestStep ==
  ASSUME NEW S, S \subseteq Nat, S # {}
  PROVE  \E i \in S : \A k \in S : i <= k
  <1> DEFINE R == OpToRel(<, Nat)
  <1>1. PICK x \in S : \A y \in S : ~(<<y, x>> \in R)
    BY NatLessThanWellFounded, WFMin
  <1>2. \A a \in Nat : \A b \in Nat : a < b => <<a, b>> \in R
    BY DEF OpToRel
  <1> HIDE DEF R
  <1>3. \A y \in S : ~(y < x)
    BY <1>1, <1>2
  <1>4. QED
    BY <1>3

LEMMA EndedType ==
  ASSUME CommandTypeOK, NEW process \in ShellStates, NEW code \in Int, NEW failed \in Failures
  PROVE  /\ Ended(process, code, failed) \in ShellStates
         /\ Ended(process, code, failed).step = 0 /\ Ended(process, code, failed).missing = {}
         /\ Ended(process, code, failed).code = code /\ Ended(process, code, failed).failed = failed
         /\ Ended(process, code, failed).last = process.at
         /\ Ended(process, code, failed).session = process.session
         /\ Ended(process, code, failed).touched = process.touched
         /\ Ended(process, code, failed).wrote = process.wrote
         /\ Ended(process, code, failed).seen = process.seen
  <1>1. After(process, code) \in Nat \ {0}
    <2>1. process.session \in Seq(Uses) /\ process.at \in Nat \ {0}
      BY DEF ShellStates
    <2>2. Len(process.session) + 1 \in Nat \ {0} /\ process.at + 1 \in Nat \ {0}
      <3>1. Len(process.session) \in Nat
        BY <2>1
      <3>2. \A n \in Nat : n + 1 \in Nat \ {0}
        OBVIOUS
      <3>3. process.at \in Nat
        BY <2>1
      <3>4. QED
        BY <3>1, <3>2, <3>3
    <2>3. QED
      BY <2>1, <2>2, Zenon DEF After
  <1> DEFINE faults == IF code = 0 THEN process.faults ELSE process.faults + 1
             new == [process EXCEPT !.step = 0, !.missing = {}, !.code = code, !.failed = failed,
                                    !.last = process.at, !.at = After(process, code), !.faults = faults]
  <1>2. faults \in Nat /\ process.at \in Nat
    <2>1. process.faults \in Nat /\ process.at \in Nat
      BY DEF ShellStates
    <2>2. process.faults + 1 \in Nat
      BY <2>1
    <2>3. QED
      BY <2>1, <2>2
  <1>3. Ended(process, code, failed) = new
    BY DEF Ended, ShellStates
  <1> HIDE DEF faults
  <1>4. new \in ShellStates
    BY <1>1, <1>2 DEF ShellStates
  <1>5. /\ new.step = 0 /\ new.missing = {} /\ new.code = code /\ new.failed = failed /\ new.last = process.at
        /\ new.session = process.session /\ new.touched = process.touched /\ new.wrote = process.wrote
        /\ new.seen = process.seen
    BY DEF ShellStates
  <1>6. QED
    BY <1>3, <1>4, <1>5

\* A process goes on with the first step that is not left out, or ends well.
LEMMA Going ==
  ASSUME CommandTypeOK, NEW p \in Shells, shell[p].at <= Len(shell[p].session), NEW process \in ShellStates, NEW m \in Nat
  PROVE  /\ WentOn(p, process, m) \in ShellStates
         /\ \/ /\ Following(p, process, m) = {}
               /\ \E failed \in Failures : WentOn(p, process, m) = Ended(process, 0, failed)
            \/ \E i \in Following(p, process, m) :
                 /\ \A j \in Following(p, process, m) : i <= j
                 /\ WentOn(p, process, m) = [process EXCEPT !.step = i]
  <1> DEFINE S == Following(p, process, m)
  <1>1. S \subseteq Nat
    BY CommandFacts DEF Following
  <1>2. CASE S = {}
    <2>1. \E failed \in Failures : WentOn(p, process, m) = Ended(process, 0, failed)
      BY <1>2, Zenon DEF WentOn, Failures
    <2>2. PICK failed \in Failures : WentOn(p, process, m) = Ended(process, 0, failed)
      BY <2>1
    <2>3. 0 \in Int
      OBVIOUS
    <2>4. Ended(process, 0, failed) \in ShellStates
      BY <2>3, EndedType
    <2>5. QED
      BY <1>2, <2>2, <2>4
  <1>3. CASE S # {}
    <2> DEFINE i == CHOOSE k \in S : \A j \in S : k <= j
    <2>1. i \in S /\ \A j \in S : i <= j
      BY <1>1, <1>3, SmallestStep
    <2>2. WentOn(p, process, m) = [process EXCEPT !.step = i]
      BY <1>3 DEF WentOn
    <2> HIDE DEF i
    <2>3. i \in Nat
      BY <1>1, <2>1
    <2>4. [process EXCEPT !.step = i] \in ShellStates
      BY <2>3 DEF ShellStates
    <2>5. QED
      BY <2>1, <2>2, <2>4
  <1>4. QED
    BY <1>2, <1>3

-----------------------------------------------------------------------------
(* What the other processes see of a step.                                   *)

LEMMA OtherShells ==
  ASSUME CommandTypeOK, NEW p \in Shells, NEW q \in Shells, q # p, ShellInvariant(q),
         \A r \in Shells : r # p => shell'[r] = shell[r],
         shell[p].wrote \subseteq shell'[p].wrote,
         \A f \in Files : file'[f] = file[f] \/ f \in shell'[p].wrote
  PROVE  ShellInvariant(q)'
  <1>1. shell'[q] = shell[q]
    OBVIOUS
  <1>2. Others(q) \subseteq Others(q)' /\ shell'[p].wrote \subseteq Others(q)'
    <2>1. \A r \in Shells : shell[r].wrote \subseteq shell'[r].wrote
      OBVIOUS
    <2>2. QED
      BY <2>1 DEF Others
  <1>3. \A f \in Files : file'[f] = file[f] \/ f \in Others(q)'
    BY <1>2
  <1>4. Busy(q)' = Busy(q) /\ Use(q)' = Use(q)
    BY <1>1 DEF Busy, Use
  <1>5. Program(q)' = Program(q) /\ Command(q)' = Command(q)
    BY <1>1, <1>4 DEF Program, Command
  <1>6. \A h : Target(q, h)' = Target(q, h)
    BY <1>4, <1>5 DEF Target
  <1>7. \A h, j : Within(q, h, j)' = Within(q, h, j)
    BY <1>1, <1>5 DEF Within
  <1>8. shell[q].touched \subseteq Files
    BY DEF CommandTypeOK, ShellStates
  <1>9. Standing(q)' /\ shell'[q].touched \subseteq shell'[q].wrote
    BY <1>1, <1>4, <1>5 DEF ShellInvariant, Standing
  <1>10. TouchedIsSound(q)'
    <2> SUFFICES ASSUME Busy(q) \/ shell[q].code = 0, NEW f \in shell[q].touched, f \notin Others(q)'
                 PROVE  \/ file'[f].by = q /\ file'[f].state = "whole"
                        \/ /\ Busy(q) /\ file'[f].by = q /\ file'[f].state = "half"
                           /\ \E h, j \in DOMAIN Program(q) : Within(q, h, j) /\ Target(q, h) = f
      BY <1>1, <1>4, <1>5, <1>6, <1>7 DEF TouchedIsSound
    <2>1. file'[f] = file[f] /\ f \notin Others(q)
      BY <1>2, <1>3, <1>8
    <2>2. QED
      BY <2>1 DEF ShellInvariant, TouchedIsSound
  <1>11. OpenIsHalf(q)'
    <2> SUFFICES ASSUME Busy(q), NEW h \in DOMAIN Program(q), NEW j \in DOMAIN Program(q), Within(q, h, j)
                 PROVE  /\ Target(q, h) \in shell[q].touched
                        /\ \/ Target(q, h) \in Others(q)'
                           \/ file'[Target(q, h)].by = q /\ file'[Target(q, h)].state = "half"
      BY <1>1, <1>4, <1>5, <1>6, <1>7 DEF OpenIsHalf
    <2>1. /\ Target(q, h) \in shell[q].touched
          /\ Target(q, h) \in Others(q) \/ (file[Target(q, h)].by = q /\ file[Target(q, h)].state = "half")
      BY DEF ShellInvariant, OpenIsHalf
    <2>2. QED
      BY <1>2, <1>3, <1>8, <2>1
  <1>12. CreatedIsWritten(q)'
    BY <1>1, <1>4, <1>5, <1>6 DEF ShellInvariant, CreatedIsWritten
  <1>13. TouchedIsLate(q)'
    BY <1>1, <1>4, <1>5 DEF ShellInvariant, TouchedIsLate
  <1>14. SealedIsWhole(q)' /\ RefusalsAreEarly(q)'
    BY <1>1, <1>5 DEF ShellInvariant, SealedIsWhole, RefusalsAreEarly
  <1>15. QED
    BY <1>9, <1>10, <1>11, <1>12, <1>13, <1>14 DEF ShellInvariant

\* A block holds nothing but its own steps.
LEMMA Inside ==
  ASSUME NEW c, NEW k \in DOMAIN c, NEW h, NEW j, Block(c, h, j), c \in Seq(CommandSteps)
  PROVE  /\ h < k /\ k < j => c[k].do \in {"read tool", "rows"}
         /\ c[k].do # "create" /\ h <= k => h < k
         /\ c[k].do # "close" /\ k <= j => k < j
         /\ h \in Nat /\ j \in Nat /\ k \in Nat
  <1>1. h \in Nat /\ j \in Nat /\ k \in Nat
    <2>1. DOMAIN c \subseteq Nat
      OBVIOUS
    <2>2. QED
      BY <2>1 DEF Block
  <1>2. h < k /\ k < j => c[k].do \in {"read tool", "rows"}
    BY DEF Block
  <1>3. c[h].do = "create" /\ c[j].do = "close"
    BY DEF Block
  <1>4. c[k].do # "create" /\ h <= k => h < k
    BY <1>1, <1>3
  <1>5. c[k].do # "close" /\ k <= j => k < j
    BY <1>1, <1>3
  <1>6. QED
    BY <1>1, <1>2, <1>4, <1>5

\* After its m-th step a process is past the creation of a file it writes, and
\* not past the end.
Between(p, process, m, h, j) ==
  /\ Block(Program(p), h, j) /\ h <= m /\ m < j /\ Program(p)[h].of \notin process.missing

\* What an action has to see to before the process goes on after its m-th step.
TouchedStays(p, process, m) ==
  \A f \in process.touched :
     \/ f \in Others(p)
     \/ file'[f].by = p /\ file'[f].state = "whole"
     \/ /\ file'[f].by = p /\ file'[f].state = "half"
        /\ \E h, j \in DOMAIN Program(p) : Between(p, process, m, h, j) /\ Target(p, h) = f
OpenStays(p, process, m) ==
  \A h, j \in DOMAIN Program(p) : Between(p, process, m, h, j) =>
     /\ Target(p, h) \in process.touched
     /\ Target(p, h) \in Others(p) \/ (file'[Target(p, h)].by = p /\ file'[Target(p, h)].state = "half")
CreatedStays(p, process, m) ==
  Unskipped(Program(p)) =>
    /\ process.missing = {}
    /\ \A h \in DOMAIN Program(p) : h <= m /\ Program(p)[h].do = "create" => Target(p, h) \in process.wrote
LateStays(p, process, m) ==
  process.touched # {} => \E h \in DOMAIN Program(p) : h <= m /\ Program(p)[h].do = "create"
SealedStays(process) == \A r \in process.seen : r.how = "read sealed" => r.state = "whole"
SameCommand(p, process) ==
  /\ process \in ShellStates /\ process.session = shell[p].session /\ process.at = shell[p].at
  /\ process.code = shell[p].code

LEMMA Moving ==
  ASSUME CommandTypeOK, NEW p \in Shells, ShellInvariant(p), Busy(p), NEW process, SameCommand(p, process),
         NEW m \in Nat, shell' = [shell EXCEPT ![p] = WentOn(p, process, m)],
         process.touched \subseteq process.wrote, SealedStays(process), TouchedStays(p, process, m),
         OpenStays(p, process, m), CreatedStays(p, process, m), LateStays(p, process, m)
  PROVE  ShellInvariant(p)' /\ shell' \in [Shells -> ShellStates] /\ shell'[p].wrote = process.wrote
  <1> DEFINE S == Following(p, process, m)
             c == Program(p)
  <1>1. shell[p].at <= Len(shell[p].session) /\ shell[p].step \in DOMAIN Program(p) /\ shell[p].code = -1
    BY DEF ShellInvariant, Standing
  <1>0. process \in ShellStates /\ process.session = shell[p].session /\ process.at = shell[p].at
        /\ process.code = shell[p].code
    BY DEF SameCommand
  <1>2. \A i \in DOMAIN Program(p) : i \in Nat \ {0}
    BY <1>1, CommandFacts
  <1>3. shell'[p] = WentOn(p, process, m) /\ shell \in [Shells -> ShellStates]
    BY DEF CommandTypeOK
  <1>4. WentOn(p, process, m) \in ShellStates
    BY <1>0, <1>1, Going
  <1>5. shell' \in [Shells -> ShellStates]
    BY <1>3, <1>4
  <1>6. Others(p)' = Others(p)
    BY <1>3 DEF Others
  <1>7. CASE S = {}
    <2>1. PICK failed \in Failures : WentOn(p, process, m) = Ended(process, 0, failed)
      BY <1>0, <1>1, <1>7, Going
    <2>2. 0 \in Int
      OBVIOUS
    <2>3. /\ shell'[p].step = 0 /\ shell'[p].missing = {} /\ shell'[p].code = 0
          /\ shell'[p].touched = process.touched /\ shell'[p].wrote = process.wrote /\ shell'[p].seen = process.seen
      BY <1>0, <1>3, <2>1, <2>2, EndedType
    <2>4. ~Busy(p)'
      BY <2>3 DEF Busy
    <2>5. TouchedIsSound(p)'
      <3> SUFFICES ASSUME NEW f \in process.touched, f \notin Others(p)
                   PROVE  file'[f].by = p /\ file'[f].state = "whole"
        BY <1>6, <2>3 DEF TouchedIsSound
      <3>1. \A h, j \in DOMAIN Program(p) : ~Between(p, process, m, h, j)
        <4> SUFFICES ASSUME NEW h \in DOMAIN Program(p), NEW j \in DOMAIN Program(p), Between(p, process, m, h, j)
                     PROVE  FALSE
          OBVIOUS
        <4>1. j > m /\ c[j].of = c[h].of /\ c[h].of \notin process.missing
          BY <1>2 DEF Between, Block
        <4>2. j \in S
          BY <4>1 DEF Following
        <4>3. QED
          BY <1>7, <4>2
      <3>2. QED
        BY <3>1 DEF TouchedStays
    <2>6. Standing(p)' /\ OpenIsHalf(p)' /\ CreatedIsWritten(p)' /\ TouchedIsLate(p)'
      BY <2>3, <2>4 DEF Standing, OpenIsHalf, CreatedIsWritten, TouchedIsLate
    <2>7. SealedIsWhole(p)' /\ RefusalsAreEarly(p)'
      <3>1. SealedIsWhole(p)'
        BY <2>3 DEF SealedIsWhole, SealedStays
      <3>2. shell'[p].code # 1 /\ shell'[p].code # 2
        BY <2>3
      <3>3. RefusalsAreEarly(p)'
        BY <3>2 DEF RefusalsAreEarly
      <3>4. QED
        BY <3>1, <3>3
    <2>8. QED
      BY <1>5, <2>3, <2>5, <2>6, <2>7 DEF ShellInvariant
  <1>8. CASE S # {}
    <2>1. PICK i \in S : /\ \A j \in S : i <= j
                         /\ WentOn(p, process, m) = [process EXCEPT !.step = i]
      BY <1>0, <1>1, <1>8, Going
    <2>2. i \in DOMAIN c /\ i > m /\ c[i].of \notin process.missing /\ i \in Nat \ {0}
      BY <1>2 DEF Following
    <2>3. /\ shell'[p].step = i /\ shell'[p].missing = process.missing /\ shell'[p].code = -1
          /\ shell'[p].touched = process.touched /\ shell'[p].wrote = process.wrote /\ shell'[p].seen = process.seen
          /\ shell'[p].session = shell[p].session /\ shell'[p].at = shell[p].at
      BY <1>0, <1>1, <1>3, <2>1 DEF ShellStates
    <2>4. Busy(p) /\ Busy(p)'
      BY <2>2, <2>3 DEF Busy
    <2>5. Use(p)' = Use(p)
      BY <2>3 DEF Use
    <2>6. Program(p)' = Program(p) /\ \A h : Target(p, h)' = Target(p, h)
      BY <2>5 DEF Program, Target
    <2>7. \A h, j \in DOMAIN c : Between(p, process, m, h, j) => Within(p, h, j)'
      <3> SUFFICES ASSUME NEW h \in DOMAIN c, NEW j \in DOMAIN c, Between(p, process, m, h, j)
                   PROVE  Within(p, h, j)'
        OBVIOUS
      <3>1. j > m /\ h <= m /\ c[j].of = c[h].of /\ c[h].of \notin process.missing /\ h \in Nat /\ j \in Nat
        BY <1>2 DEF Between, Block
      <3>2. j \in S
        BY <3>1 DEF Following
      <3>3. i <= j /\ h < i
        BY <2>1, <2>2, <3>1, <3>2
      <3>4. QED
        BY <2>3, <2>6, <3>1, <3>3 DEF Within, Between
    <2>8. \A h, j \in DOMAIN c : Within(p, h, j)' => Between(p, process, m, h, j)
      <3> SUFFICES ASSUME NEW h \in DOMAIN c, NEW j \in DOMAIN c, Within(p, h, j)'
                   PROVE  Between(p, process, m, h, j)
        OBVIOUS
      <3>1. Block(c, h, j) /\ h < i /\ i <= j /\ c[h].of \notin process.missing /\ h \in Nat /\ j \in Nat
        BY <1>2, <2>3, <2>6 DEF Within
      <3>2. h <= m
        <4>1. h > m => h \in S
          BY <3>1 DEF Following
        <4>2. QED
          BY <2>1, <2>2, <3>1, <4>1
      <3>3. m < j
        BY <2>2, <3>1
      <3>4. QED
        BY <3>1, <3>2, <3>3 DEF Between
    <2> HIDE DEF c
    <2>9. Standing(p)'
      BY <1>1, <2>2, <2>3, <2>4, <2>6 DEF Standing, c
    <2>10. TouchedIsSound(p)'
      BY <1>6, <2>3, <2>4, <2>6, <2>7 DEF TouchedIsSound, TouchedStays, c
    <2>11. OpenIsHalf(p)'
      BY <1>6, <2>3, <2>4, <2>6, <2>8 DEF OpenIsHalf, OpenStays, c
    <2>12. CreatedIsWritten(p)'
      <3> SUFFICES ASSUME Unskipped(Program(p)), NEW h \in DOMAIN Program(p), h < i, Program(p)[h].do = "create"
                   PROVE  Target(p, h) \in process.wrote
        BY <2>3, <2>6 DEF CreatedIsWritten, CreatedStays
      <3>1. h > m => h \in S
        BY DEF Following, CreatedStays
      <3>2. h <= m
        BY <1>2, <2>1, <2>2, <3>1
      <3>3. QED
        BY <3>2 DEF CreatedStays
    <2>13. TouchedIsLate(p)'
      <3> SUFFICES ASSUME process.touched # {}
                   PROVE  \E h \in DOMAIN Program(p) : h < i /\ Program(p)[h].do = "create"
        BY <2>3, <2>6 DEF TouchedIsLate
      <3>1. PICK h \in DOMAIN Program(p) : h <= m /\ Program(p)[h].do = "create"
        BY DEF LateStays
      <3>2. h < i
        BY <1>2, <2>2, <3>1
      <3>3. QED
        BY <3>1, <3>2
    <2>14. SealedIsWhole(p)' /\ RefusalsAreEarly(p)'
      <3>1. SealedIsWhole(p)'
        BY <2>3 DEF SealedIsWhole, SealedStays
      <3>2. shell'[p].code # 1 /\ shell'[p].code # 2
        BY <2>3
      <3>3. RefusalsAreEarly(p)'
        BY <3>2 DEF RefusalsAreEarly
      <3>4. QED
        BY <3>1, <3>3
    <2>15. QED
      BY <1>5, <2>3, <2>9, <2>10, <2>11, <2>12, <2>13, <2>14 DEF ShellInvariant
  <1>9. QED
    BY <1>7, <1>8

WorkspaceStates == [exists : BOOLEAN, issued : Nat, committed : SUBSET Int]

\* One process makes a step.
LEMMA ShellStepped ==
  ASSUME CommandInvariant, NEW p \in Shells, ShellInvariant(p)', shell' \in [Shells -> ShellStates],
         \A r \in Shells : r # p => shell'[r] = shell[r], shell[p].wrote \subseteq shell'[p].wrote,
         \A f \in Files : file'[f] = file[f] \/ f \in shell'[p].wrote,
         file' \in [Files -> FileStates], workspace' \in WorkspaceStates
  PROVE  CommandInvariant'
  <1>1. CommandTypeOK'
    BY DEF CommandTypeOK, WorkspaceStates
  <1>2. \A q \in Shells : q # p => ShellInvariant(q)'
    BY OtherShells DEF CommandInvariant
  <1>3. QED
    BY <1>1, <1>2 DEF CommandInvariant

\* A step that changes no file, and goes on with the next or, if a matrix is used
\* again, after the end of a file.
Quiet(p, process, m) ==
  LET k == shell[p].step
      do == Program(p)[k].do
  IN  /\ do \notin Writing \cup {"remove"}
      /\ process.touched = shell[p].touched /\ process.wrote = shell[p].wrote
      /\ m = k \/ (do = "reuse" /\ m \in DOMAIN Program(p) /\ k < m /\ Program(p)[m].do = "close")
      /\ do # "options" => process.missing = shell[p].missing
      /\ Unskipped(Program(p)) => process.missing = {}

LEMMA QuietProcess ==
  ASSUME CommandInvariant, NEW p \in Shells, Busy(p), NEW process, SameCommand(p, process), SealedStays(process),
         NEW m \in Nat, Quiet(p, process, m),
         shell' = [shell EXCEPT ![p] = WentOn(p, process, m)], file' = file, workspace' \in WorkspaceStates
  PROVE  CommandInvariant'
  <1> DEFINE k == shell[p].step
             c == Program(p)
  <1>1. CommandTypeOK /\ ShellInvariant(p)
    BY DEF CommandInvariant
  <1>2. shell[p].at <= Len(shell[p].session) /\ k \in DOMAIN c
    BY <1>1 DEF ShellInvariant, Standing
  <1>3. c \in Seq(CommandSteps) /\ k \in Nat /\ \A i \in DOMAIN c : i \in Nat
    <2>1. Tidy(c) /\ \A i \in DOMAIN c : i \in Nat
      BY <1>1, <1>2, CommandFacts
    <2>2. QED
      BY <1>2, <2>1 DEF Tidy
  <1>4. /\ c[k].do \notin Writing \cup {"remove"}
        /\ process.touched = shell[p].touched /\ process.wrote = shell[p].wrote
        /\ m = k \/ (c[k].do = "reuse" /\ m \in DOMAIN c /\ k < m /\ c[m].do = "close")
        /\ c[k].do # "options" => process.missing = shell[p].missing
        /\ Unskipped(c) => process.missing = {}
    BY DEF Quiet
  <1>5. c[k].do # "create" /\ c[k].do # "close" /\ c[k].do # "rows"
    BY <1>4 DEF Writing
  <1>6. /\ shell[p].touched \subseteq shell[p].wrote
        /\ TouchedIsSound(p) /\ OpenIsHalf(p) /\ CreatedIsWritten(p) /\ TouchedIsLate(p)
    BY <1>1 DEF ShellInvariant
  <1> HIDE DEF c, k
  <1>7. ASSUME NEW h \in DOMAIN c, NEW j \in DOMAIN c
        PROVE  Within(p, h, j) <=> Between(p, process, m, h, j)
    <2>1. ASSUME Within(p, h, j) PROVE Between(p, process, m, h, j)
      <3>1. Block(c, h, j) /\ h < k /\ k <= j /\ c[h].of \notin shell[p].missing
        BY <2>1 DEF Within, c, k
      <3>2. k < j /\ c[k].do = "read tool"
        BY <1>2, <1>3, <1>5, <3>1, Inside
      <3>3. m = k /\ process.missing = shell[p].missing
        BY <1>4, <3>2
      <3>4. h <= m
        BY <1>3, <3>1, <3>3
      <3>5. QED
        BY <3>1, <3>2, <3>3, <3>4 DEF Between, c
    <2>2. ASSUME Between(p, process, m, h, j) PROVE Within(p, h, j)
      <3>1. Block(c, h, j) /\ h <= m /\ m < j /\ c[h].of \notin process.missing
        BY <2>2 DEF Between, c
      <3>2. m = k
        <4> SUFFICES ASSUME m # k PROVE FALSE
          OBVIOUS
        <4>1. m \in DOMAIN c /\ c[m].do = "close"
          BY <1>4
        <4>2. c[m].do \in {"read tool", "rows"}
          BY <1>3, <3>1, <4>1, Inside
        <4>3. QED
          BY <4>1, <4>2
      <3>3. h < k /\ k < j /\ c[k].do = "read tool"
        BY <1>2, <1>3, <1>5, <3>1, <3>2, Inside
      <3>4. process.missing = shell[p].missing
        BY <1>4, <3>3
      <3>5. k <= j
        <4>1. k \in Nat /\ j \in Nat /\ k < j
          BY <1>3, <3>3
        <4>2. QED
          BY <4>1
      <3>6. QED
        BY <3>1, <3>3, <3>4, <3>5 DEF Within, c, k
    <2>3. QED
      BY <2>1, <2>2
  <1>8. TouchedStays(p, process, m)
    <2> SUFFICES ASSUME NEW f \in shell[p].touched
                 PROVE  \/ f \in Others(p)
                        \/ file[f].by = p /\ file[f].state = "whole"
                        \/ /\ file[f].by = p /\ file[f].state = "half"
                           /\ \E h, j \in DOMAIN c : Between(p, process, m, h, j) /\ Target(p, h) = f
      BY <1>4 DEF TouchedStays, c
    <2>1. \/ f \in Others(p)
          \/ file[f].by = p /\ file[f].state = "whole"
          \/ /\ file[f].by = p /\ file[f].state = "half"
             /\ \E h, j \in DOMAIN c : Within(p, h, j) /\ Target(p, h) = f
      BY <1>6 DEF TouchedIsSound, c
    <2>2. QED
      BY <1>7, <2>1
  <1>9. OpenStays(p, process, m)
    <2> SUFFICES ASSUME NEW h \in DOMAIN c, NEW j \in DOMAIN c, Between(p, process, m, h, j)
                 PROVE  /\ Target(p, h) \in shell[p].touched
                        /\ Target(p, h) \in Others(p) \/ (file[Target(p, h)].by = p /\ file[Target(p, h)].state = "half")
      BY <1>4 DEF OpenStays, c
    <2>1. Within(p, h, j)
      BY <1>7
    <2>2. QED
      BY <1>6, <2>1 DEF OpenIsHalf, c
  <1>10. CreatedStays(p, process, m)
    <2> SUFFICES ASSUME Unskipped(c), NEW h \in DOMAIN c, h <= m, c[h].do = "create"
                 PROVE  Target(p, h) \in shell[p].wrote
      BY <1>4 DEF CreatedStays, c
    <2>1. c[k].do # "reuse"
      BY <1>2 DEF Unskipped
    <2>2. h < k
      BY <1>3, <1>4, <1>5, <2>1
    <2>3. QED
      BY <1>6, <2>2 DEF CreatedIsWritten, c, k
  <1>11. LateStays(p, process, m)
    <2> SUFFICES ASSUME shell[p].touched # {}
                 PROVE  \E h \in DOMAIN c : h <= m /\ c[h].do = "create"
      BY <1>4 DEF LateStays, c
    <2>1. PICK h \in DOMAIN c : h < k /\ c[h].do = "create"
      BY <1>6 DEF TouchedIsLate, c, k
    <2>2. h <= m
      BY <1>3, <1>4, <2>1
    <2>3. QED
      BY <2>1, <2>2
  <1>12. process.touched \subseteq process.wrote
    BY <1>1, <1>4, <1>6
  <1>13. ShellInvariant(p)' /\ shell' \in [Shells -> ShellStates] /\ shell'[p].wrote = shell[p].wrote
    BY <1>1, <1>4, <1>8, <1>9, <1>10, <1>11, <1>12, Moving
  <1>14. \A r \in Shells : r # p => shell'[r] = shell[r]
    BY <1>1 DEF CommandTypeOK
  <1>15. file' \in [Files -> FileStates]
    BY <1>1 DEF CommandTypeOK
  <1>16. QED
    BY <1>13, <1>14, <1>15, ShellStepped

\* What is the same for every process that is at a step of its program.
LEMMA Underway ==
  ASSUME CommandInvariant, NEW p \in Shells, Busy(p)
  PROVE  LET c == Program(p)
             k == shell[p].step
         IN  /\ shell[p] \in ShellStates /\ shell[p].at <= Len(shell[p].session)
             /\ k \in DOMAIN c /\ k \in Nat /\ c \in Seq(CommandSteps) /\ \A i \in DOMAIN c : i \in Nat
             /\ c[k].of \notin shell[p].missing /\ Now(p) = c[k] /\ Of(p) = Target(p, k)
             /\ c[k] \in CommandSteps
             /\ Framed(c) /\ Named(c) /\ Jumps(c) /\ Removes(c) /\ (Kept(c) \/ Unskipped(c))
             /\ c[k].do \in Writing \cup Reading => c[k].of \in Roles /\ Of(p) \in Files
             /\ shell[p].touched \subseteq shell[p].wrote
             /\ TouchedIsSound(p) /\ OpenIsHalf(p) /\ CreatedIsWritten(p) /\ TouchedIsLate(p)
             /\ SealedStays(shell[p]) /\ SameCommand(p, shell[p])
             /\ Unskipped(c) => shell[p].missing = {}
             /\ Use(p).bind \in [Roles -> Files]
  <1> DEFINE c == Program(p)
             k == shell[p].step
  <1>1. CommandTypeOK /\ ShellInvariant(p)
    BY DEF CommandInvariant
  <1>2. /\ shell[p].at <= Len(shell[p].session) /\ k \in DOMAIN c /\ c[k].of \notin shell[p].missing
        /\ shell[p].touched \subseteq shell[p].wrote
        /\ TouchedIsSound(p) /\ OpenIsHalf(p) /\ CreatedIsWritten(p) /\ TouchedIsLate(p) /\ SealedIsWhole(p)
    BY <1>1 DEF ShellInvariant, Standing
  <1>3. shell[p] \in ShellStates
    BY <1>1 DEF CommandTypeOK
  <1>4. /\ Tidy(c) /\ (Kept(c) \/ Unskipped(c)) /\ Use(p).bind \in [Roles -> Files]
        /\ \A i \in DOMAIN c :
              /\ i \in Nat \ {0} /\ c[i] \in CommandSteps
              /\ c[i].do \in Writing \cup Reading => c[i].of \in Roles /\ Target(p, i) \in Files
    BY <1>1, <1>2, CommandFacts
  <1>5. c \in Seq(CommandSteps) /\ Framed(c) /\ Named(c) /\ Jumps(c) /\ Removes(c)
    BY <1>4 DEF Tidy
  <1>6. SealedStays(shell[p]) /\ SameCommand(p, shell[p])
    BY <1>2, <1>3 DEF SealedIsWhole, SealedStays, SameCommand
  <1>7. Unskipped(c) => shell[p].missing = {}
    BY <1>2 DEF CreatedIsWritten
  <1>8. Now(p) = c[k] /\ Of(p) = Target(p, k)
    BY DEF Now, Of, Target
  <1> HIDE DEF c, k
  <1>9. k \in Nat /\ (\A i \in DOMAIN c : i \in Nat) /\ c[k] \in CommandSteps
        /\ (c[k].do \in Writing \cup Reading => c[k].of \in Roles /\ Of(p) \in Files)
    BY <1>2, <1>4, <1>8
  <1>10. QED
    BY <1>2, <1>3, <1>4, <1>5, <1>6, <1>7, <1>8, <1>9 DEF c, k

LEMMA GiveOptionsKeeps ==
  ASSUME CommandInvariant, NEW p \in Shells, GiveOptions(p)
  PROVE  CommandInvariant'
  <1> DEFINE c == Program(p)
             k == shell[p].step
  <1>1. Busy(p) /\ c[k].do = "options" /\ Now(p) = c[k]
    BY DEF GiveOptions, Doing, Now
  <1>2. /\ shell[p] \in ShellStates /\ k \in Nat /\ k \in DOMAIN c /\ Named(c) /\ SealedStays(shell[p])
        /\ SameCommand(p, shell[p])
    BY <1>1, Underway
  <1>3. PICK given : shell' = [shell EXCEPT ![p] = WentOn(p, [shell[p] EXCEPT !.missing = c[k].of \ given], k)]
    BY <1>1 DEF GiveOptions, Moved
  <1> DEFINE process == [shell[p] EXCEPT !.missing = c[k].of \ given]
  <1>4. c[k].of \in SUBSET Names
    BY <1>1, <1>2 DEF Named
  <1>5. Unskipped(c) => c[k].of = {}
    BY <1>1, <1>2 DEF Unskipped
  <1> HIDE DEF c, k
  <1>6. process \in ShellStates
    BY <1>2, <1>4 DEF ShellStates
  <1>7. /\ process.session = shell[p].session /\ process.at = shell[p].at /\ process.code = shell[p].code
        /\ process.touched = shell[p].touched /\ process.wrote = shell[p].wrote /\ process.seen = shell[p].seen
        /\ process.missing = c[k].of \ given
    BY <1>2 DEF ShellStates
  <1> HIDE DEF process
  <1>8. SameCommand(p, process) /\ SealedStays(process)
    BY <1>2, <1>6, <1>7 DEF SameCommand, SealedStays
  <1>9. Quiet(p, process, k)
    <2>1. c[k].do \notin Writing \cup {"remove"}
      BY <1>1 DEF Writing
    <2>2. Unskipped(c) => process.missing = {}
      BY <1>5, <1>7
    <2>3. QED
      BY <1>1, <1>7, <2>1, <2>2 DEF Quiet, c, k
  <1>10. file' = file /\ workspace' \in WorkspaceStates
    BY DEF GiveOptions, CommandInvariant, CommandTypeOK, WorkspaceStates
  <1>11. shell' = [shell EXCEPT ![p] = WentOn(p, process, k)]
    BY <1>3 DEF process
  <1>12. QED
    BY <1>1, <1>2, <1>8, <1>9, <1>10, <1>11, QuietProcess

\* Steps that leave the process as it is, or take a batch number or something read.
LEMMA OrdinaryKeeps ==
  ASSUME CommandInvariant, NEW p \in Shells, Busy(p), NEW process, process \in ShellStates,
         process.session = shell[p].session, process.at = shell[p].at, process.code = shell[p].code,
         process.touched = shell[p].touched, process.wrote = shell[p].wrote, process.missing = shell[p].missing,
         SealedStays(process), Now(p).do \notin Writing \cup {"remove", "options"},
         shell' = [shell EXCEPT ![p] = WentOn(p, process, shell[p].step)],
         file' = file, workspace' \in WorkspaceStates
  PROVE  CommandInvariant'
  <1>1. /\ shell[p].step \in Nat /\ Now(p) = Program(p)[shell[p].step]
        /\ Unskipped(Program(p)) => shell[p].missing = {}
    BY Underway
  <1>2. SameCommand(p, process)
    BY DEF SameCommand
  <1>3. Quiet(p, process, shell[p].step)
    BY <1>1 DEF Quiet
  <1>4. QED
    BY <1>1, <1>2, <1>3, QuietProcess

LEMMA PlainKeeps ==
  ASSUME CommandInvariant, NEW p \in Shells,
         Plain(p) \/ OpenWorkspace(p) \/ InitWorkspace(p) \/ AcceptBatch(p)
  PROVE  CommandInvariant'
  <1>1. /\ Busy(p) /\ Now(p).do \in {"compute", "print", "verdict", "directory", "open", "init", "commit"}
        /\ shell' = [shell EXCEPT ![p] = WentOn(p, shell[p], shell[p].step)] /\ file' = file
    BY DEF Plain, OpenWorkspace, InitWorkspace, AcceptBatch, Doing, Moved
  <1>2. shell[p] \in ShellStates /\ SealedStays(shell[p])
    BY <1>1, Underway
  <1>3. workspace' \in WorkspaceStates
    <2>1. workspace \in WorkspaceStates
      BY DEF CommandInvariant, CommandTypeOK, WorkspaceStates
    <2>2. CASE Plain(p) \/ OpenWorkspace(p)
      BY <2>1, <2>2 DEF Plain, OpenWorkspace
    <2>3. CASE InitWorkspace(p)
      BY <2>1, <2>3 DEF InitWorkspace, WorkspaceStates
    <2>4. CASE AcceptBatch(p)
      <3>1. shell[p].batch \in Int
        BY <1>2 DEF ShellStates
      <3>2. QED
        BY <2>1, <2>4, <3>1 DEF AcceptBatch, WorkspaceStates
    <2>5. QED
      BY <2>2, <2>3, <2>4
  <1>4. Now(p).do \notin Writing \cup {"remove", "options"}
    BY <1>1 DEF Writing
  <1>5. QED
    BY <1>1, <1>2, <1>3, <1>4, OrdinaryKeeps

LEMMA BatchTaken ==
  ASSUME NEW process \in ShellStates, NEW batch \in Int
  PROVE  LET taken == [process EXCEPT !.batch = batch]
         IN  /\ taken \in ShellStates /\ taken.session = process.session /\ taken.at = process.at
             /\ taken.code = process.code /\ taken.touched = process.touched /\ taken.wrote = process.wrote
             /\ taken.missing = process.missing /\ taken.seen = process.seen
  BY DEF ShellStates

LEMMA HandOutBatchKeeps ==
  ASSUME CommandInvariant, NEW p \in Shells, HandOutBatch(p)
  PROVE  CommandInvariant'
  <1> DEFINE process == [shell[p] EXCEPT !.batch = NextBatch]
  <1>1. /\ Busy(p) /\ Now(p).do = "begin"
        /\ shell' = [shell EXCEPT ![p] = WentOn(p, process, shell[p].step)] /\ file' = file
    BY DEF HandOutBatch, Doing, Moved
  <1>2. shell[p] \in ShellStates /\ SealedStays(shell[p])
    BY <1>1, Underway
  <1>3. NextBatch \in Nat /\ workspace \in WorkspaceStates
    BY DEF NextBatch, CommandInvariant, CommandTypeOK, WorkspaceStates
  <1>4. workspace' \in WorkspaceStates
    BY <1>3 DEF HandOutBatch, WorkspaceStates
  <1>5. /\ process \in ShellStates /\ process.session = shell[p].session /\ process.at = shell[p].at
        /\ process.code = shell[p].code /\ process.touched = shell[p].touched /\ process.wrote = shell[p].wrote
        /\ process.missing = shell[p].missing /\ process.seen = shell[p].seen
    BY <1>2, <1>3, BatchTaken
  <1> HIDE DEF process
  <1>6. SealedStays(process)
    BY <1>2, <1>5 DEF SealedStays
  <1>7. Now(p).do \notin Writing \cup {"remove", "options"}
    BY <1>1 DEF Writing
  <1>8. QED
    BY <1>1, <1>4, <1>5, <1>6, <1>7, OrdinaryKeeps

LEMMA ReadKeeps ==
  ASSUME CommandInvariant, NEW p \in Shells, Read(p)
  PROVE  CommandInvariant'
  <1> DEFINE r == [how |-> Now(p).do, state |-> file[Of(p)].state]
             process == [shell[p] EXCEPT !.batch = file[Of(p)].batch, !.seen = @ \cup {r}]
  <1>1. /\ Busy(p) /\ Now(p).do \in Reading /\ file[Of(p)].state \in Accepts(Now(p).do)
        /\ shell' = [shell EXCEPT ![p] = WentOn(p, process, shell[p].step)] /\ file' = file /\ workspace' = workspace
    BY DEF Read, Doing, Moved, Reading
  <1>2. shell[p] \in ShellStates /\ SealedStays(shell[p]) /\ Of(p) \in Files
    BY <1>1, Underway
  <1>3. file[Of(p)].state \in States /\ file[Of(p)].batch \in Int
    BY <1>2 DEF CommandInvariant, CommandTypeOK, FileStates
  <1>4. r \in [how : Reading, state : States] /\ r.how = Now(p).do /\ r.state = file[Of(p)].state
    BY <1>1, <1>3
  <1>5. r.how = "read sealed" => r.state = "whole"
    BY <1>1, <1>4 DEF Accepts
  <1> HIDE DEF r
  <1>6. /\ process \in ShellStates /\ process.session = shell[p].session /\ process.at = shell[p].at
        /\ process.code = shell[p].code /\ process.touched = shell[p].touched /\ process.wrote = shell[p].wrote
        /\ process.missing = shell[p].missing /\ process.seen = shell[p].seen \cup {r}
    BY <1>2, <1>3, <1>4 DEF ShellStates
  <1>7. workspace' \in WorkspaceStates
    BY <1>1 DEF CommandInvariant, CommandTypeOK, WorkspaceStates
  <1> HIDE DEF process
  <1>8. SealedStays(process)
    BY <1>2, <1>5, <1>6 DEF SealedStays
  <1>9. Now(p).do \notin Writing \cup {"remove", "options"}
    BY <1>1 DEF Writing, Reading
  <1>10. QED
    BY <1>1, <1>6, <1>7, <1>8, <1>9, OrdinaryKeeps

LEMMA ReuseKeeps ==
  ASSUME CommandInvariant, NEW p \in Shells, Reuse(p)
  PROVE  CommandInvariant'
  <1> DEFINE k == shell[p].step
             m == k + Now(p).of
  <1>1. Busy(p) /\ Now(p).do = "reuse" /\ file' = file /\ workspace' \in WorkspaceStates
    BY DEF Reuse, Doing, CommandInvariant, CommandTypeOK, WorkspaceStates
  <1>2. /\ shell[p] \in ShellStates /\ SealedStays(shell[p]) /\ SameCommand(p, shell[p]) /\ k \in Nat
        /\ k \in DOMAIN Program(p) /\ Now(p) = Program(p)[k] /\ Jumps(Program(p))
        /\ Unskipped(Program(p)) => shell[p].missing = {}
    BY <1>1, Underway
  <1>3. Now(p).do \notin Writing \cup {"remove", "options"}
    BY <1>1 DEF Writing
  <1>4. CASE shell' = [shell EXCEPT ![p] = WentOn(p, shell[p], k)]
    BY <1>1, <1>2, <1>3, <1>4, OrdinaryKeeps
  <1>5. CASE shell' = [shell EXCEPT ![p] = WentOn(p, shell[p], m)]
    <2>1. Now(p).of \in Nat /\ m \in DOMAIN Program(p) /\ Program(p)[m].do = "close"
      BY <1>1, <1>2 DEF Jumps
    <2>2. m \in Nat /\ k <= m
      BY <1>2, <2>1
    <2>3. m # k
      BY <1>1, <1>2, <2>1
    <2>4. k < m
      BY <1>2, <2>2, <2>3
    <2> HIDE DEF m
    <2>5. Quiet(p, shell[p], m)
      BY <1>1, <1>2, <1>3, <2>1, <2>4 DEF Quiet
    <2>6. QED
      BY <1>1, <1>2, <1>5, <2>2, <2>5, QuietProcess
  <1>6. QED
    BY <1>4, <1>5 DEF Reuse, Moved

LEMMA EndsBadly ==
  ASSUME CommandInvariant, NEW p \in Shells, Fail(p) \/ Kill(p)
  PROVE  CommandInvariant'
  <1> DEFINE code == IF Fail(p) THEN Now(p).code ELSE KILLED
             c == Program(p)
             k == shell[p].step
  <1>1. /\ Busy(p) /\ file' = file /\ workspace' = workspace
        /\ shell' = [shell EXCEPT ![p] = Ended(shell[p], code, Now(p).do)]
    BY DEF Fail, Kill
  <1>2. /\ shell[p] \in ShellStates /\ k \in DOMAIN c /\ k \in Nat /\ Now(p) = c[k] /\ c[k] \in CommandSteps
        /\ shell[p].at <= Len(shell[p].session) /\ shell[p].touched \subseteq shell[p].wrote /\ TouchedIsLate(p)
        /\ SealedStays(shell[p])
    BY <1>1, Underway
  <1>3. Ordered(c, {2}) /\ (Use(p).command \in LateComputations \/ Ordered(c, {1}))
    BY <1>2, CommandFacts DEF CommandInvariant
  <1>4. Now(p).do \in Failures /\ Now(p).code \in Codes
    BY <1>2 DEF CommandSteps, Failures
  <1>5. code \in Int /\ code # 0 /\ code # -1 /\ (code \in {1, 2} => code = c[k].code)
    BY <1>2, <1>4 DEF Codes, KILLED
  <1> HIDE DEF code
  <1>6. /\ shell'[p] \in ShellStates /\ shell'[p].step = 0 /\ shell'[p].missing = {} /\ shell'[p].code = code
        /\ shell'[p].failed = c[k].do /\ shell'[p].last = shell[p].at /\ shell'[p].session = shell[p].session
        /\ shell'[p].touched = shell[p].touched /\ shell'[p].wrote = shell[p].wrote /\ shell'[p].seen = shell[p].seen
    <2>1. shell'[p] = Ended(shell[p], code, Now(p).do)
      BY <1>1 DEF CommandInvariant, CommandTypeOK
    <2>2. CommandTypeOK
      BY DEF CommandInvariant
    <2>3. QED
      BY <1>2, <1>4, <1>5, <2>1, <2>2, EndedType
  <1>7. ~Busy(p)'
    BY <1>6 DEF Busy
  <1>8. /\ Standing(p)' /\ TouchedIsSound(p)' /\ OpenIsHalf(p)' /\ CreatedIsWritten(p)' /\ TouchedIsLate(p)'
    BY <1>5, <1>6, <1>7 DEF Standing, TouchedIsSound, OpenIsHalf, CreatedIsWritten, TouchedIsLate
  <1>9. SealedIsWhole(p)'
    BY <1>2, <1>6 DEF SealedIsWhole, SealedStays
  <1>10. Command(p)' = Use(p).command
    <2>1. shell[p].at # 0
      BY <1>2 DEF ShellStates
    <2>2. QED
      BY <1>6, <2>1, Zenon DEF Command, Use
  <1>11. RefusalsAreEarly(p)'
    <2>1. shell[p].touched # {} => \E h \in DOMAIN c : h < k /\ c[h].do = "create"
      BY <1>1, <1>2 DEF TouchedIsLate
    <2>2. code = 2 /\ shell[p].touched # {} => c[k].do \in Exports
      BY <1>2, <1>3, <1>5, <2>1 DEF Ordered
    <2>3. code = 1 /\ shell[p].touched # {} => c[k].do \in Exports \/ Use(p).command \in LateComputations
      BY <1>2, <1>3, <1>5, <2>1 DEF Ordered
    <2>4. QED
      BY <1>6, <1>10, <2>2, <2>3 DEF RefusalsAreEarly
  <1>12. ShellInvariant(p)'
    BY <1>2, <1>6, <1>8, <1>9, <1>11 DEF ShellInvariant
  <1>13. /\ shell' \in [Shells -> ShellStates] /\ \A r \in Shells : r # p => shell'[r] = shell[r]
         /\ file' \in [Files -> FileStates] /\ workspace' \in WorkspaceStates
    BY <1>1, <1>6 DEF CommandInvariant, CommandTypeOK, WorkspaceStates
  <1>14. QED
    BY <1>1, <1>6, <1>12, <1>13, ShellStepped

LEMMA StartKeeps ==
  ASSUME CommandInvariant, NEW p \in Shells, Start(p)
  PROVE  CommandInvariant'
  <1>1. CommandTypeOK /\ ShellInvariant(p) /\ shell[p] \in ShellStates
    BY DEF CommandInvariant, CommandTypeOK
  <1>2. ~Busy(p) /\ shell[p].at <= Len(shell[p].session) /\ shell[p].missing = {} /\ file' = file /\ workspace' = workspace
    BY <1>1 DEF Start, ShellInvariant, Standing
  <1>3. shell'[p] \in ShellStates /\ shell' \in [Shells -> ShellStates] /\ \A r \in Shells : r # p => shell'[r] = shell[r]
    <2> DEFINE new == [shell[p] EXCEPT !.step = 1, !.code = -1, !.failed = "", !.touched = {}, !.seen = {}, !.batch = 0]
    <2>1. shell' = [shell EXCEPT ![p] = new]
      BY Zenon DEF Start
    <2>2. new \in ShellStates
      <3> DEFINE none == ""
      <3>1. none \in Failures
        BY Zenon DEF Failures
      <3> HIDE DEF none
      <3>2. [shell[p] EXCEPT !.step = 1, !.code = -1, !.failed = none, !.touched = {}, !.seen = {}, !.batch = 0]
               \in ShellStates
        <4>1. 1 \in Nat /\ -1 \in Int /\ 0 \in Int
          OBVIOUS
        <4>2. {} \in SUBSET Files /\ {} \in SUBSET [how : Reading, state : States]
          OBVIOUS
        <4>3. QED
          BY <1>1, <3>1, <4>1, <4>2 DEF ShellStates
      <3>3. QED
        BY <3>2, Zenon DEF none
    <2> HIDE DEF new
    <2>3. QED
      BY <1>1, <2>1, <2>2 DEF CommandTypeOK
  <1>4. /\ shell'[p].step = 1 /\ shell'[p].code = -1 /\ shell'[p].touched = {} /\ shell'[p].seen = {}
        /\ shell'[p].missing = {} /\ shell'[p].session = shell[p].session /\ shell'[p].at = shell[p].at
        /\ shell'[p].wrote = shell[p].wrote
    <2> DEFINE none == ""
    <2>1. shell' = [shell EXCEPT ![p] = [shell[p] EXCEPT !.step = 1, !.code = -1, !.failed = none,
                                                         !.touched = {}, !.seen = {}, !.batch = 0]]
      BY <1>1, Zenon DEF Start
    <2> HIDE DEF none
    <2>2. QED
      BY <1>1, <1>2, <2>1 DEF CommandTypeOK, ShellStates
  <1>5. Use(p)' = Use(p) /\ Busy(p)'
    BY <1>4 DEF Use, Busy
  <1>6. Program(p)' = Program(p)
    BY <1>5 DEF Program
  <1>7. 1 \in DOMAIN Program(p) /\ \A i \in DOMAIN Program(p) : i \in Nat \ {0}
    BY <1>1, <1>2, CommandFacts DEF Tidy
  <1>8. \A h \in DOMAIN Program(p) : ~(h < 1)
    BY <1>7
  <1>9. Standing(p)' /\ shell'[p].touched \subseteq shell'[p].wrote
    BY <1>2, <1>4, <1>5, <1>6, <1>7 DEF Standing
  <1>10. TouchedIsSound(p)' /\ TouchedIsLate(p)' /\ SealedIsWhole(p)' /\ RefusalsAreEarly(p)'
    <2>1. TouchedIsSound(p)'
      BY <1>4 DEF TouchedIsSound
    <2>2. TouchedIsLate(p)' /\ SealedIsWhole(p)' /\ RefusalsAreEarly(p)'
      BY <1>4 DEF TouchedIsLate, SealedIsWhole, RefusalsAreEarly
    <2>3. QED
      BY <2>1, <2>2
  <1>11. OpenIsHalf(p)'
    BY <1>4, <1>6, <1>8 DEF OpenIsHalf, Within
  <1>12. CreatedIsWritten(p)'
    BY <1>4, <1>6, <1>8 DEF CreatedIsWritten
  <1>13. ShellInvariant(p)'
    BY <1>9, <1>10, <1>11, <1>12 DEF ShellInvariant
  <1>14. file' \in [Files -> FileStates] /\ workspace' \in WorkspaceStates
    BY <1>1, <1>2 DEF CommandTypeOK, WorkspaceStates
  <1>15. QED
    BY <1>2, <1>3, <1>4, <1>13, <1>14, ShellStepped

\* A step that writes to a file is in the block of that file.
LEMMA OwnBlock ==
  ASSUME CommandInvariant, NEW p \in Shells, Busy(p), Now(p).do \in Writing
  PROVE  \E h, j \in DOMAIN Program(p) :
            /\ Block(Program(p), h, j) /\ Target(p, h) = Of(p) /\ Program(p)[h].of \notin shell[p].missing
            /\ Now(p).do = "create" => h = shell[p].step /\ shell[p].step < j
            /\ Now(p).do # "create" => Within(p, h, j)
            /\ Now(p).do = "close" => j = shell[p].step
  <1> DEFINE c == Program(p)
             k == shell[p].step
  <1>1. /\ k \in DOMAIN c /\ k \in Nat /\ c \in Seq(CommandSteps) /\ (\A i \in DOMAIN c : i \in Nat)
        /\ c[k].of \notin shell[p].missing /\ Now(p) = c[k] /\ Of(p) = Target(p, k) /\ Framed(c)
    BY Underway
  <1> HIDE DEF c, k
  <1>2. PICK h \in DOMAIN c, j \in DOMAIN c : h <= k /\ k <= j /\ Block(c, h, j)
    BY <1>1 DEF Framed
  <1>3. c[h].do = "create" /\ c[j].do = "close" /\ c[j].of = c[h].of
    BY <1>2 DEF Block
  <1>4. CASE c[k].do = "create"
    <2>1. k < j /\ ~(h < k)
      <3>1. k < j
        BY <1>1, <1>2, <1>4, Inside
      <3>2. ~(h < k)
        BY <1>1, <1>2, <1>4, <3>1, Inside
      <3>3. QED
        BY <3>1, <3>2
    <2>2. h = k
      BY <1>1, <1>2, <2>1
    <2>3. QED
      BY <1>1, <1>2, <1>4, <2>1, <2>2 DEF c, k
  <1>5. CASE c[k].do = "close"
    <2>1. h < k /\ ~(k < j)
      <3>1. h < k
        BY <1>1, <1>2, <1>5, Inside
      <3>2. ~(k < j)
        BY <1>1, <1>2, <1>5, <3>1, Inside
      <3>3. QED
        BY <3>1, <3>2
    <2>2. j = k
      BY <1>1, <1>2, <2>1
    <2>3. c[h].of = c[k].of /\ Target(p, h) = Of(p)
      BY <1>1, <1>3, <2>2 DEF Target, c, k
    <2>4. Within(p, h, j)
      BY <1>1, <1>2, <2>1, <2>3 DEF Within, c, k
    <2>5. QED
      BY <1>1, <1>2, <1>5, <2>2, <2>3, <2>4 DEF c, k
  <1>6. CASE c[k].do = "rows"
    <2>1. h < k /\ k < j
      BY <1>1, <1>2, <1>6, Inside
    <2>2. c[k].of = c[h].of
      BY <1>1, <1>2, <1>6, <2>1 DEF Block
    <2>3. Target(p, h) = Of(p)
      BY <1>1, <2>2 DEF Target, c, k
    <2>4. Within(p, h, j)
      BY <1>1, <1>2, <2>1, <2>2 DEF Within, c, k
    <2>5. QED
      BY <1>1, <1>2, <1>6, <2>2, <2>3, <2>4 DEF c, k
  <1>7. QED
    BY <1>1, <1>4, <1>5, <1>6 DEF Writing

\* The end of a step that changes files that the process has written.
LEMMA WritingStep ==
  ASSUME CommandInvariant, NEW p \in Shells, Busy(p), NEW process, SameCommand(p, process),
         SealedStays(process), process.touched \subseteq process.wrote, shell[p].wrote \subseteq process.wrote,
         shell' = [shell EXCEPT ![p] = WentOn(p, process, shell[p].step)],
         TouchedStays(p, process, shell[p].step), OpenStays(p, process, shell[p].step),
         CreatedStays(p, process, shell[p].step), LateStays(p, process, shell[p].step),
         file' \in [Files -> FileStates], workspace' = workspace,
         \A f \in Files : file'[f] = file[f] \/ f \in process.wrote
  PROVE  CommandInvariant'
  <1>1. CommandTypeOK /\ ShellInvariant(p) /\ shell[p].step \in Nat
    BY Underway DEF CommandInvariant
  <1>2. ShellInvariant(p)' /\ shell' \in [Shells -> ShellStates] /\ shell'[p].wrote = process.wrote
    BY <1>1, Moving
  <1>3. \A r \in Shells : r # p => shell'[r] = shell[r]
    BY <1>1 DEF CommandTypeOK
  <1>4. workspace' \in WorkspaceStates
    BY <1>1 DEF CommandTypeOK, WorkspaceStates
  <1>5. QED
    BY <1>2, <1>3, <1>4, ShellStepped

LEMMA CreateFileKeeps ==
  ASSUME CommandInvariant, NEW p \in Shells, CreateFile(p)
  PROVE  CommandInvariant'
  <1> DEFINE c == Program(p)
             k == shell[p].step
             f == Of(p)
             process == [shell[p] EXCEPT !.touched = @ \cup {f}, !.wrote = @ \cup {f}]
  <1>1. /\ Busy(p) /\ Now(p).do = "create" /\ workspace' = workspace
        /\ file' = [file EXCEPT ![f] = [state |-> "half", by |-> p, batch |-> 0]]
        /\ shell' = [shell EXCEPT ![p] = WentOn(p, process, k)]
    BY DEF CreateFile, Doing, Moved
  <1>2. Now(p).do \in Writing
    BY <1>1 DEF Writing
  <1>3. /\ shell[p] \in ShellStates /\ k \in DOMAIN c /\ k \in Nat /\ c \in Seq(CommandSteps)
        /\ (\A i \in DOMAIN c : i \in Nat) /\ c[k].of \notin shell[p].missing /\ Now(p) = c[k] /\ f = Target(p, k)
        /\ shell[p].touched \subseteq shell[p].wrote /\ (Unskipped(c) => shell[p].missing = {})
        /\ TouchedIsSound(p) /\ CreatedIsWritten(p) /\ SealedStays(shell[p]) /\ SameCommand(p, shell[p])
    BY <1>1, Underway
  <1>4. f \in Files
    BY <1>1, <1>2, Underway
  <1>5. PICK j \in DOMAIN c : Block(c, k, j) /\ k < j
    BY <1>1, <1>2, OwnBlock
  <1>6. c[k].do = "create" /\ \A h, i \in DOMAIN c : Block(c, h, i) /\ k <= i => ~(h < k)
    <2>1. c[k].do = "create"
      BY <1>1, <1>3
    <2> SUFFICES ASSUME NEW h \in DOMAIN c, NEW i \in DOMAIN c, Block(c, h, i), k <= i, h < k
                 PROVE  FALSE
      BY <2>1
    <2> HIDE DEF c, k
    <2>2. k < i
      BY <1>3, <2>1, Inside
    <2>3. QED
      BY <1>3, <2>1, <2>2, Inside
  <1>7. /\ process \in ShellStates /\ process.session = shell[p].session /\ process.at = shell[p].at
        /\ process.code = shell[p].code /\ process.touched = shell[p].touched \cup {f}
        /\ process.wrote = shell[p].wrote \cup {f} /\ process.missing = shell[p].missing
        /\ process.seen = shell[p].seen
    <2> HIDE DEF f
    <2>1. QED
      BY <1>3, <1>4 DEF ShellStates
  <1>8. /\ file' \in [Files -> FileStates] /\ file'[f].state = "half" /\ file'[f].by = p
        /\ \A g \in Files : g # f => file'[g] = file[g]
    <2> HIDE DEF f
    <2> DEFINE new == [state |-> "half", by |-> p, batch |-> 0]
    <2>1. new \in FileStates /\ new.state = "half" /\ new.by = p
      BY DEF FileStates, States
    <2>2. file \in [Files -> FileStates]
      BY DEF CommandInvariant, CommandTypeOK
    <2>3. file' = [file EXCEPT ![f] = new]
      BY <1>1
    <2> HIDE DEF new
    <2>4. QED
      BY <1>4, <2>1, <2>2, <2>3
  <1> HIDE DEF process, f, c, k
  <1>9. SameCommand(p, process) /\ SealedStays(process) /\ process.touched \subseteq process.wrote
    BY <1>3, <1>7 DEF SameCommand, SealedStays
  <1>10. TouchedStays(p, process, k)
    <2> SUFFICES ASSUME NEW g \in shell[p].touched \cup {f}
                 PROVE  \/ g \in Others(p)
                        \/ file'[g].by = p /\ file'[g].state = "whole"
                        \/ /\ file'[g].by = p /\ file'[g].state = "half"
                           /\ \E h, i \in DOMAIN c : Between(p, process, k, h, i) /\ Target(p, h) = g
      BY <1>7 DEF TouchedStays, c
    <2>1. CASE g = f
      <3>1. k <= k
        BY <1>3
      <3>2. Between(p, process, k, k, j)
        BY <1>3, <1>5, <1>7, <3>1 DEF Between, c
      <3>3. QED
        BY <1>3, <1>8, <2>1, <3>2
    <2>2. CASE g # f
      <3>1. g \in Files /\ g \in shell[p].touched /\ file'[g] = file[g]
        BY <1>3, <1>8, <2>2 DEF ShellStates
      <3>2. \/ g \in Others(p)
            \/ file[g].by = p /\ file[g].state = "whole"
            \/ \E h, i \in DOMAIN c : Within(p, h, i)
        BY <1>1, <1>3, <3>1 DEF TouchedIsSound, c
      <3>3. \A h, i \in DOMAIN c : ~Within(p, h, i)
        BY <1>6 DEF Within, c, k
      <3>4. QED
        BY <3>1, <3>2, <3>3
    <2>3. QED
      BY <2>1, <2>2
  <1>11. OpenStays(p, process, k)
    <2> SUFFICES ASSUME NEW h \in DOMAIN c, NEW i \in DOMAIN c, Between(p, process, k, h, i)
                 PROVE  Target(p, h) \in process.touched /\ file'[Target(p, h)].by = p /\ file'[Target(p, h)].state = "half"
      BY DEF OpenStays, c
    <2>1. Block(c, h, i) /\ h <= k /\ k < i
      BY DEF Between, c
    <2>2. k <= i
      BY <1>3, <2>1
    <2>3. ~(h < k)
      BY <1>6, <2>1, <2>2
    <2>4. h = k
      BY <1>3, <2>1, <2>3
    <2>5. QED
      BY <1>3, <1>7, <1>8, <2>4
  <1>12. CreatedStays(p, process, k)
    <2> SUFFICES ASSUME Unskipped(c), NEW h \in DOMAIN c, h <= k, c[h].do = "create"
                 PROVE  Target(p, h) \in process.wrote
      BY <1>3, <1>7 DEF CreatedStays, c
    <2>1. h < k => Target(p, h) \in shell[p].wrote
      BY <1>1, <1>3 DEF CreatedIsWritten, c, k
    <2>2. h < k \/ h = k
      BY <1>3
    <2>3. QED
      BY <1>3, <1>7, <2>1, <2>2
  <1>13. LateStays(p, process, k)
    <2>1. k <= k
      BY <1>3
    <2>2. QED
      BY <1>3, <1>6, <2>1 DEF LateStays, c
  <1>14. \A g \in Files : file'[g] = file[g] \/ g \in process.wrote
    BY <1>7, <1>8
  <1>15. QED
    BY <1>1, <1>7, <1>8, <1>9, <1>10, <1>11, <1>12, <1>13, <1>14, WritingStep DEF k

\* Rows and close: the process itself stays as it is.
LEMMA ContentKeeps ==
  ASSUME CommandInvariant, NEW p \in Shells, Rows(p) \/ Close(p)
  PROVE  CommandInvariant'
  <1> DEFINE c == Program(p)
             k == shell[p].step
             f == Of(p)
  <1>1. /\ Busy(p) /\ Now(p).do \in {"rows", "close"} /\ workspace' = workspace
        /\ shell' = [shell EXCEPT ![p] = WentOn(p, shell[p], k)]
    BY DEF Rows, Close, Doing, Moved
  <1>2. Now(p).do \in Writing
    BY <1>1 DEF Writing
  <1>3. /\ shell[p] \in ShellStates /\ k \in DOMAIN c /\ k \in Nat /\ c \in Seq(CommandSteps)
        /\ (\A i \in DOMAIN c : i \in Nat) /\ Now(p) = c[k]
        /\ shell[p].touched \subseteq shell[p].wrote /\ (Unskipped(c) => shell[p].missing = {})
        /\ TouchedIsSound(p) /\ OpenIsHalf(p) /\ CreatedIsWritten(p) /\ TouchedIsLate(p)
        /\ SealedStays(shell[p]) /\ SameCommand(p, shell[p])
    BY <1>1, Underway
  <1>4. f \in Files
    BY <1>1, <1>2, Underway
  <1>5. PICK h \in DOMAIN c, j \in DOMAIN c :
           Block(c, h, j) /\ Target(p, h) = f /\ Within(p, h, j) /\ (Now(p).do = "close" => j = k)
    BY <1>1, <1>2, OwnBlock
  <1>6. f \in shell[p].touched /\ (f \in Others(p) \/ (file[f].by = p /\ file[f].state = "half"))
    BY <1>1, <1>3, <1>5 DEF OpenIsHalf
  <1>7. /\ file' \in [Files -> FileStates] /\ \A g \in Files : g # f => file'[g] = file[g]
        /\ f \notin Others(p) => \/ Now(p).do = "rows" /\ file'[f] = file[f]
                                 \/ Now(p).do = "close" /\ file'[f].by = p /\ file'[f].state = "whole"
    <2>1. file \in [Files -> FileStates] /\ shell[p].batch \in Int
      BY <1>3 DEF CommandInvariant, CommandTypeOK, ShellStates
    <2> HIDE DEF f
    <2>2. CASE Rows(p)
      <3> DEFINE new == [file[f] EXCEPT !.state = IF file[f].by = p THEN file[f].state ELSE "mixed"]
      <3>1. file' = [file EXCEPT ![f] = new] /\ Now(p).do = "rows"
        BY <1>4, <2>1, <2>2 DEF Rows, Doing, f
      <3>2. new \in FileStates /\ (file[f].by = p => new = file[f])
        BY <1>4, <2>1 DEF FileStates, States
      <3> HIDE DEF new
      <3>3. QED
        BY <1>4, <1>6, <2>1, <3>1, <3>2
    <2>3. CASE Close(p)
      <3> DEFINE new == [file[f] EXCEPT !.state = IF file[f].by = p /\ file[f].state = "half" THEN "whole" ELSE "mixed",
                                        !.batch = shell[p].batch]
      <3>1. file' = [file EXCEPT ![f] = new] /\ Now(p).do = "close"
        BY <1>4, <2>1, <2>3 DEF Close, Doing, f
      <3>2. new \in FileStates /\ (file[f].by = p /\ file[f].state = "half" => new.by = p /\ new.state = "whole")
        BY <1>4, <2>1 DEF FileStates, States
      <3> HIDE DEF new
      <3>3. QED
        BY <1>4, <1>6, <2>1, <3>1, <3>2
    <2>4. QED
      BY <2>2, <2>3
  <1> HIDE DEF c, k, f
  <1>8. c[k].do # "create"
    BY <1>1, <1>3
  \* The block around the step is the one block around it.
  <1>9. ASSUME NEW a \in DOMAIN c, NEW b \in DOMAIN c, Block(c, a, b), a < k, k <= b
        PROVE  \/ c[k].do = "rows" /\ k < b
               \/ c[k].do = "close" /\ ~(k < b) /\ Target(p, a) = f
    <2>1. CASE c[k].do = "rows"
      BY <1>3, <1>9, <2>1, Inside
    <2>2. CASE c[k].do = "close"
      <3>1. ~(k < b)
        BY <1>3, <1>9, <2>2, Inside
      <3>2. b = k /\ j = k
        BY <1>1, <1>3, <1>5, <1>9, <2>2, <3>1
      <3>3. c[a].of = c[k].of /\ c[h].of = c[k].of
        BY <1>5, <1>9, <3>2 DEF Block
      <3>4. Target(p, a) = f
        BY <1>5, <3>3 DEF Target, c
      <3>5. QED
        BY <2>2, <3>1, <3>4
    <2>3. QED
      BY <1>1, <1>3, <2>1, <2>2
  <1>10. TouchedStays(p, shell[p], k)
    <2> SUFFICES ASSUME NEW g \in shell[p].touched, g \notin Others(p)
                 PROVE  \/ file'[g].by = p /\ file'[g].state = "whole"
                        \/ /\ file'[g].by = p /\ file'[g].state = "half"
                           /\ \E a, b \in DOMAIN c : Between(p, shell[p], k, a, b) /\ Target(p, a) = g
      BY DEF TouchedStays, c
    <2>1. CASE g = f /\ Now(p).do = "close"
      BY <1>7, <2>1
    <2>2. CASE ~(g = f /\ Now(p).do = "close")
      <3>1. g \in Files /\ file'[g] = file[g]
        BY <1>1, <1>3, <1>7, <2>2 DEF ShellStates
      <3>2. \/ file[g].by = p /\ file[g].state = "whole"
            \/ /\ file[g].by = p /\ file[g].state = "half"
               /\ \E a, b \in DOMAIN c : Within(p, a, b) /\ Target(p, a) = g
        BY <1>1, <1>3 DEF TouchedIsSound, c
      <3>3. ASSUME NEW a \in DOMAIN c, NEW b \in DOMAIN c, Within(p, a, b), Target(p, a) = g
            PROVE  Between(p, shell[p], k, a, b)
        <4>1. Block(c, a, b) /\ a < k /\ k <= b /\ c[a].of \notin shell[p].missing
          BY <3>3 DEF Within, c, k
        <4>2. k < b
          BY <1>3, <1>9, <2>2, <3>3, <4>1
        <4>3. a <= k
          BY <1>3, <4>1
        <4>4. QED
          BY <4>1, <4>2, <4>3 DEF Between, c
      <3>4. QED
        BY <3>1, <3>2, <3>3
    <2>3. QED
      BY <2>1, <2>2
  <1>11. OpenStays(p, shell[p], k)
    <2> SUFFICES ASSUME NEW a \in DOMAIN c, NEW b \in DOMAIN c, Between(p, shell[p], k, a, b)
                 PROVE  /\ Target(p, a) \in shell[p].touched
                        /\ Target(p, a) \in Others(p) \/ (file'[Target(p, a)].by = p /\ file'[Target(p, a)].state = "half")
      BY DEF OpenStays, c
    <2>1. Block(c, a, b) /\ a <= k /\ k < b /\ c[a].of \notin shell[p].missing
      BY DEF Between, c
    <2>2. a < k
      BY <1>3, <1>8, <2>1, Inside
    <2>3. k <= b
      BY <1>3, <2>1
    <2>4. Within(p, a, b)
      BY <2>1, <2>2, <2>3 DEF Within, c, k
    <2>5. c[k].do = "rows"
      BY <1>9, <2>1, <2>2, <2>3
    <2>6. /\ Target(p, a) \in shell[p].touched
          /\ Target(p, a) \in Others(p) \/ (file[Target(p, a)].by = p /\ file[Target(p, a)].state = "half")
      BY <1>1, <1>3, <2>4 DEF OpenIsHalf, c
    <2>7. Target(p, a) \notin Others(p) => file'[Target(p, a)] = file[Target(p, a)]
      <3>1. shell[p].touched \subseteq Files
        BY <1>3 DEF ShellStates
      <3>2. QED
        BY <1>3, <1>7, <2>5, <2>6, <3>1
    <2>8. QED
      BY <2>6, <2>7
  <1>12. CreatedStays(p, shell[p], k)
    <2> SUFFICES ASSUME Unskipped(c), NEW a \in DOMAIN c, a <= k, c[a].do = "create"
                 PROVE  Target(p, a) \in shell[p].wrote
      BY <1>3 DEF CreatedStays, c
    <2>1. a < k
      BY <1>3, <1>8
    <2>2. QED
      BY <1>1, <1>3, <2>1 DEF CreatedIsWritten, c, k
  <1>13. LateStays(p, shell[p], k)
    <2> SUFFICES ASSUME shell[p].touched # {}
                 PROVE  \E a \in DOMAIN c : a <= k /\ c[a].do = "create"
      BY DEF LateStays, c
    <2>1. PICK a \in DOMAIN c : a < k /\ c[a].do = "create"
      BY <1>1, <1>3 DEF TouchedIsLate, c, k
    <2>2. a <= k
      BY <1>3, <2>1
    <2>3. QED
      BY <2>1, <2>2
  <1>14. \A g \in Files : file'[g] = file[g] \/ g \in shell[p].wrote
    BY <1>3, <1>6, <1>7
  <1>15. QED
    BY <1>1, <1>3, <1>7, <1>10, <1>11, <1>12, <1>13, <1>14, WritingStep DEF k

LEMMA RemoveFilesKeeps ==
  ASSUME CommandInvariant, NEW p \in Shells, RemoveFiles(p)
  PROVE  CommandInvariant'
  <1> DEFINE c == Program(p)
             k == shell[p].step
             all == {Use(p).bind[role] : role \in Now(p).of}
  <1>1. PICK removed \in {{}, all} :
          /\ file' = [f \in Files |-> IF f \in removed THEN [file[f] EXCEPT !.state = "none"] ELSE file[f]]
          /\ shell' = [shell EXCEPT ![p] = WentOn(p, [shell[p] EXCEPT !.touched = @ \ removed], k)]
    BY DEF RemoveFiles, Moved
  <1> DEFINE process == [shell[p] EXCEPT !.touched = @ \ removed]
  <1>2. Busy(p) /\ Now(p).do = "remove" /\ workspace' = workspace
    BY DEF RemoveFiles, Doing
  <1>3. /\ shell[p] \in ShellStates /\ k \in DOMAIN c /\ k \in Nat /\ c \in Seq(CommandSteps)
        /\ (\A i \in DOMAIN c : i \in Nat) /\ Now(p) = c[k] /\ Removes(c) /\ (Kept(c) \/ Unskipped(c))
        /\ shell[p].touched \subseteq shell[p].wrote /\ (Unskipped(c) => shell[p].missing = {})
        /\ TouchedIsSound(p) /\ OpenIsHalf(p) /\ CreatedIsWritten(p) /\ TouchedIsLate(p)
        /\ SealedStays(shell[p]) /\ SameCommand(p, shell[p])
    BY <1>2, Underway
  <1>4. c[k].do = "remove" /\ Unskipped(c)
    BY <1>2, <1>3 DEF Kept
  <1>5. removed \subseteq shell[p].wrote
    <2>1. ASSUME NEW role \in Now(p).of PROVE Use(p).bind[role] \in shell[p].wrote
      <3>1. PICK h \in DOMAIN c : h < k /\ c[h].do = "create" /\ c[h].of = role
        BY <1>3, <1>4 DEF Removes
      <3>2. Target(p, h) \in shell[p].wrote
        BY <1>2, <1>3, <1>4, <3>1 DEF CreatedIsWritten
      <3>3. QED
        BY <3>1, <3>2 DEF Target
    <2>2. all \subseteq shell[p].wrote
      BY <2>1
    <2>3. QED
      BY <2>2
  <1>6. file' \in [Files -> FileStates] /\ \A f \in Files : f \notin removed => file'[f] = file[f]
    <2>1. file \in [Files -> FileStates]
      BY DEF CommandInvariant, CommandTypeOK
    <2>2. \A f \in Files : [file[f] EXCEPT !.state = "none"] \in FileStates
      BY <2>1 DEF FileStates, States
    <2>3. QED
      BY <1>1, <2>1, <2>2
  <1>7. /\ process \in ShellStates /\ process.session = shell[p].session /\ process.at = shell[p].at
        /\ process.code = shell[p].code /\ process.touched = shell[p].touched \ removed
        /\ process.wrote = shell[p].wrote /\ process.missing = shell[p].missing /\ process.seen = shell[p].seen
    BY <1>3 DEF ShellStates
  <1>8. shell' = [shell EXCEPT ![p] = WentOn(p, process, k)]
    BY <1>1
  <1> HIDE DEF process, c, k, all
  <1>9. \A h, j \in DOMAIN c : ~(Block(c, h, j) /\ h <= k /\ k <= j)
    <2> SUFFICES ASSUME NEW h \in DOMAIN c, NEW j \in DOMAIN c, Block(c, h, j), h <= k, k <= j
                 PROVE  FALSE
      OBVIOUS
    <2>1. h < k /\ k < j
      BY <1>3, <1>4, Inside
    <2>2. QED
      BY <1>3, <1>4, <2>1, Inside
  <1>10. SameCommand(p, process) /\ SealedStays(process) /\ process.touched \subseteq process.wrote
    BY <1>3, <1>7 DEF SameCommand, SealedStays
  <1>11. TouchedStays(p, process, k)
    <2> SUFFICES ASSUME NEW g \in shell[p].touched, g \notin removed, g \notin Others(p)
                 PROVE  file'[g].by = p /\ file'[g].state = "whole"
      BY <1>7 DEF TouchedStays
    <2>1. g \in Files /\ file'[g] = file[g]
      BY <1>3, <1>6 DEF ShellStates
    <2>2. \/ file[g].by = p /\ file[g].state = "whole"
          \/ \E h, j \in DOMAIN c : Within(p, h, j)
      BY <1>2, <1>3 DEF TouchedIsSound, c
    <2>3. \A h, j \in DOMAIN c : ~Within(p, h, j)
      <3> SUFFICES ASSUME NEW h \in DOMAIN c, NEW j \in DOMAIN c, Within(p, h, j)
                   PROVE  FALSE
        OBVIOUS
      <3>1. Block(c, h, j) /\ h < k /\ k <= j
        BY DEF Within, c, k
      <3>2. h <= k
        BY <1>3, <3>1
      <3>3. QED
        BY <1>9, <3>1, <3>2
    <2>4. QED
      BY <2>1, <2>2, <2>3
  <1>12. OpenStays(p, process, k)
    <2>1. \A h, j \in DOMAIN c : ~Between(p, process, k, h, j)
      <3> SUFFICES ASSUME NEW h \in DOMAIN c, NEW j \in DOMAIN c, Between(p, process, k, h, j)
                   PROVE  FALSE
        OBVIOUS
      <3>1. Block(c, h, j) /\ h <= k /\ k < j
        BY DEF Between, c
      <3>2. k <= j
        BY <1>3, <3>1
      <3>3. QED
        BY <1>9, <3>1, <3>2
    <2>2. QED
      BY <2>1 DEF OpenStays, c
  <1>13. CreatedStays(p, process, k)
    <2> SUFFICES ASSUME Unskipped(c), NEW h \in DOMAIN c, h <= k, c[h].do = "create"
                 PROVE  Target(p, h) \in shell[p].wrote
      BY <1>3, <1>7 DEF CreatedStays, c
    <2>1. h < k
      BY <1>3, <1>4
    <2>2. QED
      BY <1>2, <1>3, <2>1 DEF CreatedIsWritten, c, k
  <1>14. LateStays(p, process, k)
    <2> SUFFICES ASSUME shell[p].touched # {}
                 PROVE  \E h \in DOMAIN c : h <= k /\ c[h].do = "create"
      BY <1>7 DEF LateStays, c
    <2>1. PICK h \in DOMAIN c : h < k /\ c[h].do = "create"
      BY <1>2, <1>3 DEF TouchedIsLate, c, k
    <2>2. h <= k
      BY <1>3, <2>1
    <2>3. QED
      BY <2>1, <2>2
  <1>15. \A f \in Files : file'[f] = file[f] \/ f \in process.wrote
    BY <1>5, <1>6, <1>7
  <1>16. QED
    BY <1>2, <1>6, <1>7, <1>8, <1>10, <1>11, <1>12, <1>13, <1>14, <1>15, WritingStep DEF k

-----------------------------------------------------------------------------
LEMMA CommandInitially == CommandInit => CommandInvariant
  <1> SUFFICES ASSUME CommandInit
               PROVE  CommandInvariant
    OBVIOUS
  <1> USE CommandAssumption
  <1>1. PICK given \in CommandSessions, none \in Failures :
          shell = [p \in Shells |->
                     [session |-> given[p], at |-> 1, step |-> 0, missing |-> {}, code |-> -1, failed |-> none,
                      last |-> 0, faults |-> 0, touched |-> {}, wrote |-> {}, seen |-> {}, batch |-> 0]]
    <2>1. \E none \in Failures : none = ""
      BY Zenon DEF Failures
    <2>2. PICK none \in Failures : none = ""
      BY <2>1
    <2>3. QED
      BY <2>2, Zenon DEF CommandInit
  <1>2. given \in [Shells -> Seq(Uses)]
    BY <1>1 DEF CommandAssumption
  <1>3. shell \in [Shells -> ShellStates]
    <2>1. -1 \in Int /\ 0 \in Int /\ 0 \in Nat /\ 1 \in Nat \ {0}
      OBVIOUS
    <2>2. {} \in SUBSET Names /\ {} \in SUBSET Files /\ {} \in SUBSET [how : Reading, state : States]
      OBVIOUS
    <2>3. \A p \in Shells : given[p] \in Seq(Uses)
      BY <1>2
    <2>4. QED
      BY <1>1, <2>1, <2>2, <2>3 DEF ShellStates
  <1>4. file \in [Files -> FileStates]
    <2>1. \A f \in Files : Initially[f].state \in {"none", "whole"} /\ Initially[f].batch \in Int
      BY DEF CommandAssumption
    <2>2. \A f \in Files : [state |-> Initially[f].state, by |-> "user", batch |-> Initially[f].batch] \in FileStates
      BY <2>1 DEF FileStates, States
    <2>3. QED
      BY <2>2 DEF CommandInit
  <1>5. workspace \in [exists : BOOLEAN, issued : Nat, committed : SUBSET Int]
    <2>1. PICK exists \in BOOLEAN : workspace = [exists |-> exists, issued |-> 0, committed |-> {}]
      BY Zenon DEF CommandInit
    <2>2. QED
      BY <2>1
  <1>6. ASSUME NEW p \in Shells PROVE ShellInvariant(p)
    <2>1. /\ shell[p].step = 0 /\ shell[p].missing = {} /\ shell[p].code = -1 /\ shell[p].touched = {}
          /\ shell[p].seen = {} /\ shell[p].wrote = {}
      BY <1>1
    <2>2. ~Busy(p)
      BY <2>1 DEF Busy
    <2>3. Standing(p) /\ TouchedIsSound(p) /\ OpenIsHalf(p) /\ CreatedIsWritten(p) /\ TouchedIsLate(p)
      BY <2>1, <2>2 DEF Standing, TouchedIsSound, OpenIsHalf, CreatedIsWritten, TouchedIsLate
    <2>4. SealedIsWhole(p) /\ RefusalsAreEarly(p)
      BY <2>1 DEF SealedIsWhole, RefusalsAreEarly
    <2>5. QED
      BY <2>1, <2>3, <2>4 DEF ShellInvariant
  <1>7. QED
    BY <1>3, <1>4, <1>5, <1>6 DEF CommandInvariant, CommandTypeOK

LEMMA CommandStays == CommandInvariant /\ [CommandNext]_commandVars => CommandInvariant'
  <1> SUFFICES ASSUME CommandInvariant, [CommandNext]_commandVars
               PROVE  CommandInvariant'
    OBVIOUS
  <1>1. CASE UNCHANGED commandVars
    <2>1. file' = file /\ shell' = shell /\ workspace' = workspace
      BY <1>1 DEF commandVars
    <2>2. CommandTypeOK'
      BY <2>1 DEF CommandInvariant, CommandTypeOK
    <2>3. ASSUME NEW p \in Shells PROVE ShellInvariant(p)'
      <3>1. ShellInvariant(p)
        BY DEF CommandInvariant
      <3>2. /\ Busy(p)' = Busy(p) /\ Use(p)' = Use(p) /\ Others(p)' = Others(p) /\ Command(p)' = Command(p)
        BY <2>1, Zenon DEF Busy, Use, Others, Command
      <3>3. Program(p)' = Program(p)
        BY <3>2 DEF Program
      <3>4. (\A h : Target(p, h)' = Target(p, h)) /\ (\A h, j : Within(p, h, j)' = Within(p, h, j))
        BY <2>1, <3>2, <3>3 DEF Target, Within
      <3>5. Standing(p)' /\ TouchedIsLate(p)' /\ SealedIsWhole(p)' /\ RefusalsAreEarly(p)'
        BY <2>1, <3>1, <3>2, <3>3 DEF ShellInvariant, Standing, TouchedIsLate, SealedIsWhole, RefusalsAreEarly
      <3>6. TouchedIsSound(p)' /\ OpenIsHalf(p)' /\ CreatedIsWritten(p)'
        BY <2>1, <3>1, <3>2, <3>3, <3>4 DEF ShellInvariant, TouchedIsSound, OpenIsHalf, CreatedIsWritten
      <3>7. QED
        BY <2>1, <3>1, <3>5, <3>6 DEF ShellInvariant
    <2>4. QED
      BY <2>2, <2>3 DEF CommandInvariant
  <1>2. ASSUME NEW p \in Shells, Start(p) PROVE CommandInvariant'
    BY <1>2, StartKeeps
  <1>3. ASSUME NEW p \in Shells, Fail(p) \/ Kill(p) PROVE CommandInvariant'
    BY <1>3, EndsBadly
  <1>4. ASSUME NEW p \in Shells, GiveOptions(p) PROVE CommandInvariant'
    BY <1>4, GiveOptionsKeeps
  <1>5. ASSUME NEW p \in Shells, Plain(p) \/ OpenWorkspace(p) \/ InitWorkspace(p) \/ AcceptBatch(p)
        PROVE  CommandInvariant'
    BY <1>5, PlainKeeps
  <1>6. ASSUME NEW p \in Shells, Read(p) PROVE CommandInvariant'
    BY <1>6, ReadKeeps
  <1>7. ASSUME NEW p \in Shells, Reuse(p) PROVE CommandInvariant'
    BY <1>7, ReuseKeeps
  <1>8. ASSUME NEW p \in Shells, RemoveFiles(p) PROVE CommandInvariant'
    BY <1>8, RemoveFilesKeeps
  <1>9. ASSUME NEW p \in Shells, CreateFile(p) PROVE CommandInvariant'
    BY <1>9, CreateFileKeeps
  <1>10. ASSUME NEW p \in Shells, Rows(p) \/ Close(p) PROVE CommandInvariant'
    BY <1>10, ContentKeeps
  <1>11. ASSUME NEW p \in Shells, HandOutBatch(p) PROVE CommandInvariant'
    BY <1>11, HandOutBatchKeeps
  <1>12. CASE SessionsEnded
    BY <1>1, <1>12 DEF SessionsEnded
  <1>13. QED
    BY <1>1, <1>2, <1>3, <1>4, <1>5, <1>6, <1>7, <1>8, <1>9, <1>10, <1>11, <1>12 DEF CommandNext

\* What the steps of a process have done to its files, at every moment: the invariant
\* the two theorems about the command line follow from.
THEOREM CommandInvariantHolds == CommandSpec => []CommandInvariant
  <1>1. QED
    BY CommandInitially, CommandStays, PTL DEF CommandSpec

\* Whatever else runs, is killed or failed before, a command that exits with 0 has
\* written whole every file it opened that no other process wrote to, and what it
\* took for a sealed document was whole when it read it.
THEOREM FilesAreWhole == CommandSpec => []SuccessIsWhole
  <1>1. CommandInvariant => SuccessIsWhole
    <2> SUFFICES ASSUME CommandInvariant, NEW p \in Shells, shell[p].code = 0
                 PROVE  /\ \A f \in shell[p].touched : file[f].state = "whole" \/ f \in Others(p)
                        /\ \A r \in shell[p].seen : r.how = "read sealed" => r.state = "whole"
      BY DEF SuccessIsWhole
    <2>1. ShellInvariant(p)
      BY DEF CommandInvariant
    <2>2. ~Busy(p)
      BY <2>1 DEF ShellInvariant, Standing
    <2>3. \A f \in shell[p].touched : file[f].state = "whole" \/ f \in Others(p)
      BY <2>1, <2>2 DEF ShellInvariant, TouchedIsSound
    <2>4. QED
      BY <2>1, <2>3 DEF ShellInvariant, SealedIsWhole
  <1>2. QED
    BY <1>1, CommandInvariantHolds, PTL

\* A command refused for its options, its inputs or its computation has touched no
\* file, except where the code computes after it has begun to write: the grid's
\* second export, the report, and the files of the Radiance programs.
THEOREM RefusalsLeaveFiles == CommandSpec => []RefusalsTouchNothing
  <1>1. CommandInvariant => RefusalsTouchNothing
    BY DEF CommandInvariant, ShellInvariant, RefusalsAreEarly, RefusalsTouchNothing, LateComputations
  <1>2. QED
    BY <1>1, CommandInvariantHolds, PTL

-----------------------------------------------------------------------------
(* The steps of an annual Radiance run, one after the other.                 *)

\* A sequence within another, from some place on.
Lies(t, c, at) ==
  /\ c \in Seq(CommandSteps) /\ at \in Nat /\ at + Len(t) <= Len(c) /\ t \in Seq(CommandSteps)
  /\ \A i \in 1..Len(t) : c[at + i] = t[i]

LEMMA LiesInside ==
  ASSUME NEW s, NEW c, NEW t, NEW at, NEW from, Lies(s, c, at), Lies(t, s, from)
  PROVE  Lies(t, c, at + from)
  <1>1. /\ c \in Seq(CommandSteps) /\ s \in Seq(CommandSteps) /\ t \in Seq(CommandSteps)
        /\ at \in Nat /\ from \in Nat /\ at + Len(s) <= Len(c) /\ from + Len(t) <= Len(s)
        /\ \A i \in 1..Len(s) : c[at + i] = s[i]
        /\ \A i \in 1..Len(t) : s[from + i] = t[i]
    BY DEF Lies
  <1>2. Len(s) \in Nat /\ Len(c) \in Nat /\ Len(t) \in Nat
    BY <1>1
  <1>3. at + from \in Nat /\ (at + from) + Len(t) <= Len(c)
    BY <1>1, <1>2
  <1>4. ASSUME NEW i \in 1..Len(t) PROVE c[(at + from) + i] = t[i]
    <2>1. from + i \in 1..Len(s) /\ at + (from + i) = (at + from) + i
      BY <1>1, <1>2
    <2>2. QED
      BY <1>1, <1>4, <2>1
  <1>5. QED
    BY <1>1, <1>3, <1>4 DEF Lies

LEMMA LiesJoined ==
  ASSUME NEW s \in Seq(CommandSteps), NEW t \in Seq(CommandSteps)
  PROVE  Lies(s, s \o t, 0) /\ Lies(t, s \o t, Len(s)) /\ Len(s \o t) = Len(s) + Len(t)
  <1>1. /\ s \o t \in Seq(CommandSteps) /\ Len(s) \in Nat /\ Len(t) \in Nat /\ Len(s \o t) = Len(s) + Len(t)
        /\ \A i \in 1..Len(s) : (s \o t)[i] = s[i]
        /\ \A i \in 1..Len(t) : (s \o t)[Len(s) + i] = t[i]
    OBVIOUS
  <1>2. \A i \in 1..Len(s) : 0 + i = i
    BY <1>1
  <1>3. QED
    BY <1>1, <1>2 DEF Lies

\* A sequence of so many steps, and a step at some place.
Sized(t, n) == t \in Seq(CommandSteps) /\ Len(t) = n /\ n \in Nat
Does(c, i, do) == i \in DOMAIN c /\ c[i].do = do
StepAt(c, i, do, of) == i \in DOMAIN c /\ c[i].do = do /\ c[i].of = of

\* Two parts, of known sizes, of which the first lies at some place.
LEMMA Split ==
  ASSUME NEW s, NEW t, NEW m, NEW n, Sized(s, m), Sized(t, n)
  PROVE  /\ Sized(s \o t, m + n)
         /\ \A c, at : Lies(s \o t, c, at) => at \in Nat /\ Lies(s, c, at) /\ Lies(t, c, at + m)
  <1>1. s \in Seq(CommandSteps) /\ t \in Seq(CommandSteps) /\ Len(s) = m /\ Len(t) = n /\ m \in Nat /\ n \in Nat
    BY DEF Sized
  <1>2. /\ s \o t \in Seq(CommandSteps) /\ Len(s \o t) = m + n
        /\ Lies(s, s \o t, 0) /\ Lies(t, s \o t, m)
    <2>1. s \o t \in Seq(CommandSteps)
      BY <1>1
    <2>2. QED
      BY <1>1, <2>1, LiesJoined
  <1>3. m + n \in Nat
    BY <1>1
  <1>4. ASSUME NEW c, NEW at, Lies(s \o t, c, at)
        PROVE  at \in Nat /\ Lies(s, c, at) /\ Lies(t, c, at + m)
    <2>1. at \in Nat
      BY <1>4 DEF Lies
    <2>2. Lies(s, c, at + 0)
      BY <1>2, <1>4, LiesInside
    <2>3. Lies(t, c, at + m)
      BY <1>2, <1>4, LiesInside
    <2>4. at + 0 = at
      BY <2>1
    <2>5. QED
      BY <2>1, <2>2, <2>3, <2>4
  <1>5. QED
    BY <1>2, <1>3, <1>4 DEF Sized

\* A sequence made of two parts.
Spliced(w, s, t, m, l) ==
  Sized(w, l) /\ \A c, at : Lies(w, c, at) => at \in Nat /\ Lies(s, c, at) /\ Lies(t, c, at + m)
LEMMA Splicing ==
  ASSUME NEW s, NEW t, NEW m, NEW n, NEW l, Sized(s, m), Sized(t, n), l = m + n
  PROVE  Spliced(s \o t, s, t, m, l)
  BY Split DEF Spliced

LEMMA Single ==
  ASSUME NEW do \in Deeds, NEW of \in Names \cup Nat \cup SUBSET Names, NEW code \in Codes
  PROVE  /\ Sized(<<Step(do, of, code)>>, 1)
         /\ \A c, at : Lies(<<Step(do, of, code)>>, c, at) => at \in Nat /\ StepAt(c, at + 1, do, of)
  <1> DEFINE a == Step(do, of, code)
             t == <<a>>
  <1>1. a \in CommandSteps /\ a.do = do /\ a.of = of
    BY DEF CommandSteps, Step
  <1> HIDE DEF a
  <1>2. t \in Seq(CommandSteps) /\ Len(t) = 1 /\ t[1] = a
    BY <1>1
  <1> HIDE DEF t
  <1>3. ASSUME NEW c, NEW at, Lies(t, c, at)
        PROVE  at \in Nat /\ StepAt(c, at + 1, do, of)
    <2>1. at \in Nat /\ c \in Seq(CommandSteps) /\ at + 1 <= Len(c) /\ c[at + 1] = t[1]
      BY <1>2, <1>3 DEF Lies
    <2>2. at + 1 \in DOMAIN c
      BY <2>1
    <2>3. QED
      BY <1>1, <1>2, <2>1, <2>2 DEF StepAt
  <1>4. Sized(t, 1)
    BY <1>2 DEF Sized
  <1>5. QED
    BY <1>3, <1>4 DEF t, a

\* A sequence of one step.
OneStep(t, do, of) == Sized(t, 1) /\ \A c, at : Lies(t, c, at) => at \in Nat /\ StepAt(c, at + 1, do, of)
LEMMA SingleStep ==
  ASSUME NEW do \in Deeds, NEW of \in Names \cup Nat \cup SUBSET Names, NEW code \in Codes
  PROVE  OneStep(<<Step(do, of, code)>>, do, of)
  BY Single DEF OneStep

LEMMA Singles ==
  /\ \A t \in {Refusal, Computation} :
        Sized(t, 1) /\ \A c, at : Lies(t, c, at) => at \in Nat /\ Does(c, at + 1, "compute")
  /\ Sized(ToStdout, 1) /\ \A c, at : Lies(ToStdout, c, at) => at \in Nat /\ Does(c, at + 1, "print")
  /\ /\ Sized(MakeDirectory(1), 1)
     /\ \A c, at : Lies(MakeDirectory(1), c, at) => at \in Nat /\ Does(c, at + 1, "directory")
  /\ Sized(Options({}), 1) /\ \A c, at : Lies(Options({}), c, at) => at \in Nat /\ StepAt(c, at + 1, "options", {})
  /\ \A role \in Roles :
        /\ Sized(ReadLines(role, 1), 1) /\ Sized(ReadJson(role, 1), 1) /\ Sized(ReadTool(role, 1), 1)
        /\ Sized(Opened(role, 1), 1)
        /\ \A c, at :
              /\ Lies(ReadLines(role, 1), c, at) => StepAt(c, at + 1, "read lines", role)
              /\ Lies(ReadJson(role, 1), c, at) => StepAt(c, at + 1, "read json", role)
              /\ Lies(ReadTool(role, 1), c, at) => StepAt(c, at + 1, "read tool", role)
              /\ Lies(Opened(role, 1), c, at) => at \in Nat /\ StepAt(c, at + 1, "create", role)
  <1>1. {"compute", "print", "directory", "options", "read lines", "read json", "read tool", "create"} \subseteq Deeds
    BY DEF Deeds, Writing, Reading
  <1>2. 1 \in Codes /\ 2 \in Codes /\ 101 \in Codes
    BY DEF Codes
  <1>3. {} \in Names \cup Nat \cup SUBSET Names /\ \A role \in Roles : role \in Names \cup Nat \cup SUBSET Names
    BY DEF Names
  <1>4. PICK none \in Names \cup Nat \cup SUBSET Names : none = ""
    <2>1. "" \in Names
      BY Zenon DEF Names
    <2>2. QED
      BY <2>1, Zenon
  <1>5. \A c, i, do, of : StepAt(c, i, do, of) => Does(c, i, do)
    BY DEF StepAt, Does
  <1>6. /\ Refusal = <<Step("compute", none, 2)>> /\ Computation = <<Step("compute", none, 1)>>
        /\ ToStdout = <<Step("print", none, 101)>> /\ MakeDirectory(1) = <<Step("directory", none, 1)>>
    BY <1>4, Zenon DEF Refusal, Computation, ToStdout, MakeDirectory
  <1>7. /\ Sized(Refusal, 1) /\ \A c, at : Lies(Refusal, c, at) => at \in Nat /\ Does(c, at + 1, "compute")
        /\ Sized(Computation, 1) /\ \A c, at : Lies(Computation, c, at) => at \in Nat /\ Does(c, at + 1, "compute")
    <2>1. OneStep(<<Step("compute", none, 2)>>, "compute", none) /\ OneStep(<<Step("compute", none, 1)>>, "compute", none)
      BY ONLY <1>1, <1>2, <1>4, SingleStep
    <2>2. OneStep(Refusal, "compute", none) /\ OneStep(Computation, "compute", none)
      BY ONLY <1>6, <2>1
    <2>3. QED
      BY ONLY <1>5, <2>2 DEF OneStep
  <1>8. /\ Sized(ToStdout, 1) /\ \A c, at : Lies(ToStdout, c, at) => at \in Nat /\ Does(c, at + 1, "print")
        /\ Sized(MakeDirectory(1), 1)
        /\ \A c, at : Lies(MakeDirectory(1), c, at) => at \in Nat /\ Does(c, at + 1, "directory")
    <2>1. OneStep(<<Step("print", none, 101)>>, "print", none) /\ OneStep(<<Step("directory", none, 1)>>, "directory", none)
      BY ONLY <1>1, <1>2, <1>4, SingleStep
    <2>2. OneStep(ToStdout, "print", none) /\ OneStep(MakeDirectory(1), "directory", none)
      BY ONLY <1>6, <2>1
    <2>3. QED
      BY ONLY <1>5, <2>2 DEF OneStep
  <1>9. Sized(Options({}), 1) /\ \A c, at : Lies(Options({}), c, at) => at \in Nat /\ StepAt(c, at + 1, "options", {})
    BY <1>1, <1>2, <1>3, Single DEF Options
  <1>10. ASSUME NEW role \in Roles
         PROVE  /\ Sized(ReadLines(role, 1), 1) /\ Sized(ReadJson(role, 1), 1) /\ Sized(ReadTool(role, 1), 1)
                /\ Sized(Opened(role, 1), 1)
                /\ \A c, at :
                      /\ Lies(ReadLines(role, 1), c, at) => StepAt(c, at + 1, "read lines", role)
                      /\ Lies(ReadJson(role, 1), c, at) => StepAt(c, at + 1, "read json", role)
                      /\ Lies(ReadTool(role, 1), c, at) => StepAt(c, at + 1, "read tool", role)
                      /\ Lies(Opened(role, 1), c, at) => at \in Nat /\ StepAt(c, at + 1, "create", role)
    BY <1>1, <1>2, <1>3, Single DEF ReadLines, ReadJson, ReadTool, Opened
  <1>11. QED
    BY <1>7, <1>8, <1>9, <1>10

\* A file written at once, and one that an external program writes.
LEMMA Texts ==
  ASSUME NEW role \in Roles
  PROVE  /\ Sized(write_text(role), 2)
         /\ \A c, at : Lies(write_text(role), c, at) =>
               at \in Nat /\ StepAt(c, at + 1, "create", role) /\ StepAt(c, at + 2, "close", role)
  <1> DEFINE last == <<Step("close", role, 1)>>
  <1>1. /\ Sized(last, 1) /\ \A c, at : Lies(last, c, at) => at \in Nat /\ StepAt(c, at + 1, "close", role)
    BY Single DEF Deeds, Writing, Codes, Names
  <1> HIDE DEF last
  <1>2. write_text(role) = Opened(role, 1) \o last
    BY DEF write_text, WriteFile, last
  <1>3. Sized(Opened(role, 1) \o last, 1 + 1)
    BY <1>1, Singles, Split
  <1>4. ASSUME NEW c, NEW at, Lies(Opened(role, 1) \o last, c, at)
        PROVE  at \in Nat /\ StepAt(c, at + 1, "create", role) /\ StepAt(c, at + 2, "close", role)
    <2>1. at \in Nat /\ Lies(Opened(role, 1), c, at) /\ Lies(last, c, at + 1)
      BY <1>1, <1>4, Singles, Split
    <2>2. StepAt(c, at + 1, "create", role) /\ StepAt(c, (at + 1) + 1, "close", role)
      BY <1>1, <2>1, Singles
    <2>3. (at + 1) + 1 = at + 2
      BY <2>1
    <2>4. QED
      BY <2>1, <2>2, <2>3
  <1>5. 1 + 1 = 2
    OBVIOUS
  <1>6. QED
    BY <1>2, <1>3, <1>4, <1>5

LEMMA RowsAndClose ==
  ASSUME NEW role \in Roles
  PROVE  /\ Sized(<<Step("rows", role, 1), Step("close", role, 1)>>, 2)
         /\ \A c, at : Lies(<<Step("rows", role, 1), Step("close", role, 1)>>, c, at) =>
               StepAt(c, at + 1, "rows", role) /\ StepAt(c, at + 2, "close", role)
  <1> DEFINE a == Step("rows", role, 1)
             b == Step("close", role, 1)
             t == <<a, b>>
  <1>1. a \in CommandSteps /\ b \in CommandSteps /\ a.do = "rows" /\ a.of = role /\ b.do = "close" /\ b.of = role
    BY DEF CommandSteps, Step, Deeds, Writing, Codes, Names
  <1> HIDE DEF a, b
  <1>2. t \in Seq(CommandSteps) /\ Len(t) = 2 /\ t[1] = a /\ t[2] = b
    BY <1>1
  <1> HIDE DEF t
  <1>3. ASSUME NEW c, NEW at, Lies(t, c, at)
        PROVE  StepAt(c, at + 1, "rows", role) /\ StepAt(c, at + 2, "close", role)
    <2>1. at \in Nat /\ c \in Seq(CommandSteps) /\ at + 2 <= Len(c) /\ c[at + 1] = t[1] /\ c[at + 2] = t[2]
      BY <1>2, <1>3 DEF Lies
    <2>2. at + 1 \in DOMAIN c /\ at + 2 \in DOMAIN c
      BY <2>1
    <2>3. QED
      BY <1>1, <1>2, <2>1, <2>2 DEF StepAt
  <1>4. Sized(t, 2)
    BY <1>2 DEF Sized
  <1>5. QED
    BY <1>3, <1>4 DEF t, a, b

LEMMA Tools ==
  ASSUME NEW in \in Roles, NEW out \in Roles
  PROVE  /\ Sized(run_command_to_file(in, out), 4)
         /\ \A c, at : Lies(run_command_to_file(in, out), c, at) =>
               /\ at \in Nat /\ StepAt(c, at + 1, "create", out) /\ StepAt(c, at + 2, "read tool", in)
               /\ StepAt(c, at + 3, "rows", out) /\ StepAt(c, at + 4, "close", out)
  <1> DEFINE last == <<Step("rows", out, 1), Step("close", out, 1)>>
             first == Opened(out, 1) \o ReadTool(in, 1)
  <1>1. /\ Sized(last, 2)
        /\ \A c, at : Lies(last, c, at) => StepAt(c, at + 1, "rows", out) /\ StepAt(c, at + 2, "close", out)
    BY RowsAndClose
  <1> HIDE DEF last
  <1>2. /\ Sized(first, 1 + 1)
        /\ \A c, at : Lies(first, c, at) => at \in Nat /\ Lies(Opened(out, 1), c, at) /\ Lies(ReadTool(in, 1), c, at + 1)
    BY Singles, Split
  <1>3. 1 + 1 = 2 /\ 2 + 2 = 4
    OBVIOUS
  <1>4. run_command_to_file(in, out) = first \o last
    BY DEF run_command_to_file, first, last
  <1> HIDE DEF first
  <1>5. /\ Sized(first \o last, 4)
        /\ \A c, at : Lies(first \o last, c, at) => at \in Nat /\ Lies(first, c, at) /\ Lies(last, c, at + 2)
    BY <1>1, <1>2, <1>3, Split
  <1>6. ASSUME NEW c, NEW at, Lies(first \o last, c, at)
        PROVE  /\ at \in Nat /\ StepAt(c, at + 1, "create", out) /\ StepAt(c, at + 2, "read tool", in)
               /\ StepAt(c, at + 3, "rows", out) /\ StepAt(c, at + 4, "close", out)
    <2>1. /\ at \in Nat /\ Lies(Opened(out, 1), c, at) /\ Lies(ReadTool(in, 1), c, at + 1) /\ Lies(last, c, at + 2)
      BY <1>2, <1>5, <1>6
    <2>2. /\ StepAt(c, at + 1, "create", out) /\ StepAt(c, (at + 1) + 1, "read tool", in)
          /\ StepAt(c, (at + 2) + 1, "rows", out) /\ StepAt(c, (at + 2) + 2, "close", out)
      BY <1>1, <2>1, Singles
    <2>3. (at + 1) + 1 = at + 2 /\ (at + 2) + 1 = at + 3 /\ (at + 2) + 2 = at + 4
      BY <2>1
    <2>4. QED
      BY <2>1, <2>2, <2>3
  <1>7. QED
    BY <1>4, <1>5, <1>6

\* The steps of a tool that reads one file and writes another.
ToolSteps(c, at, in, out) ==
  /\ StepAt(c, at + 1, "create", out) /\ StepAt(c, at + 2, "read tool", in)
  /\ StepAt(c, at + 3, "rows", out) /\ StepAt(c, at + 4, "close", out)
LEMMA ToolsAt ==
  ASSUME NEW in \in Roles, NEW out \in Roles, NEW c, NEW at, Lies(run_command_to_file(in, out), c, at)
  PROVE  ToolSteps(c, at, in, out)
  BY Tools DEF ToolSteps

LEMMA Dctimestep ==
  /\ Sized(dctimestep, 5)
  /\ \A c, at : Lies(dctimestep, c, at) =>
        /\ at \in Nat /\ StepAt(c, at + 1, "create", "rgb") /\ StepAt(c, at + 2, "read tool", "daylight.mtx")
        /\ StepAt(c, at + 3, "read tool", "sky.mtx") /\ StepAt(c, at + 4, "rows", "rgb") /\ StepAt(c, at + 5, "close", "rgb")
  <1>0. "rgb" \in Roles /\ "daylight.mtx" \in Roles /\ "sky.mtx" \in Roles
    BY RoleNames
  <1> DEFINE last == <<Step("rows", "rgb", 1), Step("close", "rgb", 1)>>
             two == Opened("rgb", 1) \o ReadTool("daylight.mtx", 1)
             three == two \o ReadTool("sky.mtx", 1)
  <1>1. /\ Sized(last, 2)
        /\ \A c, at : Lies(last, c, at) => StepAt(c, at + 1, "rows", "rgb") /\ StepAt(c, at + 2, "close", "rgb")
    BY <1>0, RowsAndClose
  <1> HIDE DEF last
  <1>2. 1 + 1 = 2 /\ 2 + 1 = 3 /\ 3 + 2 = 5
    OBVIOUS
  <1>3. /\ Sized(two, 2)
        /\ \A c, at : Lies(two, c, at) =>
              at \in Nat /\ Lies(Opened("rgb", 1), c, at) /\ Lies(ReadTool("daylight.mtx", 1), c, at + 1)
    <2>1. Sized(Opened("rgb", 1), 1) /\ Sized(ReadTool("daylight.mtx", 1), 1) /\ 2 = 1 + 1
      BY <1>0, <1>2, Singles
    <2>2. Spliced(two, Opened("rgb", 1), ReadTool("daylight.mtx", 1), 1, 2)
      BY ONLY <2>1, Splicing DEF two
    <2>3. QED
      BY ONLY <2>2 DEF Spliced
  <1> HIDE DEF two
  <1>4. /\ Sized(three, 3)
        /\ \A c, at : Lies(three, c, at) => at \in Nat /\ Lies(two, c, at) /\ Lies(ReadTool("sky.mtx", 1), c, at + 2)
    <2>1. Sized(two, 2) /\ Sized(ReadTool("sky.mtx", 1), 1) /\ 3 = 2 + 1
      BY <1>0, <1>2, <1>3, Singles
    <2>2. Spliced(three, two, ReadTool("sky.mtx", 1), 2, 3)
      BY ONLY <2>1, Splicing DEF three
    <2>3. QED
      BY ONLY <2>2 DEF Spliced
  <1> HIDE DEF three
  <1>5. /\ Sized(three \o last, 5)
        /\ \A c, at : Lies(three \o last, c, at) => at \in Nat /\ Lies(three, c, at) /\ Lies(last, c, at + 3)
    BY <1>1, <1>2, <1>4, Split
  <1>6. dctimestep = three \o last
    BY DEF dctimestep, three, two, last
  <1>7. ASSUME NEW c, NEW at, Lies(three \o last, c, at)
        PROVE  /\ at \in Nat /\ StepAt(c, at + 1, "create", "rgb") /\ StepAt(c, at + 2, "read tool", "daylight.mtx")
               /\ StepAt(c, at + 3, "read tool", "sky.mtx") /\ StepAt(c, at + 4, "rows", "rgb")
               /\ StepAt(c, at + 5, "close", "rgb")
    <2>1. /\ at \in Nat /\ Lies(Opened("rgb", 1), c, at) /\ Lies(ReadTool("daylight.mtx", 1), c, at + 1)
          /\ Lies(ReadTool("sky.mtx", 1), c, at + 2) /\ Lies(last, c, at + 3)
      BY <1>3, <1>4, <1>5, <1>7
    <2>2. /\ StepAt(c, at + 1, "create", "rgb") /\ StepAt(c, (at + 1) + 1, "read tool", "daylight.mtx")
          /\ StepAt(c, (at + 2) + 1, "read tool", "sky.mtx") /\ StepAt(c, (at + 3) + 1, "rows", "rgb")
          /\ StepAt(c, (at + 3) + 2, "close", "rgb")
      BY <1>0, <1>1, <2>1, Singles
    <2>3. (at + 1) + 1 = at + 2 /\ (at + 2) + 1 = at + 3 /\ (at + 3) + 1 = at + 4 /\ (at + 3) + 2 = at + 5
      BY <2>1
    <2>4. QED
      BY <2>1, <2>2, <2>3
  <1>8. QED
    BY <1>5, <1>6, <1>7

\* The steps of the tool that reads the matrix and the sky.
IlluminanceSteps(c, at) ==
  /\ StepAt(c, at + 1, "create", "rgb") /\ StepAt(c, at + 2, "read tool", "daylight.mtx")
  /\ StepAt(c, at + 3, "read tool", "sky.mtx") /\ StepAt(c, at + 4, "rows", "rgb") /\ StepAt(c, at + 5, "close", "rgb")
LEMMA DctimestepAt ==
  ASSUME NEW c, NEW at, Lies(dctimestep, c, at)
  PROVE  IlluminanceSteps(c, at)
  BY Dctimestep DEF IlluminanceSteps

LEMMA Bundle ==
  /\ Sized(write_radiance_bundle, 9)
  /\ \A c, at : Lies(write_radiance_bundle, c, at) =>
        /\ at \in Nat /\ Does(c, at + 1, "directory")
        /\ StepAt(c, at + 2, "create", "materials.rad") /\ StepAt(c, at + 3, "close", "materials.rad")
        /\ StepAt(c, at + 4, "create", "geometry.rad") /\ StepAt(c, at + 5, "close", "geometry.rad")
        /\ StepAt(c, at + 6, "create", "sensors.pts") /\ StepAt(c, at + 7, "close", "sensors.pts")
        /\ StepAt(c, at + 8, "create", "manifest.json") /\ StepAt(c, at + 9, "close", "manifest.json")
  <1>0. {"materials.rad", "geometry.rad", "sensors.pts", "manifest.json"} \subseteq Roles
    BY RoleNames
  <1> DEFINE s1 == MakeDirectory(1) \o write_text("materials.rad")
             s2 == s1 \o write_text("geometry.rad")
             s3 == s2 \o write_text("sensors.pts")
             s4 == s3 \o write_text("manifest.json")
  <1>1. 1 + 2 = 3 /\ 3 + 2 = 5 /\ 5 + 2 = 7 /\ 7 + 2 = 9
    OBVIOUS
  <1>2. /\ Sized(write_text("materials.rad"), 2) /\ Sized(write_text("geometry.rad"), 2)
        /\ Sized(write_text("sensors.pts"), 2) /\ Sized(write_text("manifest.json"), 2)
    BY <1>0, Texts
  <1>3. /\ Sized(s1, 3)
        /\ \A c, at : Lies(s1, c, at) =>
              at \in Nat /\ Lies(MakeDirectory(1), c, at) /\ Lies(write_text("materials.rad"), c, at + 1)
    <2>1. Sized(MakeDirectory(1), 1) /\ Sized(write_text("materials.rad"), 2) /\ 3 = 1 + 2
      BY <1>1, <1>2, Singles
    <2>2. Spliced(s1, MakeDirectory(1), write_text("materials.rad"), 1, 3)
      BY ONLY <2>1, Splicing DEF s1
    <2>3. QED
      BY ONLY <2>2 DEF Spliced
  <1> HIDE DEF s1
  <1>4. /\ Sized(s2, 5)
        /\ \A c, at : Lies(s2, c, at) => at \in Nat /\ Lies(s1, c, at) /\ Lies(write_text("geometry.rad"), c, at + 3)
    <2>1. Sized(s1, 3) /\ Sized(write_text("geometry.rad"), 2) /\ 5 = 3 + 2
      BY <1>1, <1>2, <1>3
    <2>2. Spliced(s2, s1, write_text("geometry.rad"), 3, 5)
      BY ONLY <2>1, Splicing DEF s2
    <2>3. QED
      BY ONLY <2>2 DEF Spliced
  <1> HIDE DEF s2
  <1>5. /\ Sized(s3, 7)
        /\ \A c, at : Lies(s3, c, at) => at \in Nat /\ Lies(s2, c, at) /\ Lies(write_text("sensors.pts"), c, at + 5)
    <2>1. Sized(s2, 5) /\ Sized(write_text("sensors.pts"), 2) /\ 7 = 5 + 2
      BY <1>1, <1>2, <1>4
    <2>2. Spliced(s3, s2, write_text("sensors.pts"), 5, 7)
      BY ONLY <2>1, Splicing DEF s3
    <2>3. QED
      BY ONLY <2>2 DEF Spliced
  <1> HIDE DEF s3
  <1>6. /\ Sized(s4, 9)
        /\ \A c, at : Lies(s4, c, at) => at \in Nat /\ Lies(s3, c, at) /\ Lies(write_text("manifest.json"), c, at + 7)
    <2>1. Sized(s3, 7) /\ Sized(write_text("manifest.json"), 2) /\ 9 = 7 + 2
      BY <1>1, <1>2, <1>5
    <2>2. Spliced(s4, s3, write_text("manifest.json"), 7, 9)
      BY ONLY <2>1, Splicing DEF s4
    <2>3. QED
      BY ONLY <2>2 DEF Spliced
  <1> HIDE DEF s4
  <1>7. write_radiance_bundle = s4
    BY DEF write_radiance_bundle, s4, s3, s2, s1
  <1>8. ASSUME NEW c, NEW at, Lies(s4, c, at)
        PROVE  /\ at \in Nat /\ Does(c, at + 1, "directory")
               /\ StepAt(c, at + 2, "create", "materials.rad") /\ StepAt(c, at + 3, "close", "materials.rad")
               /\ StepAt(c, at + 4, "create", "geometry.rad") /\ StepAt(c, at + 5, "close", "geometry.rad")
               /\ StepAt(c, at + 6, "create", "sensors.pts") /\ StepAt(c, at + 7, "close", "sensors.pts")
               /\ StepAt(c, at + 8, "create", "manifest.json") /\ StepAt(c, at + 9, "close", "manifest.json")
    <2>1. /\ at \in Nat /\ Lies(MakeDirectory(1), c, at) /\ Lies(write_text("materials.rad"), c, at + 1)
          /\ Lies(write_text("geometry.rad"), c, at + 3) /\ Lies(write_text("sensors.pts"), c, at + 5)
          /\ Lies(write_text("manifest.json"), c, at + 7)
      BY <1>3, <1>4, <1>5, <1>6, <1>8
    <2>2. Does(c, at + 1, "directory")
      BY <2>1, Singles
    <2>3. /\ StepAt(c, (at + 1) + 1, "create", "materials.rad") /\ StepAt(c, (at + 1) + 2, "close", "materials.rad")
          /\ StepAt(c, (at + 3) + 1, "create", "geometry.rad") /\ StepAt(c, (at + 3) + 2, "close", "geometry.rad")
          /\ StepAt(c, (at + 5) + 1, "create", "sensors.pts") /\ StepAt(c, (at + 5) + 2, "close", "sensors.pts")
          /\ StepAt(c, (at + 7) + 1, "create", "manifest.json") /\ StepAt(c, (at + 7) + 2, "close", "manifest.json")
      BY <1>0, <2>1, Texts
    <2>4. /\ (at + 1) + 1 = at + 2 /\ (at + 1) + 2 = at + 3 /\ (at + 3) + 1 = at + 4 /\ (at + 3) + 2 = at + 5
          /\ (at + 5) + 1 = at + 6 /\ (at + 5) + 2 = at + 7 /\ (at + 7) + 1 = at + 8 /\ (at + 7) + 2 = at + 9
      BY <2>1
    <2>5. QED
      BY <2>1, <2>2, <2>3, <2>4
  <1>9. QED
    BY <1>6, <1>7, <1>8

LEMMA Building ==
  /\ Sized(ReuseOrBuild, 11)
  /\ \A c, at : Lies(ReuseOrBuild, c, at) =>
        /\ at \in Nat /\ StepAt(c, at + 1, "reuse", 10)
        /\ Lies(run_command_to_file("geometry.rad", "scene.oct"), c, at + 1)
        /\ Lies(run_command_to_file("scene.oct", "daylight.mtx"), c, at + 5)
        /\ Lies(write_text("daylight.key"), c, at + 9)
  <1>0. {"geometry.rad", "scene.oct", "daylight.mtx", "daylight.key"} \subseteq Roles
    BY RoleNames
  <1> DEFINE first == run_command_to_file("geometry.rad", "scene.oct")
             second == run_command_to_file("scene.oct", "daylight.mtx")
             mark == write_text("daylight.key")
             both == first \o second
             skip == <<Step("reuse", 10, 1)>>
  <1>1. 4 + 4 = 8 /\ 8 + 2 = 10 /\ 1 + 10 = 11
    OBVIOUS
  <1>2. Sized(first, 4) /\ Sized(second, 4) /\ Sized(mark, 2)
    BY <1>0, Tools, Texts
  <1>3. Sized(both, 8) /\ \A c, at : Lies(both, c, at) => at \in Nat /\ Lies(first, c, at) /\ Lies(second, c, at + 4)
    <2>1. Sized(first, 4) /\ Sized(second, 4) /\ 8 = 4 + 4
      BY <1>1, <1>2
    <2>2. Spliced(both, first, second, 4, 8)
      BY ONLY <2>1, Splicing DEF both
    <2>3. QED
      BY ONLY <2>2 DEF Spliced
  <1>4. BuildMatrix = both \o mark
    BY DEF BuildMatrix
  <1> HIDE DEF both
  <1>5. /\ Sized(BuildMatrix, 10)
        /\ \A c, at : Lies(BuildMatrix, c, at) => at \in Nat /\ Lies(both, c, at) /\ Lies(mark, c, at + 8)
    BY <1>1, <1>2, <1>3, <1>4, Split
  <1>6. Len(BuildMatrix) = 10
    BY <1>5 DEF Sized
  <1>7. Sized(skip, 1) /\ \A c, at : Lies(skip, c, at) => at \in Nat /\ StepAt(c, at + 1, "reuse", 10)
    BY Single DEF Deeds, Codes
  <1>8. ReuseOrBuild = skip \o BuildMatrix
    BY <1>6 DEF ReuseOrBuild
  <1> HIDE DEF skip
  <1>9. /\ Sized(ReuseOrBuild, 11)
        /\ \A c, at : Lies(ReuseOrBuild, c, at) => at \in Nat /\ Lies(skip, c, at) /\ Lies(BuildMatrix, c, at + 1)
    BY <1>1, <1>5, <1>7, <1>8, Split
  <1> HIDE DEF first, second, mark
  <1>10. ASSUME NEW c, NEW at, Lies(ReuseOrBuild, c, at)
         PROVE  /\ at \in Nat /\ StepAt(c, at + 1, "reuse", 10) /\ Lies(first, c, at + 1) /\ Lies(second, c, at + 5)
                /\ Lies(mark, c, at + 9)
    <2>1. /\ at \in Nat /\ StepAt(c, at + 1, "reuse", 10) /\ Lies(both, c, at + 1) /\ Lies(mark, c, (at + 1) + 8)
      BY <1>5, <1>7, <1>9, <1>10
    <2>2. Lies(first, c, at + 1) /\ Lies(second, c, (at + 1) + 4)
      BY <1>3, <2>1
    <2>3. (at + 1) + 4 = at + 5 /\ (at + 1) + 8 = at + 9
      BY <2>1
    <2>4. QED
      BY <2>1, <2>2, <2>3
  <1>11. QED
    BY <1>9, <1>10 DEF first, second, mark

\* The parts of the run in its matrix directory.
LEMMA MatrixRun ==
  /\ Sized(run_radiance_annual_matrix, 38)
  /\ \A c, at : Lies(run_radiance_annual_matrix, c, at) =>
        /\ at \in Nat /\ Lies(Computation, c, at) /\ Lies(MakeDirectory(1), c, at + 1) /\ Lies(MakeDirectory(1), c, at + 2)
        /\ Lies(write_radiance_bundle, c, at + 3) /\ Lies(write_text("receiver.rad"), c, at + 12)
        /\ Lies(ReuseOrBuild, c, at + 14) /\ Lies(write_text("weather.wea"), c, at + 25)
        /\ Lies(run_command_to_file("weather.wea", "sky.mtx"), c, at + 27) /\ Lies(dctimestep, c, at + 31)
        /\ Lies(ReadJson("rgb", 1), c, at + 36) /\ Lies(Computation, c, at + 37)
  <1>0. {"receiver.rad", "weather.wea", "sky.mtx", "rgb"} \subseteq Roles
    BY RoleNames
  <1> DEFINE s1 == Computation \o MakeDirectory(1)
             s2 == s1 \o MakeDirectory(1)
             s3 == s2 \o write_radiance_bundle
             s4 == s3 \o write_text("receiver.rad")
             s5 == s4 \o ReuseOrBuild
             s6 == s5 \o write_text("weather.wea")
             s7 == s6 \o run_command_to_file("weather.wea", "sky.mtx")
             s8 == s7 \o dctimestep
             parsed == ReadJson("rgb", 1) \o Computation
             s9 == s8 \o parsed
  <1>1. /\ 1 + 1 = 2 /\ 2 + 1 = 3 /\ 3 + 9 = 12 /\ 12 + 2 = 14 /\ 14 + 11 = 25 /\ 25 + 2 = 27 /\ 27 + 4 = 31
        /\ 31 + 5 = 36 /\ 36 + 2 = 38
    OBVIOUS
  <1>2. /\ Sized(write_radiance_bundle, 9) /\ Sized(write_text("receiver.rad"), 2) /\ Sized(ReuseOrBuild, 11)
        /\ Sized(write_text("weather.wea"), 2) /\ Sized(run_command_to_file("weather.wea", "sky.mtx"), 4)
        /\ Sized(dctimestep, 5) /\ Sized(Computation, 1) /\ Sized(MakeDirectory(1), 1) /\ Sized(ReadJson("rgb", 1), 1)
    BY <1>0, Bundle, Texts, Building, Tools, Dctimestep, Singles
  <1>3. /\ Sized(s1, 2)
        /\ \A c, at : Lies(s1, c, at) => at \in Nat /\ Lies(Computation, c, at) /\ Lies(MakeDirectory(1), c, at + 1)
    <2>1. Sized(Computation, 1) /\ Sized(MakeDirectory(1), 1) /\ 2 = 1 + 1
      BY <1>1, <1>2
    <2>2. Spliced(s1, Computation, MakeDirectory(1), 1, 2)
      BY ONLY <2>1, Splicing DEF s1
    <2>3. QED
      BY ONLY <2>2 DEF Spliced
  <1> HIDE DEF s1
  <1>4. Sized(s2, 3) /\ \A c, at : Lies(s2, c, at) => at \in Nat /\ Lies(s1, c, at) /\ Lies(MakeDirectory(1), c, at + 2)
    <2>1. Sized(s1, 2) /\ Sized(MakeDirectory(1), 1) /\ 3 = 2 + 1
      BY <1>1, <1>2, <1>3
    <2>2. Spliced(s2, s1, MakeDirectory(1), 2, 3)
      BY ONLY <2>1, Splicing DEF s2
    <2>3. QED
      BY ONLY <2>2 DEF Spliced
  <1> HIDE DEF s2
  <1>5. /\ Sized(s3, 12)
        /\ \A c, at : Lies(s3, c, at) => at \in Nat /\ Lies(s2, c, at) /\ Lies(write_radiance_bundle, c, at + 3)
    <2>1. Sized(s2, 3) /\ Sized(write_radiance_bundle, 9) /\ 12 = 3 + 9
      BY <1>1, <1>2, <1>4
    <2>2. Spliced(s3, s2, write_radiance_bundle, 3, 12)
      BY ONLY <2>1, Splicing DEF s3
    <2>3. QED
      BY ONLY <2>2 DEF Spliced
  <1> HIDE DEF s3
  <1>6. /\ Sized(s4, 14)
        /\ \A c, at : Lies(s4, c, at) => at \in Nat /\ Lies(s3, c, at) /\ Lies(write_text("receiver.rad"), c, at + 12)
    <2>1. Sized(s3, 12) /\ Sized(write_text("receiver.rad"), 2) /\ 14 = 12 + 2
      BY <1>1, <1>2, <1>5
    <2>2. Spliced(s4, s3, write_text("receiver.rad"), 12, 14)
      BY ONLY <2>1, Splicing DEF s4
    <2>3. QED
      BY ONLY <2>2 DEF Spliced
  <1> HIDE DEF s4
  <1>7. Sized(s5, 25) /\ \A c, at : Lies(s5, c, at) => at \in Nat /\ Lies(s4, c, at) /\ Lies(ReuseOrBuild, c, at + 14)
    <2>1. Sized(s4, 14) /\ Sized(ReuseOrBuild, 11) /\ 25 = 14 + 11
      BY <1>1, <1>2, <1>6
    <2>2. Spliced(s5, s4, ReuseOrBuild, 14, 25)
      BY ONLY <2>1, Splicing DEF s5
    <2>3. QED
      BY ONLY <2>2 DEF Spliced
  <1> HIDE DEF s5
  <1>8. /\ Sized(s6, 27)
        /\ \A c, at : Lies(s6, c, at) => at \in Nat /\ Lies(s5, c, at) /\ Lies(write_text("weather.wea"), c, at + 25)
    <2>1. Sized(s5, 25) /\ Sized(write_text("weather.wea"), 2) /\ 27 = 25 + 2
      BY <1>1, <1>2, <1>7
    <2>2. Spliced(s6, s5, write_text("weather.wea"), 25, 27)
      BY ONLY <2>1, Splicing DEF s6
    <2>3. QED
      BY ONLY <2>2 DEF Spliced
  <1> HIDE DEF s6
  <1>9. /\ Sized(s7, 31)
        /\ \A c, at : Lies(s7, c, at) =>
              at \in Nat /\ Lies(s6, c, at) /\ Lies(run_command_to_file("weather.wea", "sky.mtx"), c, at + 27)
    <2>1. Sized(s6, 27) /\ Sized(run_command_to_file("weather.wea", "sky.mtx"), 4) /\ 31 = 27 + 4
      BY <1>1, <1>2, <1>8
    <2>2. Spliced(s7, s6, run_command_to_file("weather.wea", "sky.mtx"), 27, 31)
      BY ONLY <2>1, Splicing DEF s7
    <2>3. QED
      BY ONLY <2>2 DEF Spliced
  <1> HIDE DEF s7
  <1>10. Sized(s8, 36) /\ \A c, at : Lies(s8, c, at) => at \in Nat /\ Lies(s7, c, at) /\ Lies(dctimestep, c, at + 31)
    <2>1. Sized(s7, 31) /\ Sized(dctimestep, 5)
      BY <1>2, <1>9
    <2>2. 31 + 5 = 36
      OBVIOUS
    <2>3. Spliced(s8, s7, dctimestep, 31, 36)
      BY ONLY <2>1, <2>2, Splicing DEF s8
    <2>4. QED
      BY ONLY <2>3 DEF Spliced
  <1> HIDE DEF s8
  <1>11. /\ Sized(parsed, 2)
         /\ \A c, at : Lies(parsed, c, at) =>
               at \in Nat /\ Lies(ReadJson("rgb", 1), c, at) /\ Lies(Computation, c, at + 1)
    <2>1. Sized(ReadJson("rgb", 1), 1) /\ Sized(Computation, 1) /\ 2 = 1 + 1
      BY <1>1, <1>2
    <2>2. Spliced(parsed, ReadJson("rgb", 1), Computation, 1, 2)
      BY ONLY <2>1, Splicing DEF parsed
    <2>3. QED
      BY ONLY <2>2 DEF Spliced
  <1> HIDE DEF parsed
  <1>12. Sized(s9, 38) /\ \A c, at : Lies(s9, c, at) => at \in Nat /\ Lies(s8, c, at) /\ Lies(parsed, c, at + 36)
    <2>1. Sized(s8, 36) /\ Sized(parsed, 2) /\ 38 = 36 + 2
      BY <1>1, <1>10, <1>11
    <2>2. Spliced(s9, s8, parsed, 36, 38)
      BY ONLY <2>1, Splicing DEF s9
    <2>3. QED
      BY ONLY <2>2 DEF Spliced
  <1> HIDE DEF s9
  <1>13. run_radiance_annual_matrix = s9
    BY DEF run_radiance_annual_matrix, temporary_directory, write_wea, parse_rgb_illuminance, s9, parsed, s8, s7, s6, s5,
           s4, s3, s2, s1
  <1>14. ASSUME NEW c, NEW at, Lies(s9, c, at)
         PROVE  /\ at \in Nat /\ Lies(s1, c, at) /\ Lies(MakeDirectory(1), c, at + 2)
                /\ Lies(write_radiance_bundle, c, at + 3) /\ Lies(write_text("receiver.rad"), c, at + 12)
                /\ Lies(ReuseOrBuild, c, at + 14) /\ Lies(write_text("weather.wea"), c, at + 25)
                /\ Lies(run_command_to_file("weather.wea", "sky.mtx"), c, at + 27) /\ Lies(dctimestep, c, at + 31)
                /\ Lies(ReadJson("rgb", 1), c, at + 36) /\ Lies(Computation, c, at + 37)
    <2>1. at \in Nat /\ Lies(s8, c, at) /\ Lies(ReadJson("rgb", 1), c, at + 36) /\ Lies(Computation, c, (at + 36) + 1)
      BY <1>11, <1>12, <1>14
    <2>2. Lies(s4, c, at) /\ Lies(ReuseOrBuild, c, at + 14) /\ Lies(write_text("weather.wea"), c, at + 25)
          /\ Lies(run_command_to_file("weather.wea", "sky.mtx"), c, at + 27) /\ Lies(dctimestep, c, at + 31)
      BY <1>7, <1>8, <1>9, <1>10, <2>1
    <2>3. /\ Lies(s1, c, at) /\ Lies(MakeDirectory(1), c, at + 2) /\ Lies(write_radiance_bundle, c, at + 3)
          /\ Lies(write_text("receiver.rad"), c, at + 12)
      BY <1>4, <1>5, <1>6, <2>2
    <2>4. (at + 36) + 1 = at + 37
      BY <2>1
    <2>5. QED
      BY <2>1, <2>2, <2>3, <2>4
  <1>15. QED
    BY <1>3, <1>12, <1>13, <1>14

\* The whole program of an annual run.
AnnualSteps(c) ==
  /\ c \in Seq(CommandSteps) /\ Len(c) = 46
  /\ StepAt(c, 1, "options", {}) /\ StepAt(c, 2, "read lines", "input") /\ Does(c, 3, "compute")
  /\ StepAt(c, 4, "read lines", "weather") /\ Does(c, 5, "compute") /\ Does(c, 6, "compute") /\ Does(c, 7, "compute")
  /\ Does(c, 8, "compute") /\ Does(c, 9, "directory") /\ Does(c, 10, "directory") /\ Does(c, 11, "directory")
  /\ StepAt(c, 12, "create", "materials.rad") /\ StepAt(c, 13, "close", "materials.rad")
  /\ StepAt(c, 14, "create", "geometry.rad") /\ StepAt(c, 15, "close", "geometry.rad")
  /\ StepAt(c, 16, "create", "sensors.pts") /\ StepAt(c, 17, "close", "sensors.pts")
  /\ StepAt(c, 18, "create", "manifest.json") /\ StepAt(c, 19, "close", "manifest.json")
  /\ StepAt(c, 20, "create", "receiver.rad") /\ StepAt(c, 21, "close", "receiver.rad")
  /\ StepAt(c, 22, "reuse", 10)
  /\ StepAt(c, 23, "create", "scene.oct") /\ StepAt(c, 24, "read tool", "geometry.rad")
  /\ StepAt(c, 25, "rows", "scene.oct") /\ StepAt(c, 26, "close", "scene.oct")
  /\ StepAt(c, 27, "create", "daylight.mtx") /\ StepAt(c, 28, "read tool", "scene.oct")
  /\ StepAt(c, 29, "rows", "daylight.mtx") /\ StepAt(c, 30, "close", "daylight.mtx")
  /\ StepAt(c, 31, "create", "daylight.key") /\ StepAt(c, 32, "close", "daylight.key")
  /\ StepAt(c, 33, "create", "weather.wea") /\ StepAt(c, 34, "close", "weather.wea")
  /\ StepAt(c, 35, "create", "sky.mtx") /\ StepAt(c, 36, "read tool", "weather.wea")
  /\ StepAt(c, 37, "rows", "sky.mtx") /\ StepAt(c, 38, "close", "sky.mtx")
  /\ StepAt(c, 39, "create", "rgb") /\ StepAt(c, 40, "read tool", "daylight.mtx") /\ StepAt(c, 41, "read tool", "sky.mtx")
  /\ StepAt(c, 42, "rows", "rgb") /\ StepAt(c, 43, "close", "rgb")
  /\ StepAt(c, 44, "read json", "rgb") /\ Does(c, 45, "compute") /\ Does(c, 46, "print")
LEMMA AnnualProgram == AnnualSteps(main("radiance-annual"))
  <1> DEFINE c == main("radiance-annual")
             objects == ReadLines("input", 1) \o Computation
             s1 == Options({}) \o objects
             s2 == s1 \o ReadLines("weather", 1)
             s3 == s2 \o Refusal
             s4 == s3 \o Computation
             s5 == s4 \o Computation
             s6 == s5 \o run_radiance_annual_matrix
             s7 == s6 \o ToStdout
  <1>0. {"input", "weather", "geometry.rad", "scene.oct", "daylight.mtx", "daylight.key", "weather.wea", "sky.mtx",
         "receiver.rad", "rgb"} \subseteq Roles
    BY RoleNames
  <1>1. /\ 1 + 1 = 2 /\ 1 + 2 = 3 /\ 3 + 1 = 4 /\ 4 + 1 = 5 /\ 5 + 1 = 6 /\ 6 + 1 = 7 /\ 7 + 38 = 45 /\ 45 + 1 = 46
    OBVIOUS
  <1>2. /\ Sized(Options({}), 1) /\ Sized(ReadLines("input", 1), 1) /\ Sized(Computation, 1) /\ Sized(Refusal, 1)
        /\ Sized(ReadLines("weather", 1), 1) /\ Sized(ToStdout, 1) /\ Sized(run_radiance_annual_matrix, 38)
    BY <1>0, Singles, MatrixRun
  <1>3. /\ Sized(objects, 2)
        /\ \A d, at : Lies(objects, d, at) => Lies(ReadLines("input", 1), d, at) /\ Lies(Computation, d, at + 1)
    <2>1. Sized(ReadLines("input", 1), 1) /\ Sized(Computation, 1) /\ 2 = 1 + 1
      BY <1>1, <1>2
    <2>2. Spliced(objects, ReadLines("input", 1), Computation, 1, 2)
      BY ONLY <2>1, Splicing DEF objects
    <2>3. QED
      BY ONLY <2>2 DEF Spliced
  <1> HIDE DEF objects
  <1>4. Sized(s1, 3) /\ \A d, at : Lies(s1, d, at) => Lies(Options({}), d, at) /\ Lies(objects, d, at + 1)
    <2>1. Sized(Options({}), 1) /\ Sized(objects, 2) /\ 3 = 1 + 2
      BY <1>1, <1>2, <1>3
    <2>2. Spliced(s1, Options({}), objects, 1, 3)
      BY ONLY <2>1, Splicing DEF s1
    <2>3. QED
      BY ONLY <2>2 DEF Spliced
  <1> HIDE DEF s1
  <1>5. Sized(s2, 4) /\ \A d, at : Lies(s2, d, at) => Lies(s1, d, at) /\ Lies(ReadLines("weather", 1), d, at + 3)
    <2>1. Sized(s1, 3) /\ Sized(ReadLines("weather", 1), 1) /\ 4 = 3 + 1
      BY <1>1, <1>2, <1>4
    <2>2. Spliced(s2, s1, ReadLines("weather", 1), 3, 4)
      BY ONLY <2>1, Splicing DEF s2
    <2>3. QED
      BY ONLY <2>2 DEF Spliced
  <1> HIDE DEF s2
  <1>6. Sized(s3, 5) /\ \A d, at : Lies(s3, d, at) => Lies(s2, d, at) /\ Lies(Refusal, d, at + 4)
    <2>1. Sized(s2, 4) /\ Sized(Refusal, 1) /\ 5 = 4 + 1
      BY <1>1, <1>2, <1>5
    <2>2. Spliced(s3, s2, Refusal, 4, 5)
      BY ONLY <2>1, Splicing DEF s3
    <2>3. QED
      BY ONLY <2>2 DEF Spliced
  <1> HIDE DEF s3
  <1>7. Sized(s4, 6) /\ \A d, at : Lies(s4, d, at) => Lies(s3, d, at) /\ Lies(Computation, d, at + 5)
    <2>1. Sized(s3, 5) /\ Sized(Computation, 1) /\ 6 = 5 + 1
      BY <1>1, <1>2, <1>6
    <2>2. Spliced(s4, s3, Computation, 5, 6)
      BY ONLY <2>1, Splicing DEF s4
    <2>3. QED
      BY ONLY <2>2 DEF Spliced
  <1> HIDE DEF s4
  <1>8. Sized(s5, 7) /\ \A d, at : Lies(s5, d, at) => Lies(s4, d, at) /\ Lies(Computation, d, at + 6)
    <2>1. Sized(s4, 6) /\ Sized(Computation, 1) /\ 7 = 6 + 1
      BY <1>1, <1>2, <1>7
    <2>2. Spliced(s5, s4, Computation, 6, 7)
      BY ONLY <2>1, Splicing DEF s5
    <2>3. QED
      BY ONLY <2>2 DEF Spliced
  <1> HIDE DEF s5
  <1>9. Sized(s6, 45) /\ \A d, at : Lies(s6, d, at) => Lies(s5, d, at) /\ Lies(run_radiance_annual_matrix, d, at + 7)
    <2>1. Sized(s5, 7) /\ Sized(run_radiance_annual_matrix, 38)
      BY <1>2, <1>8
    <2>2. 7 + 38 = 45
      OBVIOUS
    <2>3. Spliced(s6, s5, run_radiance_annual_matrix, 7, 45)
      BY ONLY <2>1, <2>2, Splicing DEF s6
    <2>4. QED
      BY ONLY <2>3 DEF Spliced
  <1> HIDE DEF s6
  <1>10. Sized(s7, 46) /\ \A d, at : Lies(s7, d, at) => Lies(s6, d, at) /\ Lies(ToStdout, d, at + 45)
    <2>1. Sized(s6, 45) /\ Sized(ToStdout, 1)
      BY <1>2, <1>9
    <2>2. 45 + 1 = 46
      OBVIOUS
    <2>3. Spliced(s7, s6, ToStdout, 45, 46)
      BY ONLY <2>1, <2>2, Splicing DEF s7
    <2>4. QED
      BY ONLY <2>3 DEF Spliced
  <1> HIDE DEF s7
  <1>11. c = s7
    <2>1. c = run_radiance_annual_reference
      BY Dispatch
    <2> HIDE DEF c
    <2>2. QED
      BY <2>1 DEF run_radiance_annual_reference, parse_arguments, checked_scene, build_cli_scene, load_weather, library,
                  export_radiance_bundle, RadianceDiscover, s7, s6, s5, s4, s3, s2, s1, objects
  <1> HIDE DEF c
  <1>12. c \in Seq(CommandSteps) /\ Len(c) = 46
    BY <1>10, <1>11 DEF Sized
  <1>13. Lies(c, c, 0)
    <2>1. \A i \in 1..Len(c) : 0 + i = i
      BY <1>12
    <2>2. 0 + Len(c) <= Len(c) /\ 0 \in Nat
      BY <1>12
    <2>3. QED
      BY <1>12, <2>1, <2>2 DEF Lies
  <1>14. /\ Lies(ToStdout, c, 0 + 45) /\ Lies(run_radiance_annual_matrix, c, 0 + 7) /\ Lies(s5, c, 0)
    BY <1>9, <1>10, <1>11, <1>13
  <1>15. /\ Lies(Computation, c, 0 + 6) /\ Lies(Computation, c, 0 + 5) /\ Lies(Refusal, c, 0 + 4)
         /\ Lies(ReadLines("weather", 1), c, 0 + 3) /\ Lies(s1, c, 0)
    BY <1>5, <1>6, <1>7, <1>8, <1>14
  <1>16. Lies(Options({}), c, 0) /\ Lies(ReadLines("input", 1), c, 0 + 1) /\ Lies(Computation, c, (0 + 1) + 1)
    BY <1>3, <1>4, <1>15
  <1>17. /\ StepAt(c, 1, "options", {}) /\ StepAt(c, 2, "read lines", "input") /\ Does(c, 3, "compute")
         /\ StepAt(c, 4, "read lines", "weather") /\ Does(c, 5, "compute") /\ Does(c, 6, "compute") /\ Does(c, 7, "compute")
         /\ Does(c, 46, "print")
    <2>1. /\ StepAt(c, 0 + 1, "options", {}) /\ StepAt(c, (0 + 1) + 1, "read lines", "input")
          /\ Does(c, ((0 + 1) + 1) + 1, "compute") /\ StepAt(c, (0 + 3) + 1, "read lines", "weather")
          /\ Does(c, (0 + 4) + 1, "compute") /\ Does(c, (0 + 5) + 1, "compute") /\ Does(c, (0 + 6) + 1, "compute")
          /\ Does(c, (0 + 45) + 1, "print")
      BY <1>0, <1>14, <1>15, <1>16, Singles
    <2>2. /\ 0 + 1 = 1 /\ (0 + 1) + 1 = 2 /\ ((0 + 1) + 1) + 1 = 3 /\ (0 + 3) + 1 = 4 /\ (0 + 4) + 1 = 5
          /\ (0 + 5) + 1 = 6 /\ (0 + 6) + 1 = 7 /\ (0 + 45) + 1 = 46
      OBVIOUS
    <2>3. QED
      BY <2>1, <2>2
  <1>18. /\ Lies(Computation, c, 7) /\ Lies(MakeDirectory(1), c, 8) /\ Lies(MakeDirectory(1), c, 9)
         /\ Lies(write_radiance_bundle, c, 10) /\ Lies(write_text("receiver.rad"), c, 19)
         /\ Lies(ReuseOrBuild, c, 21) /\ Lies(write_text("weather.wea"), c, 32)
         /\ Lies(run_command_to_file("weather.wea", "sky.mtx"), c, 34) /\ Lies(dctimestep, c, 38)
         /\ Lies(ReadJson("rgb", 1), c, 43) /\ Lies(Computation, c, 44)
    <2>1. Lies(run_radiance_annual_matrix, c, 7)
      BY <1>14
    <2>2. /\ 7 + 1 = 8 /\ 7 + 2 = 9 /\ 7 + 3 = 10 /\ 7 + 12 = 19 /\ 7 + 14 = 21 /\ 7 + 25 = 32 /\ 7 + 27 = 34
          /\ 7 + 31 = 38 /\ 7 + 36 = 43 /\ 7 + 37 = 44
      OBVIOUS
    <2>3. QED
      BY <2>1, <2>2, MatrixRun
  <1>19. /\ Does(c, 8, "compute") /\ Does(c, 9, "directory") /\ Does(c, 10, "directory")
         /\ StepAt(c, 44, "read json", "rgb") /\ Does(c, 45, "compute")
         /\ StepAt(c, 20, "create", "receiver.rad") /\ StepAt(c, 21, "close", "receiver.rad")
         /\ StepAt(c, 33, "create", "weather.wea") /\ StepAt(c, 34, "close", "weather.wea")
    <2>1. /\ Does(c, 7 + 1, "compute") /\ Does(c, 8 + 1, "directory") /\ Does(c, 9 + 1, "directory")
          /\ StepAt(c, 43 + 1, "read json", "rgb") /\ Does(c, 44 + 1, "compute")
      BY <1>0, <1>18, Singles
    <2>2. /\ StepAt(c, 19 + 1, "create", "receiver.rad") /\ StepAt(c, 19 + 2, "close", "receiver.rad")
          /\ StepAt(c, 32 + 1, "create", "weather.wea") /\ StepAt(c, 32 + 2, "close", "weather.wea")
      BY <1>0, <1>18, Texts
    <2>3. /\ 7 + 1 = 8 /\ 8 + 1 = 9 /\ 9 + 1 = 10 /\ 43 + 1 = 44 /\ 44 + 1 = 45 /\ 19 + 1 = 20 /\ 19 + 2 = 21
          /\ 32 + 1 = 33 /\ 32 + 2 = 34
      OBVIOUS
    <2>4. QED
      BY <2>1, <2>2, <2>3
  <1>20. /\ Does(c, 11, "directory")
         /\ StepAt(c, 12, "create", "materials.rad") /\ StepAt(c, 13, "close", "materials.rad")
         /\ StepAt(c, 14, "create", "geometry.rad") /\ StepAt(c, 15, "close", "geometry.rad")
         /\ StepAt(c, 16, "create", "sensors.pts") /\ StepAt(c, 17, "close", "sensors.pts")
         /\ StepAt(c, 18, "create", "manifest.json") /\ StepAt(c, 19, "close", "manifest.json")
    <2>1. /\ 10 + 1 = 11 /\ 10 + 2 = 12 /\ 10 + 3 = 13 /\ 10 + 4 = 14 /\ 10 + 5 = 15 /\ 10 + 6 = 16 /\ 10 + 7 = 17
          /\ 10 + 8 = 18 /\ 10 + 9 = 19
      OBVIOUS
    <2>2. QED
      BY <1>18, <2>1, Bundle
  <1>21. /\ StepAt(c, 22, "reuse", 10) /\ Lies(run_command_to_file("geometry.rad", "scene.oct"), c, 22)
         /\ Lies(run_command_to_file("scene.oct", "daylight.mtx"), c, 26) /\ Lies(write_text("daylight.key"), c, 30)
    <2>1. 21 + 1 = 22 /\ 21 + 5 = 26 /\ 21 + 9 = 30
      OBVIOUS
    <2>2. QED
      BY <1>18, <2>1, Building
  <1>22. /\ StepAt(c, 23, "create", "scene.oct") /\ StepAt(c, 24, "read tool", "geometry.rad")
         /\ StepAt(c, 25, "rows", "scene.oct") /\ StepAt(c, 26, "close", "scene.oct")
    <2>1. 22 + 1 = 23 /\ 22 + 2 = 24 /\ 22 + 3 = 25 /\ 22 + 4 = 26
      OBVIOUS
    <2>2. ToolSteps(c, 22, "geometry.rad", "scene.oct")
      BY ONLY <1>0, <1>21, ToolsAt
    <2>3. QED
      BY ONLY <2>1, <2>2 DEF ToolSteps
  <1>23. /\ StepAt(c, 27, "create", "daylight.mtx") /\ StepAt(c, 28, "read tool", "scene.oct")
         /\ StepAt(c, 29, "rows", "daylight.mtx") /\ StepAt(c, 30, "close", "daylight.mtx")
    <2>1. 26 + 1 = 27 /\ 26 + 2 = 28 /\ 26 + 3 = 29 /\ 26 + 4 = 30
      OBVIOUS
    <2>2. ToolSteps(c, 26, "scene.oct", "daylight.mtx")
      BY ONLY <1>0, <1>21, ToolsAt
    <2>3. QED
      BY ONLY <2>1, <2>2 DEF ToolSteps
  <1>24. /\ StepAt(c, 35, "create", "sky.mtx") /\ StepAt(c, 36, "read tool", "weather.wea")
         /\ StepAt(c, 37, "rows", "sky.mtx") /\ StepAt(c, 38, "close", "sky.mtx")
    <2>1. 34 + 1 = 35 /\ 34 + 2 = 36 /\ 34 + 3 = 37 /\ 34 + 4 = 38
      OBVIOUS
    <2>2. ToolSteps(c, 34, "weather.wea", "sky.mtx")
      BY ONLY <1>0, <1>18, ToolsAt
    <2>3. QED
      BY ONLY <2>1, <2>2 DEF ToolSteps
  <1>25. StepAt(c, 31, "create", "daylight.key") /\ StepAt(c, 32, "close", "daylight.key")
    <2>1. 30 + 1 = 31 /\ 30 + 2 = 32
      OBVIOUS
    <2>2. QED
      BY <1>0, <1>21, <2>1, Texts
  <1>26. /\ StepAt(c, 39, "create", "rgb") /\ StepAt(c, 40, "read tool", "daylight.mtx") /\ StepAt(c, 41, "read tool", "sky.mtx")
         /\ StepAt(c, 42, "rows", "rgb") /\ StepAt(c, 43, "close", "rgb")
    <2>1. 38 + 1 = 39 /\ 38 + 2 = 40 /\ 38 + 3 = 41 /\ 38 + 4 = 42 /\ 38 + 5 = 43
      OBVIOUS
    <2>2. IlluminanceSteps(c, 38)
      BY ONLY <1>18, DctimestepAt
    <2>3. QED
      BY ONLY <2>1, <2>2 DEF IlluminanceSteps
  <1>27. QED
    <2>1. AnnualSteps(c)
      BY ONLY <1>12, <1>17, <1>19, <1>20, <1>21, <1>22, <1>23, <1>24, <1>25, <1>26 DEF AnnualSteps
    <2>2. QED
      BY <2>1 DEF c

-----------------------------------------------------------------------------
(* What holds while annual runs come one after the other in their directories. *)

IsAnnual(use) == use.command = "radiance-annual"
\* A mark is only there beside a matrix that was written to the end.
TrueMark(files, run) ==
  /\ files[MarkOf(run)].state # "mixed"
  /\ files[MarkOf(run)].state = "whole" => files[MatrixOf(run)].state = "whole"
MarksAreTrue(p) ==
  \A n \in DOMAIN shell[p].session : IsAnnual(shell[p].session[n]) => TrueMark(file, shell[p].session[n])
\* What a run has written itself, for its own weather.
Written(files, run, role) ==
  files[run.bind[role]].state = "whole" /\ files[run.bind[role]].batch = files[run.bind["weather"]].batch
ToolsReadWhole(seen) == \A r \in seen : r.how = "read tool" => r.state = "whole"

\* Where a run is decides what it can rely on: on what it has written and not yet read,
\* on the matrix once it is there, on the mark not being there while it is not.
BatchAt(files, k, run, batch) == k >= 5 /\ k # 41 => batch = files[run.bind["weather"]].batch
FilesAt(files, k, run) ==
  /\ k \in 16..24 => Written(files, run, "geometry.rad")
  /\ k \in 27..28 => Written(files, run, "scene.oct")
  /\ k \in 35..36 => Written(files, run, "weather.wea")
  /\ k \in 39..41 => Written(files, run, "sky.mtx")
  /\ k = 44 => Written(files, run, "rgb")
MatrixAt(files, k, run) ==
  /\ k \in 23..32 => files[MarkOf(run)].state # "whole"
  /\ k \in 31..46 => files[MatrixOf(run)].state = "whole"
OnCourse(files, k, run, batch) == BatchAt(files, k, run, batch) /\ FilesAt(files, k, run) /\ MatrixAt(files, k, run)
Course(p) ==
  /\ shell[p].missing = {} /\ ToolsReadWhole(shell[p].seen)
  /\ OnCourse(file, shell[p].step, Use(p), shell[p].batch)

SessionGiven(p) == \E sessions \in CommandSessions : shell[p].session = sessions[p]
AnswersForItself(p) ==
  /\ ToolsReadWhole(shell[p].seen)
  /\ shell[p].batch = file[shell[p].session[shell[p].last].bind["weather"]].batch
AnnualShell(p) ==
  /\ SessionGiven(p)
  /\ Others(p) = {} =>
       /\ MarksAreTrue(p)
       /\ Busy(p) /\ IsAnnual(Use(p)) => Course(p)
       /\ shell[p].code = 0 /\ Command(p) = "radiance-annual" => AnswersForItself(p)
AnnualInvariant == CommandInvariant /\ \A p \in Shells : AnnualShell(p)

\* What a process does.
ShellStep(p) ==
  \/ Start(p) \/ Fail(p) \/ Kill(p)
  \/ GiveOptions(p) \/ Plain(p) \/ Read(p) \/ Reuse(p) \/ RemoveFiles(p)
  \/ CreateFile(p) \/ Rows(p) \/ Close(p)
  \/ OpenWorkspace(p) \/ InitWorkspace(p) \/ HandOutBatch(p) \/ AcceptBatch(p)

\* A process that goes on, or ends, keeps its session, what it wrote and the like.
LEMMA AlwaysKept ==
  ASSUME CommandTypeOK, NEW p \in Shells, shell[p].at <= Len(shell[p].session), NEW process \in ShellStates, NEW m \in Nat
  PROVE  LET new == WentOn(p, process, m)
         IN  /\ new \in ShellStates /\ new.session = process.session /\ new.wrote = process.wrote
             /\ new.seen = process.seen /\ new.batch = process.batch
             /\ (new.code = process.code /\ new.at = process.at) \/ (new.step = 0 /\ new.code = 0 /\ new.last = process.at)
  <1> DEFINE new == WentOn(p, process, m)
  <1>1. new \in ShellStates
    BY Going
  <1>2. CASE \E failed \in Failures : new = Ended(process, 0, failed)
    <2>1. PICK failed \in Failures : new = Ended(process, 0, failed)
      BY <1>2
    <2>2. 0 \in Int
      OBVIOUS
    <2>3. Ended(process, 0, failed).batch = process.batch
      BY DEF Ended, ShellStates
    <2> HIDE DEF new
    <2>4. QED
      BY <1>1, <2>1, <2>2, <2>3, EndedType DEF new
  <1>3. CASE \E i \in Following(p, process, m) : new = [process EXCEPT !.step = i]
    <2>1. PICK i \in Following(p, process, m) : new = [process EXCEPT !.step = i]
      BY <1>3
    <2> HIDE DEF new
    <2>2. QED
      BY <1>1, <2>1 DEF ShellStates, new
  <1>4. QED
    BY <1>2, <1>3, Going

LEMMA MovedOn ==
  ASSUME CommandInvariant, NEW p \in Shells, Busy(p), NEW process, SameCommand(p, process), NEW m \in Nat,
         shell' = [shell EXCEPT ![p] = WentOn(p, process, m)]
  PROVE  /\ \A r \in Shells : r # p => shell'[r] = shell[r]
         /\ shell'[p] = WentOn(p, process, m)
         /\ shell'[p].session = shell[p].session /\ shell'[p].wrote = process.wrote
         /\ shell'[p].seen = process.seen /\ shell'[p].batch = process.batch
         /\ shell'[p].code = 0 => shell'[p].last = shell[p].at
         /\ shell'[p].step # 0 => shell'[p].at = shell[p].at
  <1>1. /\ CommandTypeOK /\ shell \in [Shells -> ShellStates] /\ shell[p].at <= Len(shell[p].session)
        /\ shell[p].code = -1
    BY Underway DEF CommandInvariant, CommandTypeOK, ShellInvariant, Standing
  <1>2. /\ process \in ShellStates /\ process.session = shell[p].session /\ process.at = shell[p].at
        /\ process.code = -1
    BY <1>1 DEF SameCommand
  <1>3. shell'[p] = WentOn(p, process, m) /\ \A r \in Shells : r # p => shell'[r] = shell[r]
    BY <1>1
  <1>4. LET new == WentOn(p, process, m)
        IN  /\ new.session = process.session /\ new.wrote = process.wrote
            /\ new.seen = process.seen /\ new.batch = process.batch
            /\ (new.code = process.code /\ new.at = process.at) \/ (new.step = 0 /\ new.code = 0 /\ new.last = process.at)
    BY <1>1, <1>2, AlwaysKept
  <1> HIDE DEF SameCommand
  <1>5. QED
    BY <1>2, <1>3, <1>4

\* What a step of a process may do to the files, and to itself.
StepFrame(p) ==
  /\ \A r \in Shells : r # p => shell'[r] = shell[r]
  /\ shell'[p].session = shell[p].session /\ shell[p].wrote \subseteq shell'[p].wrote
  /\ \A f \in Files : \/ file'[f] = file[f]
                      \/ /\ Busy(p) /\ f \in shell'[p].wrote
                         /\ \E h \in DOMAIN Program(p) : Program(p)[h].do = "create" /\ Target(p, h) = f
  /\ shell'[p].code = 0 => Busy(p) /\ shell'[p].last = shell[p].at
  /\ Busy(p) /\ shell'[p].step # 0 => shell'[p].at = shell[p].at

LEMMA QuietFrame ==
  ASSUME CommandInvariant, NEW p \in Shells, Busy(p), NEW process, SameCommand(p, process), NEW m \in Nat,
         shell' = [shell EXCEPT ![p] = WentOn(p, process, m)], file' = file, process.wrote = shell[p].wrote
  PROVE  StepFrame(p)
  BY MovedOn DEF StepFrame

LEMMA PlainFrames ==
  ASSUME CommandInvariant, NEW p \in Shells,
         \/ Start(p) \/ Fail(p) \/ Kill(p) \/ GiveOptions(p) \/ Plain(p) \/ Read(p) \/ Reuse(p)
         \/ OpenWorkspace(p) \/ InitWorkspace(p) \/ HandOutBatch(p) \/ AcceptBatch(p)
  PROVE  StepFrame(p)
  <1>1. CommandTypeOK /\ shell \in [Shells -> ShellStates] /\ shell[p] \in ShellStates /\ file \in [Files -> FileStates]
    BY DEF CommandInvariant, CommandTypeOK
  <1>2. CASE Start(p)
    <2>1. file' = file
      BY <1>2 DEF Start
    <2>2. /\ \A r \in Shells : r # p => shell'[r] = shell[r]
          /\ shell'[p].session = shell[p].session /\ shell'[p].wrote = shell[p].wrote /\ shell'[p].code = -1
          /\ ~Busy(p)
      BY <1>1, <1>2, Zenon DEF Start, ShellStates
    <2>3. -1 # 0
      OBVIOUS
    <2>4. QED
      BY <2>1, <2>2, <2>3 DEF StepFrame
  <1>3. CASE Fail(p) \/ Kill(p)
    <2> DEFINE code == IF Fail(p) THEN Now(p).code ELSE KILLED
    <2>1. Busy(p) /\ file' = file /\ shell' = [shell EXCEPT ![p] = Ended(shell[p], code, Now(p).do)]
      BY <1>3 DEF Fail, Kill
    <2>2. Now(p) \in CommandSteps
      BY <2>1, Underway
    <2>3. Now(p).do \in Failures /\ Now(p).code \in Codes
      BY <2>2 DEF CommandSteps, Failures
    <2>4. code \in Int /\ code # 0
      BY <2>3 DEF Codes, KILLED
    <2> HIDE DEF code
    <2>5. /\ shell'[p] = Ended(shell[p], code, Now(p).do) /\ \A r \in Shells : r # p => shell'[r] = shell[r]
      BY <1>1, <2>1
    <2>6. /\ shell'[p].code = code /\ shell'[p].session = shell[p].session /\ shell'[p].wrote = shell[p].wrote
          /\ shell'[p].step = 0
      BY <1>1, <2>3, <2>4, <2>5, EndedType
    <2>7. QED
      BY <2>1, <2>4, <2>5, <2>6 DEF StepFrame
  <1>4. CASE Plain(p) \/ OpenWorkspace(p) \/ InitWorkspace(p) \/ AcceptBatch(p)
    <2>1. Busy(p) /\ file' = file /\ shell' = [shell EXCEPT ![p] = WentOn(p, shell[p], shell[p].step)]
      BY <1>4 DEF Plain, OpenWorkspace, InitWorkspace, AcceptBatch, Doing, Moved
    <2>2. SameCommand(p, shell[p]) /\ shell[p].step \in Nat
      BY <2>1, Underway
    <2>3. QED
      BY <2>1, <2>2, QuietFrame
  <1>5. CASE GiveOptions(p)
    <2>1. PICK given : shell' = [shell EXCEPT ![p] = WentOn(p, [shell[p] EXCEPT !.missing = Now(p).of \ given], shell[p].step)]
      BY <1>5 DEF GiveOptions, Moved, Now
    <2>2. Busy(p) /\ file' = file /\ Now(p).do = "options"
      BY <1>5 DEF GiveOptions, Doing
    <2>3. /\ shell[p].step \in Nat /\ Now(p) = Program(p)[shell[p].step] /\ shell[p].step \in DOMAIN Program(p)
          /\ Named(Program(p))
      BY <2>2, Underway
    <2>4. Now(p).of \in SUBSET Names
      BY <2>2, <2>3 DEF Named
    <2> DEFINE process == [shell[p] EXCEPT !.missing = Now(p).of \ given]
    <2>5. /\ process \in ShellStates /\ process.session = shell[p].session /\ process.at = shell[p].at
          /\ process.code = shell[p].code /\ process.wrote = shell[p].wrote
      BY <1>1, <2>4 DEF ShellStates
    <2>6. shell' = [shell EXCEPT ![p] = WentOn(p, process, shell[p].step)]
      BY <2>1
    <2> HIDE DEF process
    <2>7. SameCommand(p, process)
      BY <2>5 DEF SameCommand
    <2>8. QED
      BY <2>2, <2>3, <2>5, <2>6, <2>7, QuietFrame
  <1>6. CASE Read(p)
    <2> DEFINE r == [how |-> Now(p).do, state |-> file[Of(p)].state]
               process == [shell[p] EXCEPT !.batch = file[Of(p)].batch, !.seen = @ \cup {r}]
    <2>1. Busy(p) /\ Now(p).do \in Reading /\ file' = file
      BY <1>6 DEF Read, Doing, Reading
    <2>2. Of(p) \in Files /\ shell[p].step \in Nat
      BY <2>1, Underway
    <2>3. r \in [how : Reading, state : States] /\ file[Of(p)].batch \in Int
      BY <1>1, <2>1, <2>2 DEF FileStates
    <2>4. shell' = [shell EXCEPT ![p] = WentOn(p, process, shell[p].step)]
      BY <1>6 DEF Read, Moved
    <2> HIDE DEF r
    <2>5. /\ process \in ShellStates /\ process.session = shell[p].session /\ process.at = shell[p].at
          /\ process.code = shell[p].code /\ process.wrote = shell[p].wrote
      BY <1>1, <2>3 DEF ShellStates
    <2> HIDE DEF process
    <2>6. SameCommand(p, process)
      BY <2>5 DEF SameCommand
    <2>7. QED
      BY <2>1, <2>2, <2>4, <2>5, <2>6, QuietFrame
  <1>7. CASE Reuse(p)
    <2>1. Busy(p) /\ Now(p).do = "reuse" /\ file' = file
      BY <1>7 DEF Reuse, Doing
    <2>2. /\ SameCommand(p, shell[p]) /\ shell[p].step \in Nat /\ Jumps(Program(p)) /\ shell[p].step \in DOMAIN Program(p)
          /\ Now(p) = Program(p)[shell[p].step]
      BY <2>1, Underway
    <2>3. Now(p).of \in Nat
      BY <2>1, <2>2 DEF Jumps
    <2>4. shell[p].step + Now(p).of \in Nat
      BY <2>2, <2>3
    <2>5. \E m \in Nat : shell' = [shell EXCEPT ![p] = WentOn(p, shell[p], m)]
      BY <1>7, <2>2, <2>4 DEF Reuse, Moved
    <2>6. QED
      BY <2>1, <2>2, <2>5, QuietFrame
  <1>8. CASE HandOutBatch(p)
    <2> DEFINE process == [shell[p] EXCEPT !.batch = NextBatch]
    <2>1. Busy(p) /\ file' = file /\ shell' = [shell EXCEPT ![p] = WentOn(p, process, shell[p].step)]
      BY <1>8 DEF HandOutBatch, Doing, Moved
    <2>2. shell[p].step \in Nat
      BY <2>1, Underway
    <2>3. NextBatch \in Int /\ shell[p] \in ShellStates
      BY <1>1 DEF NextBatch, CommandTypeOK
    <2>4. /\ process \in ShellStates /\ process.session = shell[p].session /\ process.at = shell[p].at
          /\ process.code = shell[p].code /\ process.wrote = shell[p].wrote
      BY <2>3 DEF ShellStates
    <2> HIDE DEF process
    <2>5. SameCommand(p, process)
      BY <2>4 DEF SameCommand
    <2>6. QED
      BY <2>1, <2>2, <2>4, <2>5, QuietFrame
  <1>9. QED
    BY <1>2, <1>3, <1>4, <1>5, <1>6, <1>7, <1>8

LEMMA WritingFrames ==
  ASSUME CommandInvariant, NEW p \in Shells, CreateFile(p) \/ Rows(p) \/ Close(p) \/ RemoveFiles(p)
  PROVE  StepFrame(p)
  <1> DEFINE c == Program(p)
             k == shell[p].step
  <1>1. CommandTypeOK /\ shell \in [Shells -> ShellStates] /\ shell[p] \in ShellStates /\ file \in [Files -> FileStates]
    BY DEF CommandInvariant, CommandTypeOK
  <1>2. Busy(p) /\ Now(p).do \in Writing \cup {"remove"}
    BY DEF CreateFile, Rows, Close, RemoveFiles, Doing, Writing
  <1>3. /\ k \in DOMAIN c /\ k \in Nat /\ Now(p) = c[k] /\ Of(p) = Target(p, k) /\ SameCommand(p, shell[p])
        /\ shell[p].touched \subseteq shell[p].wrote /\ OpenIsHalf(p) /\ CreatedIsWritten(p)
        /\ Removes(c) /\ (Kept(c) \/ Unskipped(c))
    BY <1>2, Underway
  <1>4. CASE CreateFile(p)
    <2> DEFINE process == [shell[p] EXCEPT !.touched = @ \cup {Of(p)}, !.wrote = @ \cup {Of(p)}]
    <2>1. /\ Now(p).do = "create" /\ shell' = [shell EXCEPT ![p] = WentOn(p, process, k)]
          /\ file' = [file EXCEPT ![Of(p)] = [state |-> "half", by |-> p, batch |-> 0]]
      BY <1>4 DEF CreateFile, Doing, Moved
    <2>2. Of(p) \in Files
      BY <1>2, <2>1, Underway DEF Writing
    <2>3. /\ process \in ShellStates /\ process.session = shell[p].session /\ process.at = shell[p].at
          /\ process.code = shell[p].code /\ process.wrote = shell[p].wrote \cup {Of(p)}
      BY <1>1, <2>2 DEF ShellStates
    <2>4. \A f \in Files : file'[f] = file[f] \/ f = Of(p)
      BY <1>1, <2>1
    <2>5. c[k].do = "create" /\ Target(p, k) = Of(p)
      BY <1>3, <2>1
    <2> HIDE DEF process, c, k
    <2>6. SameCommand(p, process)
      BY <2>3 DEF SameCommand
    <2>7. /\ \A r \in Shells : r # p => shell'[r] = shell[r]
          /\ shell'[p].session = shell[p].session /\ shell'[p].wrote = process.wrote
          /\ shell'[p].code = 0 => shell'[p].last = shell[p].at
          /\ shell'[p].step # 0 => shell'[p].at = shell[p].at
      BY <1>2, <1>3, <2>1, <2>6, MovedOn
    <2>8. QED
      BY <1>2, <1>3, <2>3, <2>4, <2>5, <2>7 DEF StepFrame, c
  <1>5. CASE Rows(p) \/ Close(p)
    <2>1. /\ Now(p).do \in {"rows", "close"} /\ shell' = [shell EXCEPT ![p] = WentOn(p, shell[p], k)]
      BY <1>5 DEF Rows, Close, Doing, Moved
    <2>2. \A f \in Files : file'[f] = file[f] \/ f = Of(p)
      BY <1>1, <1>5 DEF Rows, Close
    <2>3. PICK h \in DOMAIN c, j \in DOMAIN c : Block(c, h, j) /\ Target(p, h) = Of(p) /\ Within(p, h, j)
      <3>1. Now(p).do \in Writing /\ Now(p).do # "create"
        BY <2>1 DEF Writing
      <3>2. QED
        BY <1>2, <3>1, OwnBlock
    <2>4. c[h].do = "create" /\ Of(p) \in shell[p].touched
      BY <1>2, <1>3, <2>3 DEF Block, OpenIsHalf
    <2> HIDE DEF c, k
    <2>5. /\ \A r \in Shells : r # p => shell'[r] = shell[r]
          /\ shell'[p].session = shell[p].session /\ shell'[p].wrote = shell[p].wrote
          /\ shell'[p].code = 0 => shell'[p].last = shell[p].at
          /\ shell'[p].step # 0 => shell'[p].at = shell[p].at
      BY <1>2, <1>3, <2>1, MovedOn
    <2>6. QED
      BY <1>2, <1>3, <2>2, <2>3, <2>4, <2>5 DEF StepFrame, c
  <1>6. CASE RemoveFiles(p)
    <2> DEFINE all == {Use(p).bind[role] : role \in Now(p).of}
    <2>1. PICK removed \in {{}, all} :
            /\ file' = [f \in Files |-> IF f \in removed THEN [file[f] EXCEPT !.state = "none"] ELSE file[f]]
            /\ shell' = [shell EXCEPT ![p] = WentOn(p, [shell[p] EXCEPT !.touched = @ \ removed], k)]
      BY <1>6 DEF RemoveFiles, Moved
    <2>2. c[k].do = "remove" /\ Unskipped(c)
      BY <1>3, <1>6 DEF RemoveFiles, Doing, Kept
    <2> DEFINE process == [shell[p] EXCEPT !.touched = @ \ removed]
    <2>3. /\ process \in ShellStates /\ process.session = shell[p].session /\ process.at = shell[p].at
          /\ process.code = shell[p].code /\ process.wrote = shell[p].wrote
      BY <1>1 DEF ShellStates
    <2>4. shell' = [shell EXCEPT ![p] = WentOn(p, process, k)]
      BY <2>1
    <2> HIDE DEF process
    <2>5. SameCommand(p, process)
      BY <2>3 DEF SameCommand
    <2>6. ASSUME NEW f \in Files, file'[f] # file[f]
          PROVE  f \in shell[p].wrote /\ \E h \in DOMAIN c : c[h].do = "create" /\ Target(p, h) = f
      <3>1. f \in removed
        BY <2>1, <2>6
      <3>2. PICK role \in Now(p).of : f = Use(p).bind[role]
        BY <2>1, <3>1
      <3>3. PICK h \in DOMAIN c : h < k /\ c[h].do = "create" /\ c[h].of = role
        BY <1>3, <2>2, <3>2 DEF Removes
      <3>4. Target(p, h) \in shell[p].wrote
        BY <1>2, <1>3, <2>2, <3>3 DEF CreatedIsWritten
      <3>5. QED
        BY <3>2, <3>3, <3>4 DEF Target
    <2> HIDE DEF c, k
    <2>7. /\ \A r \in Shells : r # p => shell'[r] = shell[r]
          /\ shell'[p].session = shell[p].session /\ shell'[p].wrote = process.wrote
          /\ shell'[p].code = 0 => shell'[p].last = shell[p].at
          /\ shell'[p].step # 0 => shell'[p].at = shell[p].at
      BY <1>2, <1>3, <2>4, <2>5, MovedOn
    <2>8. QED
      BY <1>2, <2>3, <2>6, <2>7 DEF StepFrame, c
  <1>7. QED
    BY <1>4, <1>5, <1>6

LEMMA Frames ==
  ASSUME CommandInvariant, NEW p \in Shells, ShellStep(p)
  PROVE  StepFrame(p)
  BY PlainFrames, WritingFrames DEF ShellStep

-----------------------------------------------------------------------------
(* A step of an annual run.                                                  *)

LEMMA AnnualPlaces ==
  ASSUME NEW k \in 1..46
  PROVE  \/ k = 1 \/ k = 2 \/ k = 3 \/ k = 4 \/ k = 5 \/ k = 6 \/ k = 7 \/ k = 8 \/ k = 9 \/ k = 10 \/ k = 11 \/ k = 12
         \/ k = 13 \/ k = 14 \/ k = 15 \/ k = 16 \/ k = 17 \/ k = 18 \/ k = 19 \/ k = 20 \/ k = 21 \/ k = 22 \/ k = 23
         \/ k = 24 \/ k = 25 \/ k = 26 \/ k = 27 \/ k = 28 \/ k = 29 \/ k = 30 \/ k = 31 \/ k = 32 \/ k = 33 \/ k = 34
         \/ k = 35 \/ k = 36 \/ k = 37 \/ k = 38 \/ k = 39 \/ k = 40 \/ k = 41 \/ k = 42 \/ k = 43 \/ k = 44 \/ k = 45
         \/ k = 46
  OBVIOUS

\* The places of the steps that matter.
ReadingPlaces == {2, 4, 24, 28, 36, 40, 41, 44}
CreatingPlaces == {12, 14, 16, 18, 20, 23, 27, 31, 33, 35, 39}
ClosingPlaces == {13, 15, 17, 19, 21, 26, 30, 32, 34, 38, 43}
RowsPlaces == {25, 29, 37, 42}
OtherPlaces == {3, 5, 6, 7, 8, 9, 10, 11, 45, 46}
AnnualKind(c, k) ==
  \/ k = 1 /\ c[k].do = "options" /\ c[k].of = {}
  \/ k \in ReadingPlaces /\ c[k].do \in Reading
  \/ k \in CreatingPlaces /\ c[k].do = "create"
  \/ k \in ClosingPlaces /\ c[k].do = "close"
  \/ k \in RowsPlaces /\ c[k].do = "rows"
  \/ k = 22 /\ c[k].do = "reuse" /\ c[k].of = 10
  \/ k \in OtherPlaces /\ c[k].do \in {"compute", "directory", "print"}
LEMMA AnnualKinds ==
  LET c == main("radiance-annual")
  IN  DOMAIN c = 1..46 /\ \A k \in 1..46 : AnnualKind(c, k)
  <1> DEFINE c == main("radiance-annual")
  <1>0. AnnualSteps(c)
    BY AnnualProgram
  <1> HIDE DEF c
  <1>1. c \in Seq(CommandSteps) /\ Len(c) = 46
    BY ONLY <1>0 DEF AnnualSteps
  <1>2. /\ c[2].do = "read lines" /\ c[4].do = "read lines" /\ c[24].do = "read tool" /\ c[28].do = "read tool"
        /\ c[36].do = "read tool" /\ c[40].do = "read tool" /\ c[41].do = "read tool" /\ c[44].do = "read json"
    <2>1. /\ StepAt(c, 2, "read lines", "input") /\ StepAt(c, 4, "read lines", "weather")
          /\ StepAt(c, 24, "read tool", "geometry.rad") /\ StepAt(c, 28, "read tool", "scene.oct")
          /\ StepAt(c, 36, "read tool", "weather.wea") /\ StepAt(c, 40, "read tool", "daylight.mtx")
          /\ StepAt(c, 41, "read tool", "sky.mtx") /\ StepAt(c, 44, "read json", "rgb")
      BY ONLY <1>0 DEF AnnualSteps
    <2>2. QED
      BY ONLY <2>1 DEF StepAt
  <1>3. /\ c[12].do = "create" /\ c[14].do = "create" /\ c[16].do = "create" /\ c[18].do = "create" /\ c[20].do = "create"
        /\ c[23].do = "create" /\ c[27].do = "create" /\ c[31].do = "create" /\ c[33].do = "create" /\ c[35].do = "create"
        /\ c[39].do = "create"
    <2>1. /\ StepAt(c, 12, "create", "materials.rad") /\ StepAt(c, 14, "create", "geometry.rad")
          /\ StepAt(c, 16, "create", "sensors.pts") /\ StepAt(c, 18, "create", "manifest.json")
          /\ StepAt(c, 20, "create", "receiver.rad") /\ StepAt(c, 23, "create", "scene.oct")
          /\ StepAt(c, 27, "create", "daylight.mtx") /\ StepAt(c, 31, "create", "daylight.key")
          /\ StepAt(c, 33, "create", "weather.wea") /\ StepAt(c, 35, "create", "sky.mtx")
          /\ StepAt(c, 39, "create", "rgb")
      BY ONLY <1>0 DEF AnnualSteps
    <2>2. QED
      BY ONLY <2>1 DEF StepAt
  <1>4. /\ c[13].do = "close" /\ c[15].do = "close" /\ c[17].do = "close" /\ c[19].do = "close" /\ c[21].do = "close"
        /\ c[26].do = "close" /\ c[30].do = "close" /\ c[32].do = "close" /\ c[34].do = "close" /\ c[38].do = "close"
        /\ c[43].do = "close"
    <2>1. /\ StepAt(c, 13, "close", "materials.rad") /\ StepAt(c, 15, "close", "geometry.rad")
          /\ StepAt(c, 17, "close", "sensors.pts") /\ StepAt(c, 19, "close", "manifest.json")
          /\ StepAt(c, 21, "close", "receiver.rad") /\ StepAt(c, 26, "close", "scene.oct")
          /\ StepAt(c, 30, "close", "daylight.mtx") /\ StepAt(c, 32, "close", "daylight.key")
          /\ StepAt(c, 34, "close", "weather.wea") /\ StepAt(c, 38, "close", "sky.mtx")
          /\ StepAt(c, 43, "close", "rgb")
      BY ONLY <1>0 DEF AnnualSteps
    <2>2. QED
      BY ONLY <2>1 DEF StepAt
  <1>5. /\ c[25].do = "rows" /\ c[29].do = "rows" /\ c[37].do = "rows" /\ c[42].do = "rows"
        /\ c[22].do = "reuse" /\ c[22].of = 10 /\ c[1].do = "options" /\ c[1].of = {}
    <2>1. /\ StepAt(c, 1, "options", {}) /\ StepAt(c, 22, "reuse", 10) /\ StepAt(c, 25, "rows", "scene.oct")
          /\ StepAt(c, 29, "rows", "daylight.mtx") /\ StepAt(c, 37, "rows", "sky.mtx")
          /\ StepAt(c, 42, "rows", "rgb")
      BY ONLY <1>0 DEF AnnualSteps
    <2>2. QED
      BY ONLY <2>1 DEF StepAt
  <1>6. /\ c[3].do = "compute" /\ c[5].do = "compute" /\ c[6].do = "compute" /\ c[7].do = "compute" /\ c[8].do = "compute"
        /\ c[9].do = "directory" /\ c[10].do = "directory" /\ c[11].do = "directory"
        /\ c[45].do = "compute" /\ c[46].do = "print"
    BY ONLY <1>0 DEF AnnualSteps, Does
  <1>7. ASSUME NEW k \in 1..46
        PROVE  \/ k = 1 \/ k \in ReadingPlaces \/ k \in CreatingPlaces \/ k \in ClosingPlaces \/ k \in RowsPlaces \/ k = 22
               \/ k \in OtherPlaces
    BY AnnualPlaces DEF ReadingPlaces, CreatingPlaces, ClosingPlaces, RowsPlaces, OtherPlaces
  <1>8. ASSUME NEW k \in 1..46 PROVE AnnualKind(c, k)
    <2>1. CASE k = 1 \/ k = 22
      BY <1>5, <2>1 DEF AnnualKind
    <2>2. CASE k \in ReadingPlaces
      <3>1. c[k].do \in Reading
        <4>1. /\ c[2].do \in Reading /\ c[4].do \in Reading /\ c[24].do \in Reading /\ c[28].do \in Reading
              /\ c[36].do \in Reading /\ c[40].do \in Reading /\ c[41].do \in Reading /\ c[44].do \in Reading
          BY ONLY <1>2 DEF Reading
        <4>2. QED
          BY ONLY <2>2, <4>1 DEF ReadingPlaces
      <3>2. QED
        BY <2>2, <3>1 DEF AnnualKind
    <2>3. CASE k \in CreatingPlaces
      <3>1. c[k].do = "create"
        BY <1>3, <2>3 DEF CreatingPlaces
      <3>2. QED
        BY <2>3, <3>1 DEF AnnualKind
    <2>4. CASE k \in ClosingPlaces
      <3>1. c[k].do = "close"
        BY <1>4, <2>4 DEF ClosingPlaces
      <3>2. QED
        BY <2>4, <3>1 DEF AnnualKind
    <2>5. CASE k \in RowsPlaces
      <3>1. c[k].do = "rows"
        BY <1>5, <2>5 DEF RowsPlaces
      <3>2. QED
        BY <2>5, <3>1 DEF AnnualKind
    <2>6. CASE k \in OtherPlaces
      <3>1. c[k].do \in {"compute", "directory", "print"}
        BY <1>6, <2>6 DEF OtherPlaces
      <3>2. QED
        BY <2>6, <3>1 DEF AnnualKind
    <2>7. QED
      BY <1>7, <2>1, <2>2, <2>3, <2>4, <2>5, <2>6
  <1>9. QED
    BY <1>1, <1>8 DEF c

\* What is read, and how.
AnnualReads(c) ==
  /\ c[2].of = "input" /\ c[4].of = "weather" /\ c[24].of = "geometry.rad" /\ c[28].of = "scene.oct"
  /\ c[36].of = "weather.wea" /\ c[40].of = "daylight.mtx" /\ c[41].of = "sky.mtx" /\ c[44].of = "rgb"
  /\ c[2].do = "read lines" /\ c[4].do = "read lines" /\ c[44].do = "read json"
\* What is written: nothing but files of the directory.
AnnualWrites(c) ==
  /\ c[12].of = "materials.rad" /\ c[14].of = "geometry.rad" /\ c[16].of = "sensors.pts" /\ c[18].of = "manifest.json"
  /\ c[20].of = "receiver.rad" /\ c[23].of = "scene.oct" /\ c[27].of = "daylight.mtx" /\ c[31].of = "daylight.key"
  /\ c[33].of = "weather.wea" /\ c[35].of = "sky.mtx" /\ c[39].of = "rgb"
AnnualCloses(c) ==
  /\ c[13].of = "materials.rad" /\ c[15].of = "geometry.rad" /\ c[17].of = "sensors.pts" /\ c[19].of = "manifest.json"
  /\ c[21].of = "receiver.rad" /\ c[26].of = "scene.oct" /\ c[30].of = "daylight.mtx" /\ c[32].of = "daylight.key"
  /\ c[34].of = "weather.wea" /\ c[38].of = "sky.mtx" /\ c[43].of = "rgb"
LEMMA AnnualFiles ==
  LET c == main("radiance-annual") IN AnnualReads(c) /\ AnnualWrites(c) /\ AnnualCloses(c)
  <1> DEFINE c == main("radiance-annual")
  <1>0. AnnualSteps(c)
    BY AnnualProgram
  <1> HIDE DEF c
  <1>1. AnnualReads(c)
    <2>1. /\ StepAt(c, 2, "read lines", "input") /\ StepAt(c, 4, "read lines", "weather")
          /\ StepAt(c, 24, "read tool", "geometry.rad") /\ StepAt(c, 28, "read tool", "scene.oct")
          /\ StepAt(c, 36, "read tool", "weather.wea") /\ StepAt(c, 40, "read tool", "daylight.mtx")
          /\ StepAt(c, 41, "read tool", "sky.mtx") /\ StepAt(c, 44, "read json", "rgb")
      BY ONLY <1>0 DEF AnnualSteps
    <2>2. QED
      BY ONLY <2>1 DEF StepAt, AnnualReads
  <1>2. AnnualWrites(c)
    <2>1. /\ StepAt(c, 12, "create", "materials.rad") /\ StepAt(c, 14, "create", "geometry.rad")
          /\ StepAt(c, 16, "create", "sensors.pts") /\ StepAt(c, 18, "create", "manifest.json")
          /\ StepAt(c, 20, "create", "receiver.rad") /\ StepAt(c, 23, "create", "scene.oct")
          /\ StepAt(c, 27, "create", "daylight.mtx") /\ StepAt(c, 31, "create", "daylight.key")
          /\ StepAt(c, 33, "create", "weather.wea") /\ StepAt(c, 35, "create", "sky.mtx")
          /\ StepAt(c, 39, "create", "rgb")
      BY ONLY <1>0 DEF AnnualSteps
    <2>2. QED
      BY ONLY <2>1 DEF StepAt, AnnualWrites
  <1>3. AnnualCloses(c)
    <2>1. /\ StepAt(c, 13, "close", "materials.rad") /\ StepAt(c, 15, "close", "geometry.rad")
          /\ StepAt(c, 17, "close", "sensors.pts") /\ StepAt(c, 19, "close", "manifest.json")
          /\ StepAt(c, 21, "close", "receiver.rad") /\ StepAt(c, 26, "close", "scene.oct")
          /\ StepAt(c, 30, "close", "daylight.mtx") /\ StepAt(c, 32, "close", "daylight.key")
          /\ StepAt(c, 34, "close", "weather.wea") /\ StepAt(c, 38, "close", "sky.mtx")
          /\ StepAt(c, 43, "close", "rgb")
      BY ONLY <1>0 DEF AnnualSteps
    <2>2. QED
      BY ONLY <2>1 DEF StepAt, AnnualCloses
  <1>4. QED
    BY <1>1, <1>2, <1>3 DEF c

LEMMA AnnualGoing ==
  ASSUME CommandTypeOK, NEW p \in Shells, shell[p].at <= Len(shell[p].session), IsAnnual(Use(p)),
         NEW process \in ShellStates, process.missing = {}, NEW m \in 1..46
  PROVE  /\ m < 46 => WentOn(p, process, m) = [process EXCEPT !.step = m + 1]
         /\ m = 46 => \E failed \in Failures : WentOn(p, process, m) = Ended(process, 0, failed)
  <1> DEFINE S == Following(p, process, m)
  <1>1. DOMAIN Program(p) = 1..46
    BY AnnualKinds DEF Program, IsAnnual
  <1>2. \A i : i \in S <=> i \in 1..46 /\ i > m
    BY <1>1 DEF Following
  <1> HIDE DEF S
  <1>3. m \in Nat
    OBVIOUS
  <1>4. \/ S = {} /\ \E failed \in Failures : WentOn(p, process, m) = Ended(process, 0, failed)
        \/ \E i \in S : (\A j \in S : i <= j) /\ WentOn(p, process, m) = [process EXCEPT !.step = i]
    BY <1>3, Going DEF S
  <1>5. CASE m < 46
    <2>1. m + 1 \in S
      BY <1>2, <1>5
    <2>2. PICK i \in S : (\A j \in S : i <= j) /\ WentOn(p, process, m) = [process EXCEPT !.step = i]
      BY <1>4, <2>1
    <2>3. i <= m + 1 /\ i \in 1..46 /\ i > m
      BY <1>2, <2>1, <2>2
    <2>4. i = m + 1
      BY <1>3, <2>3
    <2>5. m # 46
      BY <1>5
    <2>6. QED
      BY <2>2, <2>4, <2>5
  <1>6. CASE m = 46
    <2>1. ASSUME NEW i, i \in S PROVE FALSE
      <3>1. i \in 1..46 /\ i > m
        BY <1>2, <2>1
      <3>2. QED
        BY <1>6, <3>1
    <2>2. ~(m < 46)
      BY <1>6
    <2>3. QED
      BY <1>4, <2>1, <2>2
  <1>7. QED
    BY <1>5, <1>6

-----------------------------------------------------------------------------
(* What the steps of an annual run do to what it relies on.                  *)

\* The files of a directory are different ones.
OwnFiles(run) ==
  /\ run.bind \in [Roles -> Files]
  /\ \A r, s \in AnnualRoles : run.bind[r] = run.bind[s] => r = s
AllBut(files, new, f) == \A g \in Files : g # f => new[g] = files[g]

LEMMA AnnualRolesAre ==
  /\ AnnualRoles \subseteq Roles
  /\ AnnualRoles = {"materials.rad", "geometry.rad", "sensors.pts", "manifest.json", "receiver.rad", "scene.oct",
                    "daylight.mtx", "daylight.key", "weather.wea", "sky.mtx", "rgb", "weather"}
  <1>1. AnnualRoles = {"materials.rad", "geometry.rad", "sensors.pts", "manifest.json", "receiver.rad", "scene.oct",
                    "daylight.mtx", "daylight.key", "weather.wea", "sky.mtx", "rgb", "weather"}
    BY DEF AnnualRoles, BundleFiles
  <1>2. QED
    BY <1>1, RoleNames DEF Roles, BundleFiles

LEMMA OthersUntouched ==
  ASSUME NEW run, OwnFiles(run), NEW role \in AnnualRoles, NEW files, NEW new, AllBut(files, new, run.bind[role])
  PROVE  \A r \in AnnualRoles : r # role => new[run.bind[r]] = files[run.bind[r]]
  <1>1. ASSUME NEW r \in AnnualRoles, r # role PROVE new[run.bind[r]] = files[run.bind[r]]
    <2>1. run.bind[r] # run.bind[role] /\ run.bind[r] \in Files
      BY <1>1, AnnualRolesAre DEF OwnFiles
    <2>2. QED
      BY <2>1 DEF AllBut
  <1>2. QED
    BY <1>1

\* A step that neither reads nor writes what counts.
LEMMA PassingBy ==
  ASSUME NEW files, NEW run, NEW batch, NEW k \in 1..46, k \in {1} \cup OtherPlaces \cup RowsPlaces, OnCourse(files, k, run, batch)
  PROVE  OnCourse(files, k + 1, run, batch)
  <1> USE DEF OtherPlaces, RowsPlaces, OnCourse
  <1>1. BatchAt(files, k + 1, run, batch)
    BY DEF BatchAt
  <1>2. FilesAt(files, k + 1, run)
    BY DEF FilesAt
  <1>3. MatrixAt(files, k + 1, run)
    BY DEF MatrixAt
  <1>4. QED
    BY <1>1, <1>2, <1>3

\* A reading takes the batch over; the weather's, whatever has been read before.
AfterReading(files, k, run, c) ==
  /\ OnCourse(files, k + 1, run, files[run.bind[c[k].of]].batch)
  /\ c[k].do = "read tool" => files[run.bind[c[k].of]].state = "whole"
LEMMA ReadingOn ==
  ASSUME NEW files, NEW run, NEW batch, NEW c, AnnualReads(c), NEW k \in ReadingPlaces, OnCourse(files, k, run, batch)
  PROVE  AfterReading(files, k, run, c)
  <1> DEFINE read == files[run.bind[c[k].of]]
             weather == files[run.bind["weather"]].batch
  <1>1. k \in {2, 4, 24, 28, 36, 40, 41, 44}
    BY DEF ReadingPlaces
  <1>2. FilesAt(files, k + 1, run)
    BY <1>1 DEF OnCourse, FilesAt
  <1>3. MatrixAt(files, k + 1, run)
    BY <1>1 DEF OnCourse, MatrixAt
  <1>4. k = 2 => c[k].do # "read tool"
    BY DEF AnnualReads
  <1>5. k = 4 => read.batch = weather /\ c[k].do # "read tool"
    BY DEF AnnualReads
  <1>0. 24 \in 16..24 /\ 28 \in 27..28 /\ 36 \in 35..36 /\ 40 \in 31..46 /\ 41 \in 39..41
    OBVIOUS
  <1>6. k = 24 => read.batch = weather /\ read.state = "whole"
    <2>1. k = 24 => Written(files, run, "geometry.rad")
      BY ONLY <1>0, OnCourse(files, k, run, batch) DEF OnCourse, FilesAt
    <2>2. c[24].of = "geometry.rad"
      BY DEF AnnualReads
    <2>3. QED
      BY ONLY <2>1, <2>2 DEF Written, read, weather
  <1>7. k = 28 => read.batch = weather /\ read.state = "whole"
    <2>1. k = 28 => Written(files, run, "scene.oct")
      BY ONLY <1>0, OnCourse(files, k, run, batch) DEF OnCourse, FilesAt
    <2>2. c[28].of = "scene.oct"
      BY DEF AnnualReads
    <2>3. QED
      BY ONLY <2>1, <2>2 DEF Written, read, weather
  <1>8. k = 36 => read.batch = weather /\ read.state = "whole"
    <2>1. k = 36 => Written(files, run, "weather.wea")
      BY ONLY <1>0, OnCourse(files, k, run, batch) DEF OnCourse, FilesAt
    <2>2. c[36].of = "weather.wea"
      BY DEF AnnualReads
    <2>3. QED
      BY ONLY <2>1, <2>2 DEF Written, read, weather
  <1>9. k = 40 => read.state = "whole"
    <2>1. k = 40 => files[MatrixOf(run)].state = "whole"
      BY ONLY <1>0, OnCourse(files, k, run, batch) DEF OnCourse, MatrixAt
    <2>2. c[40].of = "daylight.mtx"
      BY DEF AnnualReads
    <2>3. QED
      BY ONLY <2>1, <2>2 DEF MatrixOf, read
  <1>10. k = 41 => read.batch = weather /\ read.state = "whole"
    <2>1. k = 41 => Written(files, run, "sky.mtx")
      BY ONLY <1>0, OnCourse(files, k, run, batch) DEF OnCourse, FilesAt
    <2>2. c[41].of = "sky.mtx"
      BY DEF AnnualReads
    <2>3. QED
      BY ONLY <2>1, <2>2 DEF Written, read, weather
  <1>11. k = 44 => read.batch = weather /\ c[k].do # "read tool"
    <2>1. k = 44 => Written(files, run, "rgb")
      BY ONLY OnCourse(files, k, run, batch) DEF OnCourse, FilesAt
    <2>2. c[44].of = "rgb" /\ c[44].do = "read json"
      BY DEF AnnualReads
    <2>3. QED
      BY ONLY <2>1, <2>2 DEF Written, read, weather
  <1> HIDE DEF read, weather
  <1>12. BatchAt(files, k + 1, run, read.batch)
    <2>1. k + 1 >= 5 /\ k + 1 # 41 => read.batch = weather
      <3>1. k = 2 => ~(k + 1 >= 5)
        OBVIOUS
      <3>2. k = 40 => k + 1 = 41
        OBVIOUS
      <3>3. QED
        BY <1>1, <1>5, <1>6, <1>7, <1>8, <1>10, <1>11, <3>1, <3>2
    <2>2. QED
      BY <2>1 DEF BatchAt, weather
  <1>13. c[k].do = "read tool" => read.state = "whole"
    BY <1>1, <1>4, <1>5, <1>6, <1>7, <1>8, <1>9, <1>10, <1>11
  <1>14. QED
    BY <1>2, <1>3, <1>12, <1>13 DEF OnCourse, AfterReading, read

\* A file is truncated that is not relied on, and the matrix only while no mark is there.
LEMMA CreatingOn ==
  ASSUME NEW files, NEW new, NEW run, OwnFiles(run), NEW batch, NEW c, AnnualWrites(c), NEW k \in CreatingPlaces,
         OnCourse(files, k, run, batch), TrueMark(files, run),
         AllBut(files, new, run.bind[c[k].of]), new[run.bind[c[k].of]].state = "half"
  PROVE  OnCourse(new, k + 1, run, batch) /\ TrueMark(new, run)
  <1>1. ASSUME NEW role \in AnnualRoles \ {"weather"}, c[k].of = role,
               role # "daylight.mtx" \/ k \in 23..32,
               k + 1 \in 16..24 => role # "geometry.rad" /\ k \in 16..24,
               k + 1 \in 27..28 => role # "scene.oct" /\ k \in 27..28,
               k + 1 \in 35..36 => role # "weather.wea" /\ k \in 35..36,
               k + 1 \in 39..41 => role # "sky.mtx" /\ k \in 39..41,
               k + 1 # 44, k + 1 # 5,
               k + 1 \in 23..32 => k \in 23..32 \/ role = "daylight.key",
               k + 1 \in 31..46 => role # "daylight.mtx" /\ k \in 31..46
        PROVE  OnCourse(new, k + 1, run, batch) /\ TrueMark(new, run)
    <2>1. \A r \in AnnualRoles : r # role => new[run.bind[r]] = files[run.bind[r]]
      BY <1>1, OthersUntouched
    <2>2. /\ new[run.bind["weather"]] = files[run.bind["weather"]]
          /\ role # "geometry.rad" => new[run.bind["geometry.rad"]] = files[run.bind["geometry.rad"]]
          /\ role # "scene.oct" => new[run.bind["scene.oct"]] = files[run.bind["scene.oct"]]
          /\ role # "weather.wea" => new[run.bind["weather.wea"]] = files[run.bind["weather.wea"]]
          /\ role # "sky.mtx" => new[run.bind["sky.mtx"]] = files[run.bind["sky.mtx"]]
          /\ role # "daylight.mtx" => new[MatrixOf(run)] = files[MatrixOf(run)]
          /\ role # "daylight.key" => new[MarkOf(run)] = files[MarkOf(run)]
      BY <1>1, <2>1, AnnualRolesAre DEF MatrixOf, MarkOf
    <2>3. k \in 1..46
      BY DEF CreatingPlaces
    <2>4. BatchAt(new, k + 1, run, batch)
      BY <1>1, <2>2, <2>3 DEF OnCourse, BatchAt, CreatingPlaces
    <2>5. FilesAt(new, k + 1, run)
      BY <1>1, <2>2 DEF OnCourse, FilesAt, Written
    <2>6. role = "daylight.key" => new[MarkOf(run)].state = "half"
      BY <1>1 DEF MarkOf
    <2>7. MatrixAt(new, k + 1, run)
      BY <1>1, <2>2, <2>6 DEF OnCourse, MatrixAt
    <2>8. TrueMark(new, run)
      BY <1>1, <2>2, <2>6 DEF OnCourse, MatrixAt, TrueMark
    <2>9. QED
      BY <2>4, <2>5, <2>7, <2>8 DEF OnCourse
  <1>2. CASE k = 12 \/ k = 14 \/ k = 16 \/ k = 18 \/ k = 20
    BY <1>1, <1>2, AnnualRolesAre DEF AnnualWrites
  <1>3. CASE k = 23 \/ k = 27
    BY <1>1, <1>3, AnnualRolesAre DEF AnnualWrites
  <1>4. CASE k = 31 \/ k = 33
    BY <1>1, <1>4, AnnualRolesAre DEF AnnualWrites
  <1>5. CASE k = 35 \/ k = 39
    BY <1>1, <1>5, AnnualRolesAre DEF AnnualWrites
  <1>6. QED
    BY <1>2, <1>3, <1>4, <1>5 DEF CreatingPlaces

\* A file that is complete is about the weather, and marks nothing but a whole matrix.
LEMMA ClosingOn ==
  ASSUME NEW files, NEW new, NEW run, OwnFiles(run), NEW batch, NEW c, AnnualCloses(c), NEW k \in ClosingPlaces,
         OnCourse(files, k, run, batch), TrueMark(files, run),
         AllBut(files, new, run.bind[c[k].of]),
         new[run.bind[c[k].of]].state = "whole", new[run.bind[c[k].of]].batch = batch
  PROVE  OnCourse(new, k + 1, run, batch) /\ TrueMark(new, run)
  <1>1. ASSUME NEW role \in AnnualRoles \ {"weather"}, c[k].of = role,
               role = "daylight.key" => k = 32,
               k + 1 \in 16..24 => role = "geometry.rad" \/ k \in 16..24,
               k + 1 \in 27..28 => role = "scene.oct" \/ k \in 27..28,
               k + 1 \in 35..36 => role = "weather.wea" \/ k \in 35..36,
               k + 1 \in 39..41 => role = "sky.mtx" \/ k \in 39..41,
               k + 1 = 44 => role = "rgb",
               k + 1 \in 23..32 => k \in 23..32 /\ role # "daylight.key",
               k + 1 \in 31..46 => role = "daylight.mtx" \/ k \in 31..46
        PROVE  OnCourse(new, k + 1, run, batch) /\ TrueMark(new, run)
    <2>1. \A r \in AnnualRoles : r # role => new[run.bind[r]] = files[run.bind[r]]
      BY <1>1, OthersUntouched
    <2>2. /\ new[run.bind["weather"]] = files[run.bind["weather"]]
          /\ role # "geometry.rad" => new[run.bind["geometry.rad"]] = files[run.bind["geometry.rad"]]
          /\ role # "scene.oct" => new[run.bind["scene.oct"]] = files[run.bind["scene.oct"]]
          /\ role # "weather.wea" => new[run.bind["weather.wea"]] = files[run.bind["weather.wea"]]
          /\ role # "sky.mtx" => new[run.bind["sky.mtx"]] = files[run.bind["sky.mtx"]]
          /\ role # "daylight.mtx" => new[MatrixOf(run)] = files[MatrixOf(run)]
          /\ role # "daylight.key" => new[MarkOf(run)] = files[MarkOf(run)]
      BY <1>1, <2>1, AnnualRolesAre DEF MatrixOf, MarkOf
    <2>3. k \in 13..43 /\ k # 41
      BY DEF ClosingPlaces
    <2>4. batch = files[run.bind["weather"]].batch
      BY <2>3 DEF OnCourse, BatchAt
    <2>5. BatchAt(new, k + 1, run, batch)
      BY <2>2, <2>4 DEF BatchAt
    <2>6. Written(new, run, role)
      BY <1>1, <2>2, <2>4 DEF Written
    <2>7. \A r \in {"geometry.rad", "scene.oct", "weather.wea", "sky.mtx"} : Written(files, run, r) => Written(new, run, r)
      BY <2>2, <2>6 DEF Written
    <2>8. FilesAt(new, k + 1, run)
      BY <1>1, <2>6, <2>7 DEF OnCourse, FilesAt
    <2>9. (role = "daylight.key" => new[MarkOf(run)].state = "whole") /\ (role = "daylight.mtx" => new[MatrixOf(run)].state = "whole")
      BY <1>1 DEF MarkOf, MatrixOf
    <2>10. MatrixAt(new, k + 1, run)
      BY <1>1, <2>2, <2>9 DEF OnCourse, MatrixAt
    <2>11. TrueMark(new, run)
      BY <1>1, <2>2, <2>9 DEF OnCourse, MatrixAt, TrueMark
    <2>12. QED
      BY <2>5, <2>8, <2>10, <2>11 DEF OnCourse
  <1>2. CASE k = 13 \/ k = 15 \/ k = 17 \/ k = 19 \/ k = 21
    BY <1>1, <1>2, AnnualRolesAre DEF AnnualCloses
  <1>3. CASE k = 26 \/ k = 30
    BY <1>1, <1>3, AnnualRolesAre DEF AnnualCloses
  <1>4. CASE k = 32 \/ k = 34
    BY <1>1, <1>4, AnnualRolesAre DEF AnnualCloses
  <1>5. CASE k = 38 \/ k = 43
    BY <1>1, <1>5, AnnualRolesAre DEF AnnualCloses
  <1>6. QED
    BY <1>2, <1>3, <1>4, <1>5 DEF ClosingPlaces

\* A matrix is taken over only with its mark, and built only where none is.
LEMMA ReusingOn ==
  ASSUME NEW files, NEW run, NEW batch, OnCourse(files, 22, run, batch), TrueMark(files, run)
  PROVE  /\ files[MatrixOf(run)].state # "none" /\ files[MarkOf(run)].state \in {"whole", "mixed"}
               => OnCourse(files, 33, run, batch)
         /\ files[MatrixOf(run)].state = "none" \/ files[MarkOf(run)].state # "whole"
               => OnCourse(files, 23, run, batch)
  <1>1. BatchAt(files, 33, run, batch) /\ BatchAt(files, 23, run, batch)
    BY DEF OnCourse, BatchAt
  <1>2. FilesAt(files, 33, run) /\ FilesAt(files, 23, run)
    BY DEF OnCourse, FilesAt
  <1>3. files[MatrixOf(run)].state # "none" /\ files[MarkOf(run)].state \in {"whole", "mixed"} => MatrixAt(files, 33, run)
    BY DEF TrueMark, MatrixAt
  <1>4. files[MatrixOf(run)].state = "none" \/ files[MarkOf(run)].state # "whole" => MatrixAt(files, 23, run)
    BY DEF TrueMark, MatrixAt
  <1>5. QED
    BY <1>1, <1>2, <1>3, <1>4 DEF OnCourse

-----------------------------------------------------------------------------
(* A step of an annual run, while no other process writes files.             *)

Failing(p) == shell'[p].step = 0 /\ shell'[p].code # 0
Succeeding(p) ==
  /\ shell'[p].step = 0 /\ shell'[p].code = 0 /\ shell'[p].last = shell[p].at
  /\ ToolsReadWhole(shell'[p].seen) /\ shell'[p].batch = file'[Use(p).bind["weather"]].batch
GoingOn(p) ==
  /\ shell'[p].step # 0 /\ shell'[p].code # 0 /\ shell'[p].at = shell[p].at /\ shell'[p].missing = {}
  /\ ToolsReadWhole(shell'[p].seen) /\ OnCourse(file', shell'[p].step, Use(p), shell'[p].batch)
\* What the step leaves is what the rest of the run relies on, or its answer.
Faithful(p) == TrueMark(file', Use(p)) /\ (Failing(p) \/ Succeeding(p) \/ GoingOn(p))
AnnualAlone(p) ==
  /\ Busy(p) /\ IsAnnual(Use(p)) /\ Others(p) = {} /\ OwnFiles(Use(p)) /\ Course(p) /\ TrueMark(file, Use(p))

LEMMA AnnualNow ==
  ASSUME CommandInvariant, NEW p \in Shells, Busy(p), IsAnnual(Use(p))
  PROVE  LET k == shell[p].step
             do == Now(p).do
         IN  /\ k \in 1..46 /\ Of(p) = Use(p).bind[Program(p)[k].of] /\ Now(p) = Program(p)[k]
             /\ AnnualReads(Program(p)) /\ AnnualWrites(Program(p)) /\ AnnualCloses(Program(p))
             /\ do = "options" => k = 1 /\ Now(p).of = {}
             /\ do \in {"compute", "print", "verdict", "directory"} => k \in OtherPlaces
             /\ do \in Reading => k \in ReadingPlaces
             /\ do = "create" => k \in CreatingPlaces
             /\ do = "rows" => k \in RowsPlaces
             /\ do = "close" => k \in ClosingPlaces
             /\ do = "reuse" => k = 22 /\ Now(p).of = 10
             /\ do \notin {"remove", "open", "init", "begin", "commit"}
  <1> DEFINE c == Program(p)
             k == shell[p].step
  <1>1. c = main("radiance-annual")
    BY DEF Program, IsAnnual
  <1>2. DOMAIN c = 1..46 /\ (\A i \in 1..46 : AnnualKind(c, i)) /\ AnnualReads(c) /\ AnnualWrites(c) /\ AnnualCloses(c)
    BY <1>1, AnnualKinds, AnnualFiles
  <1>3. k \in DOMAIN c /\ Now(p) = c[k] /\ Of(p) = Use(p).bind[c[k].of]
    BY Underway DEF Target
  <1>4. k \in 1..46 /\ AnnualKind(c, k)
    BY <1>2, <1>3
  <1> HIDE DEF c, k
  <1>5. /\ c[k].do = "options" => k = 1 /\ c[k].of = {}
        /\ c[k].do \in {"compute", "print", "verdict", "directory"} => k \in OtherPlaces
        /\ c[k].do \in Reading => k \in ReadingPlaces
        /\ c[k].do = "create" => k \in CreatingPlaces
        /\ c[k].do = "rows" => k \in RowsPlaces
        /\ c[k].do = "close" => k \in ClosingPlaces
        /\ c[k].do = "reuse" => k = 22 /\ c[k].of = 10
        /\ c[k].do \notin {"remove", "open", "init", "begin", "commit"}
    BY <1>4 DEF AnnualKind, Reading
  <1>6. QED
    BY <1>2, <1>3, <1>4, <1>5 DEF c, k

LEMMA Advancing ==
  ASSUME CommandInvariant, NEW p \in Shells, Busy(p), IsAnnual(Use(p)), NEW process, SameCommand(p, process),
         process.missing = {}, ToolsReadWhole(process.seen), NEW m \in 1..46,
         shell' = [shell EXCEPT ![p] = WentOn(p, process, m)], OnCourse(file', m + 1, Use(p), process.batch)
  PROVE  Succeeding(p) \/ GoingOn(p)
  <1>1. /\ CommandTypeOK /\ shell[p].at <= Len(shell[p].session) /\ shell[p].code = -1
        /\ process \in ShellStates /\ process.at = shell[p].at /\ process.code = shell[p].code
    BY Underway DEF CommandInvariant, SameCommand, ShellInvariant, Standing
  <1>2. /\ shell'[p] = WentOn(p, process, m) /\ shell'[p].seen = process.seen /\ shell'[p].batch = process.batch
    <2>1. m \in Nat
      OBVIOUS
    <2>2. QED
      BY ONLY CommandInvariant, p \in Shells, Busy(p), SameCommand(p, process), <2>1,
              shell' = [shell EXCEPT ![p] = WentOn(p, process, m)], MovedOn
  <1>3. CASE m < 46
    <2>1. shell'[p] = [process EXCEPT !.step = m + 1]
      BY <1>1, <1>2, <1>3, AnnualGoing
    <2>2. /\ shell'[p].step = m + 1 /\ shell'[p].code = -1 /\ shell'[p].at = shell[p].at /\ shell'[p].missing = {}
      BY <1>1, <2>1 DEF ShellStates
    <2>3. m + 1 # 0 /\ -1 # 0
      OBVIOUS
    <2>4. QED
      BY <1>2, <2>2, <2>3 DEF GoingOn
  <1>4. CASE m = 46
    <2>1. PICK failed \in Failures : shell'[p] = Ended(process, 0, failed)
      BY <1>1, <1>2, <1>4, AnnualGoing
    <2>2. 0 \in Int
      OBVIOUS
    <2>3. shell'[p].step = 0 /\ shell'[p].code = 0 /\ shell'[p].last = shell[p].at
      BY <1>1, <2>1, <2>2, EndedType
    <2>4. process.batch = file'[Use(p).bind["weather"]].batch
      <3>1. 46 + 1 >= 5 /\ 46 + 1 # 41
        OBVIOUS
      <3>2. QED
        BY <1>4, <3>1 DEF OnCourse, BatchAt
    <2>5. QED
      BY <1>2, <2>3, <2>4 DEF Succeeding
  <1>5. QED
    BY <1>3, <1>4

LEMMA AnnualFails ==
  ASSUME CommandInvariant, NEW p \in Shells, AnnualAlone(p), Fail(p) \/ Kill(p)
  PROVE  Faithful(p)
  <1>1. CommandTypeOK /\ shell \in [Shells -> ShellStates] /\ shell[p] \in ShellStates
    BY DEF CommandInvariant, CommandTypeOK
  <1> DEFINE code == IF Fail(p) THEN Now(p).code ELSE KILLED
  <1>2. Busy(p) /\ file' = file /\ shell' = [shell EXCEPT ![p] = Ended(shell[p], code, Now(p).do)]
    BY DEF Fail, Kill
  <1>3. Now(p) \in CommandSteps
    BY <1>2, Underway
  <1>4. Now(p).do \in Failures /\ Now(p).code \in Codes
    BY <1>3 DEF CommandSteps, Failures
  <1>5. code \in Int /\ code # 0
    BY <1>4 DEF Codes, KILLED
  <1> HIDE DEF code
  <1>6. shell'[p] = Ended(shell[p], code, Now(p).do)
    BY <1>1, <1>2
  <1>7. shell'[p].code = code /\ shell'[p].step = 0
    BY <1>1, <1>4, <1>5, <1>6, EndedType
  <1>8. QED
    BY <1>2, <1>5, <1>7 DEF Faithful, Failing, AnnualAlone, TrueMark

\* A step that reads nothing and writes nothing.
LEMMA AnnualPasses ==
  ASSUME CommandInvariant, NEW p \in Shells, AnnualAlone(p), file' = file, shell[p].step \in {1} \cup OtherPlaces \cup RowsPlaces,
         shell' = [shell EXCEPT ![p] = WentOn(p, shell[p], shell[p].step)]
  PROVE  Faithful(p)
  <1>1. /\ Busy(p) /\ IsAnnual(Use(p)) /\ shell[p].missing = {} /\ ToolsReadWhole(shell[p].seen)
        /\ OnCourse(file, shell[p].step, Use(p), shell[p].batch) /\ TrueMark(file, Use(p))
    BY DEF AnnualAlone, Course
  <1>2. SameCommand(p, shell[p]) /\ shell[p].step \in 1..46
    BY <1>1, Underway, AnnualNow
  <1>3. OnCourse(file, shell[p].step + 1, Use(p), shell[p].batch)
    BY <1>1, <1>2, PassingBy
  <1>4. Succeeding(p) \/ GoingOn(p)
    BY <1>1, <1>2, <1>3, Advancing
  <1>5. QED
    BY <1>1, <1>4 DEF Faithful

LEMMA AnnualPlain ==
  ASSUME CommandInvariant, NEW p \in Shells, AnnualAlone(p), Plain(p)
  PROVE  Faithful(p)
  <1>1. /\ Now(p).do \in {"compute", "print", "verdict", "directory"} /\ file' = file
        /\ shell' = [shell EXCEPT ![p] = WentOn(p, shell[p], shell[p].step)]
    BY DEF Plain, Doing, Moved
  <1>2. shell[p].step \in OtherPlaces
    BY <1>1, AnnualNow DEF AnnualAlone
  <1>3. QED
    BY <1>1, <1>2, AnnualPasses

LEMMA AnnualOptions ==
  ASSUME CommandInvariant, NEW p \in Shells, AnnualAlone(p), GiveOptions(p)
  PROVE  Faithful(p)
  <1>1. PICK given : shell' = [shell EXCEPT ![p] = WentOn(p, [shell[p] EXCEPT !.missing = Now(p).of \ given], shell[p].step)]
    BY DEF GiveOptions, Moved, Now
  <1>2. Busy(p) /\ file' = file /\ Now(p).do = "options" /\ shell[p].missing = {} /\ shell[p] \in ShellStates
    BY DEF GiveOptions, Doing, AnnualAlone, Course, CommandInvariant, CommandTypeOK
  <1>3. shell[p].step = 1 /\ Now(p).of = {}
    BY <1>2, AnnualNow DEF AnnualAlone
  <1>4. [shell[p] EXCEPT !.missing = Now(p).of \ given] = shell[p]
    <2>1. Now(p).of \ given = shell[p].missing
      BY <1>2, <1>3
    <2>2. QED
      BY <1>2, <2>1 DEF ShellStates
  <1>5. QED
    BY <1>1, <1>2, <1>3, <1>4, AnnualPasses

LEMMA AnnualReading ==
  ASSUME CommandInvariant, NEW p \in Shells, AnnualAlone(p), Read(p)
  PROVE  Faithful(p)
  <1> DEFINE k == shell[p].step
             r == [how |-> Now(p).do, state |-> file[Of(p)].state]
             process == [shell[p] EXCEPT !.batch = file[Of(p)].batch, !.seen = @ \cup {r}]
  <1>1. /\ Busy(p) /\ IsAnnual(Use(p)) /\ shell[p].missing = {} /\ ToolsReadWhole(shell[p].seen)
        /\ OnCourse(file, k, Use(p), shell[p].batch) /\ TrueMark(file, Use(p))
    BY DEF AnnualAlone, Course
  <1>2. Now(p).do \in Reading /\ file' = file /\ shell' = [shell EXCEPT ![p] = WentOn(p, process, k)]
    BY DEF Read, Doing, Reading, Moved
  <1>3. /\ k \in 1..46 /\ k \in ReadingPlaces /\ AnnualReads(Program(p)) /\ Now(p) = Program(p)[k]
        /\ Of(p) = Use(p).bind[Program(p)[k].of]
    BY <1>1, <1>2, AnnualNow
  <1>4. /\ OnCourse(file, k + 1, Use(p), file[Of(p)].batch)
        /\ Now(p).do = "read tool" => file[Of(p)].state = "whole"
    <2>1. AfterReading(file, k, Use(p), Program(p))
      BY <1>1, <1>3, ReadingOn
    <2>2. QED
      BY <1>3, <2>1 DEF AfterReading
  <1>5. Of(p) \in Files /\ shell[p] \in ShellStates /\ file[Of(p)] \in FileStates
    <2>1. Of(p) \in Files /\ shell[p] \in ShellStates
      BY <1>1, <1>2, Underway
    <2>2. QED
      BY <2>1 DEF CommandInvariant, CommandTypeOK
  <1>6. r \in [how : Reading, state : States] /\ file[Of(p)].batch \in Int
    BY <1>2, <1>5 DEF FileStates
  <1>7. r.how = "read tool" => r.state = "whole"
    BY <1>4
  <1> HIDE DEF r
  <1>8. /\ process \in ShellStates /\ process.session = shell[p].session /\ process.at = shell[p].at
        /\ process.code = shell[p].code /\ process.missing = shell[p].missing
        /\ process.seen = shell[p].seen \cup {r} /\ process.batch = file[Of(p)].batch
    BY <1>5, <1>6 DEF ShellStates
  <1> HIDE DEF process
  <1>9. SameCommand(p, process) /\ ToolsReadWhole(process.seen)
    BY <1>1, <1>7, <1>8 DEF SameCommand, ToolsReadWhole
  <1>10. Succeeding(p) \/ GoingOn(p)
    BY <1>1, <1>2, <1>3, <1>4, <1>8, <1>9, Advancing
  <1>11. QED
    BY <1>1, <1>2, <1>10 DEF Faithful

LEMMA AnnualReuse ==
  ASSUME CommandInvariant, NEW p \in Shells, AnnualAlone(p), Reuse(p)
  PROVE  Faithful(p)
  <1> DEFINE matrix == file[MatrixOf(Use(p))].state
             key == file[MarkOf(Use(p))].state
  <1>1. /\ Busy(p) /\ IsAnnual(Use(p)) /\ shell[p].missing = {} /\ ToolsReadWhole(shell[p].seen)
        /\ OnCourse(file, shell[p].step, Use(p), shell[p].batch) /\ TrueMark(file, Use(p))
    BY DEF AnnualAlone, Course
  <1>2. Now(p).do = "reuse" /\ file' = file
    BY DEF Reuse, Doing
  <1>3. shell[p].step = 22 /\ Now(p).of = 10 /\ SameCommand(p, shell[p])
    BY <1>1, <1>2, AnnualNow, Underway
  <1>4. 22 + 10 = 32 /\ 32 + 1 = 33 /\ 22 + 1 = 23 /\ 22 \in 1..46 /\ 32 \in 1..46
    OBVIOUS
  <1>5. \/ matrix # "none" /\ key \in {"whole", "mixed"} /\ shell' = [shell EXCEPT ![p] = WentOn(p, shell[p], 32)]
        \/ (matrix = "none" \/ key # "whole") /\ shell' = [shell EXCEPT ![p] = WentOn(p, shell[p], 22)]
    BY <1>3, <1>4 DEF Reuse, Moved
  <1>6. OnCourse(file, 22, Use(p), shell[p].batch)
    BY <1>1, <1>3
  <1>7. \/ OnCourse(file, 32 + 1, Use(p), shell[p].batch) /\ shell' = [shell EXCEPT ![p] = WentOn(p, shell[p], 32)]
        \/ OnCourse(file, 22 + 1, Use(p), shell[p].batch) /\ shell' = [shell EXCEPT ![p] = WentOn(p, shell[p], 22)]
    BY <1>1, <1>4, <1>5, <1>6, ReusingOn
  <1>8. Succeeding(p) \/ GoingOn(p)
    BY <1>1, <1>2, <1>3, <1>4, <1>7, Advancing
  <1>9. QED
    BY <1>1, <1>2, <1>8 DEF Faithful

LEMMA AnnualCreating ==
  ASSUME CommandInvariant, NEW p \in Shells, AnnualAlone(p), CreateFile(p)
  PROVE  Faithful(p)
  <1> DEFINE k == shell[p].step
             process == [shell[p] EXCEPT !.touched = @ \cup {Of(p)}, !.wrote = @ \cup {Of(p)}]
  <1>1. /\ Busy(p) /\ IsAnnual(Use(p)) /\ shell[p].missing = {} /\ ToolsReadWhole(shell[p].seen) /\ OwnFiles(Use(p))
        /\ OnCourse(file, k, Use(p), shell[p].batch) /\ TrueMark(file, Use(p))
    BY DEF AnnualAlone, Course
  <1>2. /\ Now(p).do = "create" /\ shell' = [shell EXCEPT ![p] = WentOn(p, process, k)]
        /\ file' = [file EXCEPT ![Of(p)] = [state |-> "half", by |-> p, batch |-> 0]]
    BY DEF CreateFile, Doing, Moved
  <1>3. /\ k \in 1..46 /\ k \in CreatingPlaces /\ AnnualWrites(Program(p)) /\ Now(p) = Program(p)[k]
        /\ Of(p) = Use(p).bind[Program(p)[k].of]
    BY <1>1, <1>2, AnnualNow
  <1>4. Of(p) \in Files /\ shell[p] \in ShellStates /\ file \in [Files -> FileStates]
    BY <1>1, <1>2, Underway DEF Writing, CommandInvariant, CommandTypeOK
  <1>5. AllBut(file, file', Of(p)) /\ file'[Of(p)].state = "half"
    BY <1>2, <1>4 DEF AllBut
  <1>6. OnCourse(file', k + 1, Use(p), shell[p].batch) /\ TrueMark(file', Use(p))
    <2> DEFINE c == Program(p)
    <2>1. /\ AnnualWrites(c) /\ k \in CreatingPlaces /\ OnCourse(file, k, Use(p), shell[p].batch)
          /\ Of(p) = Use(p).bind[c[k].of]
      BY <1>1, <1>3
    <2> HIDE DEF c, k
    <2>2. OnCourse(file', k + 1, Use(p), shell[p].batch) /\ TrueMark(file', Use(p))
      BY <1>1, <1>5, <2>1, CreatingOn
    <2>3. QED
      BY <2>2 DEF k
  <1>7. /\ process \in ShellStates /\ process.session = shell[p].session /\ process.at = shell[p].at
        /\ process.code = shell[p].code /\ process.missing = shell[p].missing
        /\ process.seen = shell[p].seen /\ process.batch = shell[p].batch
    BY <1>4 DEF ShellStates
  <1> HIDE DEF process
  <1>8. SameCommand(p, process)
    BY <1>7 DEF SameCommand
  <1>9. Succeeding(p) \/ GoingOn(p)
    BY <1>1, <1>2, <1>3, <1>6, <1>7, <1>8, Advancing
  <1>10. QED
    BY <1>6, <1>9 DEF Faithful

\* The file that a run is writing is its own.
LEMMA AnnualOwn ==
  ASSUME CommandInvariant, NEW p \in Shells, Busy(p), Others(p) = {}, Now(p).do \in {"rows", "close"}
  PROVE  file[Of(p)].by = p /\ file[Of(p)].state = "half" /\ Of(p) \in Files
  <1>1. Now(p).do \in Writing /\ Now(p).do # "create"
    BY DEF Writing
  <1>2. PICK h \in DOMAIN Program(p), j \in DOMAIN Program(p) : Target(p, h) = Of(p) /\ Within(p, h, j)
    BY <1>1, OwnBlock
  <1>3. OpenIsHalf(p) /\ Of(p) \in Files
    BY <1>1, Underway
  <1>4. QED
    BY <1>2, <1>3 DEF OpenIsHalf

LEMMA AnnualRows ==
  ASSUME CommandInvariant, NEW p \in Shells, AnnualAlone(p), Rows(p)
  PROVE  Faithful(p)
  <1>1. Busy(p) /\ IsAnnual(Use(p)) /\ Others(p) = {}
    BY DEF AnnualAlone
  <1>2. Now(p).do = "rows" /\ shell' = [shell EXCEPT ![p] = WentOn(p, shell[p], shell[p].step)]
    BY DEF Rows, Doing, Moved
  <1>3. file[Of(p)].by = p /\ Of(p) \in Files
    BY <1>1, <1>2, AnnualOwn
  <1>4. file \in [Files -> FileStates]
    BY DEF CommandInvariant, CommandTypeOK
  <1>5. file' = [file EXCEPT ![Of(p)] = [file[Of(p)] EXCEPT !.state = file[Of(p)].state]]
    BY <1>3, <1>4 DEF Rows
  <1>6. [file[Of(p)] EXCEPT !.state = file[Of(p)].state] = file[Of(p)]
    BY <1>3, <1>4 DEF FileStates
  <1>7. file' = file
    BY <1>3, <1>4, <1>5, <1>6
  <1>8. shell[p].step \in RowsPlaces
    BY <1>1, <1>2, AnnualNow
  <1>9. QED
    BY <1>2, <1>7, <1>8, AnnualPasses

LEMMA AnnualClosing ==
  ASSUME CommandInvariant, NEW p \in Shells, AnnualAlone(p), Close(p)
  PROVE  Faithful(p)
  <1> DEFINE k == shell[p].step
  <1>1. /\ Busy(p) /\ IsAnnual(Use(p)) /\ shell[p].missing = {} /\ ToolsReadWhole(shell[p].seen) /\ OwnFiles(Use(p))
        /\ OnCourse(file, k, Use(p), shell[p].batch) /\ TrueMark(file, Use(p)) /\ Others(p) = {}
    BY DEF AnnualAlone, Course
  <1>2. Now(p).do = "close" /\ shell' = [shell EXCEPT ![p] = WentOn(p, shell[p], k)]
    BY DEF Close, Doing, Moved
  <1>3. /\ k \in 1..46 /\ k \in ClosingPlaces /\ AnnualCloses(Program(p)) /\ Now(p) = Program(p)[k]
        /\ Of(p) = Use(p).bind[Program(p)[k].of]
    BY <1>1, <1>2, AnnualNow
  <1>4. file[Of(p)].by = p /\ file[Of(p)].state = "half" /\ Of(p) \in Files
    BY <1>1, <1>2, AnnualOwn
  <1>5. file \in [Files -> FileStates]
    BY DEF CommandInvariant, CommandTypeOK
  <1>6. AllBut(file, file', Of(p)) /\ file'[Of(p)].state = "whole" /\ file'[Of(p)].batch = shell[p].batch
    BY <1>4, <1>5 DEF Close, AllBut, FileStates
  <1>7. OnCourse(file', k + 1, Use(p), shell[p].batch) /\ TrueMark(file', Use(p))
    <2> DEFINE c == Program(p)
    <2>1. /\ AnnualCloses(c) /\ k \in ClosingPlaces /\ OnCourse(file, k, Use(p), shell[p].batch)
          /\ Of(p) = Use(p).bind[c[k].of]
      BY <1>1, <1>3
    <2> HIDE DEF c, k
    <2>2. /\ AllBut(file, file', Use(p).bind[c[k].of]) /\ file'[Use(p).bind[c[k].of]].state = "whole"
          /\ file'[Use(p).bind[c[k].of]].batch = shell[p].batch
      BY ONLY <1>6, <2>1
    <2>3. OnCourse(file', k + 1, Use(p), shell[p].batch) /\ TrueMark(file', Use(p))
      BY ONLY <1>1, <2>1, <2>2, ClosingOn
    <2>4. QED
      BY <2>3 DEF k
  <1>8. SameCommand(p, shell[p])
    BY <1>1, Underway
  <1>9. Succeeding(p) \/ GoingOn(p)
    BY <1>1, <1>2, <1>3, <1>7, <1>8, Advancing
  <1>10. QED
    BY <1>7, <1>9 DEF Faithful

LEMMA AnnualFaithful ==
  ASSUME CommandInvariant, NEW p \in Shells, AnnualAlone(p), ShellStep(p)
  PROVE  Faithful(p)
  <1>1. Busy(p) /\ Now(p).do \notin {"remove", "open", "init", "begin", "commit"}
    BY AnnualNow DEF AnnualAlone
  <1>2. ~Start(p) /\ ~RemoveFiles(p) /\ ~OpenWorkspace(p) /\ ~InitWorkspace(p) /\ ~HandOutBatch(p) /\ ~AcceptBatch(p)
    BY <1>1 DEF Start, RemoveFiles, OpenWorkspace, InitWorkspace, HandOutBatch, AcceptBatch, Doing
  <1>3. QED
    BY <1>2, AnnualFails, AnnualPlain, AnnualOptions, AnnualReading, AnnualReuse, AnnualCreating, AnnualRows, AnnualClosing
       DEF ShellStep

-----------------------------------------------------------------------------
(* The matrix directories, whoever takes a step.                             *)

\* Uses that share a matrix or its mark with an annual run share both.
Shares(use, run) == IsAnnual(use) /\ MatrixOf(use) = MatrixOf(run) /\ MarkOf(use) = MarkOf(run)
LEMMA DirectoriesGiven ==
  ASSUME MatrixDirectories, CommandTypeOK, NEW p \in Shells, SessionGiven(p),
         NEW n \in DOMAIN shell[p].session, IsAnnual(shell[p].session[n])
  PROVE  LET run == shell[p].session[n]
         IN  /\ OwnFiles(run) /\ MatrixOf(run) \in Files /\ MarkOf(run) \in Files
             /\ \A l \in DOMAIN shell[p].session :
                  WritesFile(shell[p].session[l], MatrixOf(run)) \/ WritesFile(shell[p].session[l], MarkOf(run))
                    => Shares(shell[p].session[l], run)
  <1> DEFINE run == shell[p].session[n]
  <1>1. PICK sessions \in CommandSessions : shell[p].session = sessions[p]
    BY DEF SessionGiven
  <1>2. shell[p] \in ShellStates
    BY DEF CommandTypeOK
  <1>3. shell[p].session \in Seq(Uses)
    BY <1>2 DEF ShellStates
  <1>4. run \in Uses
    BY <1>3
  <1>5. run.bind \in [Roles -> Files]
    BY <1>4 DEF Uses
  <1>6. n \in DOMAIN sessions[p] /\ run = sessions[p][n] /\ run.command = "radiance-annual"
    BY <1>1 DEF IsAnnual
  <1>7. /\ \A r, s \in AnnualRoles : run.bind[r] = run.bind[s] => r = s
        /\ \A l \in DOMAIN sessions[p] :
              WritesFile(sessions[p][l], MatrixOf(run)) \/ WritesFile(sessions[p][l], MarkOf(run)) =>
                  /\ sessions[p][l].command = "radiance-annual"
                  /\ MatrixOf(sessions[p][l]) = MatrixOf(run) /\ MarkOf(sessions[p][l]) = MarkOf(run)
    <2> DEFINE given == sessions[p]
               use == given[n]
    <2>1. n \in DOMAIN given /\ use.command = "radiance-annual" /\ run = use
      BY <1>6
    <2>2. \A k \in DOMAIN given : given[k].command = "radiance-annual" =>
             /\ \A r, s \in AnnualRoles : given[k].bind[r] = given[k].bind[s] => r = s
             /\ \A l \in DOMAIN given :
                   WritesFile(given[l], MatrixOf(given[k])) \/ WritesFile(given[l], MarkOf(given[k])) =>
                      /\ given[l].command = "radiance-annual"
                      /\ MatrixOf(given[l]) = MatrixOf(given[k]) /\ MarkOf(given[l]) = MarkOf(given[k])
      BY DEF MatrixDirectories
    <2> HIDE DEF given
    <2>3. /\ \A r, s \in AnnualRoles : use.bind[r] = use.bind[s] => r = s
          /\ \A l \in DOMAIN given :
                   WritesFile(given[l], MatrixOf(use)) \/ WritesFile(given[l], MarkOf(use)) =>
                      /\ given[l].command = "radiance-annual"
                      /\ MatrixOf(given[l]) = MatrixOf(use) /\ MarkOf(given[l]) = MarkOf(use)
      BY <2>1, <2>2
    <2>4. QED
      BY <2>1, <2>3 DEF given
  <1> HIDE DEF run
  <1>8. MatrixOf(run) \in Files /\ MarkOf(run) \in Files
    BY <1>5, RoleNames DEF MatrixOf, MarkOf
  <1>9. QED
    BY <1>1, <1>5, <1>7, <1>8 DEF OwnFiles, Shares, IsAnnual, run

\* A command changes no matrix of an annual run, and no mark, unless it is one that shares them.
LEMMA MarksKept ==
  ASSUME MatrixDirectories, CommandTypeOK, NEW p \in Shells, SessionGiven(p), StepFrame(p), MarksAreTrue(p),
         Busy(p) => shell[p].at \in DOMAIN shell[p].session,
         Busy(p) /\ IsAnnual(Use(p)) => TrueMark(file', Use(p))
  PROVE  MarksAreTrue(p)'
  <1>1. ASSUME NEW n \in DOMAIN shell[p].session, IsAnnual(shell[p].session[n])
        PROVE  TrueMark(file', shell[p].session[n])
    <2> DEFINE run == shell[p].session[n]
    <2>1. /\ TrueMark(file, run) /\ MatrixOf(run) \in Files /\ MarkOf(run) \in Files
          /\ \A l \in DOMAIN shell[p].session :
               WritesFile(shell[p].session[l], MatrixOf(run)) \/ WritesFile(shell[p].session[l], MarkOf(run))
                 => Shares(shell[p].session[l], run)
      BY <1>1, DirectoriesGiven DEF MarksAreTrue
    <2> HIDE DEF run
    <2>2. CASE file'[MatrixOf(run)] = file[MatrixOf(run)] /\ file'[MarkOf(run)] = file[MarkOf(run)]
      BY <2>1, <2>2 DEF TrueMark, run
    <2>3. ASSUME NEW f \in {MatrixOf(run), MarkOf(run)}, file'[f] # file[f]
          PROVE  TrueMark(file', run)
      <3>1. Busy(p) /\ \E h \in DOMAIN Program(p) : Program(p)[h].do = "create" /\ Target(p, h) = f
        BY <2>1, <2>3 DEF StepFrame
      <3>2. WritesFile(Use(p), f)
        BY <3>1 DEF WritesFile, Program, Target
      <3>3. shell[p].at \in DOMAIN shell[p].session /\ Use(p) = shell[p].session[shell[p].at]
        BY <3>1 DEF Use
      <3>4. Shares(Use(p), run)
        BY <2>1, <2>3, <3>2, <3>3
      <3>5. TrueMark(file', Use(p))
        BY <3>1, <3>4 DEF Shares
      <3>6. QED
        BY <3>4, <3>5 DEF Shares, TrueMark
    <2>4. QED
      BY <2>2, <2>3 DEF run
  <1>2. shell'[p].session = shell[p].session
    BY DEF StepFrame
  <1>3. QED
    BY <1>1, <1>2 DEF MarksAreTrue

LEMMA OwnStep ==
  ASSUME MatrixDirectories, CommandInvariant, NEW p \in Shells, ShellStep(p), AnnualShell(p)
  PROVE  AnnualShell(p)'
  <1>1. StepFrame(p)
    BY Frames
  <1>2. /\ CommandTypeOK /\ shell[p] \in ShellStates /\ Standing(p) /\ SessionGiven(p)
        /\ shell[p].session \in Seq(Uses) /\ shell[p].at \in Nat \ {0}
    BY DEF CommandInvariant, CommandTypeOK, ShellInvariant, AnnualShell, ShellStates
  <1>3. Busy(p) => shell[p].at \in DOMAIN shell[p].session
    BY <1>2 DEF Standing
  <1>4. SessionGiven(p)'
    BY <1>1, <1>2 DEF SessionGiven, StepFrame
  <1>5. Others(p)' = Others(p)
    BY <1>1 DEF Others, StepFrame
  <1>6. ASSUME Others(p) = {}, Busy(p), IsAnnual(Use(p))
        PROVE  Faithful(p)
    <2>1. Course(p) /\ MarksAreTrue(p)
      BY <1>6 DEF AnnualShell
    <2>2. shell[p].at \in DOMAIN shell[p].session /\ Use(p) = shell[p].session[shell[p].at]
      BY <1>3, <1>6 DEF Use
    <2>3. OwnFiles(Use(p))
      BY <1>2, <1>6, <2>2, DirectoriesGiven
    <2>4. TrueMark(file, Use(p))
      BY <1>6, <2>1, <2>2 DEF MarksAreTrue
    <2>5. QED
      BY <1>6, <2>1, <2>3, <2>4, AnnualFaithful DEF AnnualAlone
  <1>7. ASSUME Others(p) = {}
        PROVE  MarksAreTrue(p)'
    BY <1>1, <1>2, <1>3, <1>6, <1>7, MarksKept DEF AnnualShell, Faithful
  <1>8. ASSUME Others(p) = {}, Busy(p)', IsAnnual(Use(p))'
        PROVE  Course(p)'
    <2>1. CASE Busy(p)
      <3>1. shell'[p].step # 0
        BY <1>8 DEF Busy
      <3>2. shell'[p].at = shell[p].at /\ shell'[p].session = shell[p].session
        BY <1>1, <2>1, <3>1 DEF StepFrame
      <3>3. Use(p)' = Use(p)
        BY <3>2 DEF Use
      <3>4. Faithful(p)
        BY <1>6, <1>8, <2>1, <3>3 DEF IsAnnual
      <3>5. GoingOn(p)
        BY <3>1, <3>4 DEF Faithful, Failing, Succeeding
      <3>6. QED
        BY <3>3, <3>5 DEF GoingOn, Course
    <2>2. CASE ~Busy(p)
      <3>1. Start(p)
        BY <2>2 DEF ShellStep, Fail, Kill, GiveOptions, Plain, Read, Reuse, RemoveFiles, CreateFile, Rows, Close,
                    OpenWorkspace, InitWorkspace, HandOutBatch, AcceptBatch, Doing
      <3>2. shell[p].missing = {}
        BY <1>2, <2>2 DEF Standing
      <3>3. shell'[p].step = 1 /\ shell'[p].seen = {} /\ shell'[p].missing = {}
        BY <1>2, <3>1, <3>2 DEF Start, ShellStates, CommandTypeOK
      <3>4. ToolsReadWhole({}) /\ OnCourse(file', 1, Use(p)', shell'[p].batch)
        BY DEF ToolsReadWhole, OnCourse, BatchAt, FilesAt, MatrixAt
      <3>5. QED
        BY <3>3, <3>4 DEF Course
    <2>3. QED
      BY <2>1, <2>2
  <1>9. ASSUME Others(p) = {}, shell'[p].code = 0, Command(p)' = "radiance-annual"
        PROVE  AnswersForItself(p)'
    <2>1. Busy(p) /\ shell'[p].last = shell[p].at /\ shell'[p].session = shell[p].session
      BY <1>1, <1>9 DEF StepFrame
    <2>2. shell'[p].session[shell'[p].last] = Use(p)
      BY <2>1 DEF Use
    <2>3. shell'[p].last # 0
      BY <1>2, <2>1
    <2>4. IsAnnual(Use(p))
      BY <1>9, <2>2, <2>3 DEF Command, IsAnnual
    <2>5. Succeeding(p)
      BY <1>6, <1>9, <2>1, <2>4 DEF Faithful, Failing, GoingOn
    <2>6. QED
      BY <2>2, <2>5 DEF Succeeding, AnswersForItself
  <1>10. QED
    BY <1>4, <1>5, <1>7, <1>8, <1>9 DEF AnnualShell

\* Whoever writes a file is among the others.
LEMMA OthersStep ==
  ASSUME CommandInvariant, CommandInvariant', NEW p \in Shells, NEW q \in Shells, p # q, ShellStep(q), AnnualShell(p)
  PROVE  AnnualShell(p)'
  <1>1. StepFrame(q)
    BY Frames
  <1>2. shell'[p] = shell[p] /\ \A r \in Shells : shell[r].wrote \subseteq shell'[r].wrote
    BY <1>1 DEF StepFrame
  <1>3. file \in [Files -> FileStates] /\ file' \in [Files -> FileStates]
    BY DEF CommandInvariant, CommandTypeOK
  <1>4. ASSUME Others(p)' = {}
        PROVE  Others(p) = {} /\ file' = file
    <2>1. \A r \in Shells \ {p} : shell'[r].wrote = {}
      BY <1>4 DEF Others
    <2>2. \A r \in Shells \ {p} : shell[r].wrote = {}
      BY <1>2, <2>1
    <2>3. Others(p) = {}
      BY <2>2 DEF Others
    <2>4. \A f \in Files : file'[f] = file[f]
      BY <1>1, <2>1 DEF StepFrame
    <2>5. QED
      BY <1>3, <2>3, <2>4
  <1>5. SessionGiven(p)'
    BY <1>2 DEF SessionGiven, AnnualShell
  <1>6. ASSUME Others(p)' = {}
        PROVE  /\ MarksAreTrue(p)'
               /\ Busy(p)' /\ IsAnnual(Use(p))' => Course(p)'
               /\ shell'[p].code = 0 /\ Command(p)' = "radiance-annual" => AnswersForItself(p)'
    <2>1. Others(p) = {} /\ file' = file
      BY <1>4, <1>6
    <2>2. MarksAreTrue(p)'
      BY <1>2, <2>1 DEF MarksAreTrue, AnnualShell
    <2>3. Use(p)' = Use(p) /\ Busy(p)' = Busy(p) /\ Command(p)' = Command(p)
      BY <1>2 DEF Use, Busy, Command
    <2>4. Busy(p)' /\ IsAnnual(Use(p))' => Course(p)'
      BY <1>2, <2>1, <2>3 DEF Course, AnnualShell, IsAnnual
    <2>5. shell'[p].code = 0 /\ Command(p)' = "radiance-annual" => AnswersForItself(p)'
      BY <1>2, <2>1, <2>3 DEF AnswersForItself, AnnualShell
    <2>6. QED
      BY <2>2, <2>4, <2>5
  <1>7. QED
    BY <1>5, <1>6 DEF AnnualShell

LEMMA AnnualInitially ==
  ASSUME MatrixDirectories, CommandInit
  PROVE  AnnualInvariant
  <1>1. CommandInvariant
    BY CommandInitially
  <1>2. PICK sessions \in CommandSessions :
          shell = [p \in Shells |->
                     [session |-> sessions[p], at |-> 1, step |-> 0, missing |-> {}, code |-> -1, failed |-> "",
                      last |-> 0, faults |-> 0, touched |-> {}, wrote |-> {}, seen |-> {}, batch |-> 0]]
    BY DEF CommandInit
  <1>3. ASSUME NEW p \in Shells PROVE AnnualShell(p)
    <2>1. shell[p].session = sessions[p] /\ shell[p].step = 0 /\ shell[p].code = -1
      BY <1>2
    <2>2. SessionGiven(p)
      BY <2>1 DEF SessionGiven
    <2>3. ~Busy(p) /\ shell[p].code # 0
      BY <2>1 DEF Busy
    <2>4. MarksAreTrue(p)
      <3>1. ASSUME NEW n \in DOMAIN shell[p].session, IsAnnual(shell[p].session[n])
            PROVE  TrueMark(file, shell[p].session[n])
        <4> DEFINE run == shell[p].session[n]
        <4>1. MatrixOf(run) \in Files /\ MarkOf(run) \in Files
          BY <1>1, <2>2, <3>1, DirectoriesGiven DEF CommandInvariant
        <4>2. n \in DOMAIN sessions[p] /\ run = sessions[p][n] /\ run.command = "radiance-annual"
          BY <2>1, <3>1 DEF IsAnnual
        <4>3. Initially[MarkOf(run)].state = "whole" => Initially[MatrixOf(run)].state = "whole"
          <5>1. \A k \in DOMAIN sessions[p] : sessions[p][k].command = "radiance-annual" =>
                   (Initially[MarkOf(sessions[p][k])].state = "whole" => Initially[MatrixOf(sessions[p][k])].state = "whole")
            BY DEF MatrixDirectories
          <5>2. QED
            BY <4>2, <5>1
        <4> HIDE DEF run
        <4>4. \A f \in Files : file[f].state = Initially[f].state
          BY DEF CommandInit
        <4>5. Initially[MarkOf(run)].state # "mixed"
          BY <4>1, CommandAssumption
        <4>6. QED
          BY <4>1, <4>3, <4>4, <4>5 DEF TrueMark, run
      <3>2. QED
        BY <3>1 DEF MarksAreTrue
    <2>5. QED
      BY <2>2, <2>3, <2>4 DEF AnnualShell
  <1>4. QED
    BY <1>1, <1>3 DEF AnnualInvariant

LEMMA AnnualStays ==
  ASSUME MatrixDirectories, AnnualInvariant, [CommandNext]_commandVars
  PROVE  AnnualInvariant'
  <1>1. CommandInvariant /\ CommandInvariant' /\ \A p \in Shells : AnnualShell(p)
    BY CommandStays DEF AnnualInvariant
  <1>2. ASSUME NEW p \in Shells, NEW q \in Shells, ShellStep(q) PROVE AnnualShell(p)'
    BY <1>1, <1>2, OwnStep, OthersStep
  <1>3. ASSUME NEW p \in Shells, UNCHANGED commandVars PROVE AnnualShell(p)'
    <2>1. file' = file /\ shell' = shell
      BY <1>3 DEF commandVars
    <2>2. AnnualShell(p)
      BY <1>1
    <2>3. QED
      BY <2>1, <2>2 DEF AnnualShell, SessionGiven, Others, MarksAreTrue, Busy, Use, Course, Command, AnswersForItself
  <1>4. (\E q \in Shells : ShellStep(q)) \/ UNCHANGED commandVars
    BY DEF CommandNext, ShellStep, SessionsEnded
  <1>5. QED
    BY <1>1, <1>2, <1>3, <1>4 DEF AnnualInvariant

\* An annual run has used nothing that was not written to the end, whatever died in its
\* directory before, and answers for its own weather, not for that of an earlier run.
\* This is what the key file beside the matrix is for, and the order in which the
\* files of the directory are written and read.
THEOREM OwnAnswers ==
  ASSUME MatrixDirectories
  PROVE  CommandSpec => []AnswersAreOwn
  <1>1. CommandInit => AnnualInvariant
    BY AnnualInitially
  <1>2. AnnualInvariant /\ [CommandNext]_commandVars => AnnualInvariant'
    BY AnnualStays
  <1>3. AnnualInvariant => AnswersAreOwn
    BY DEF AnnualInvariant, AnnualShell, AnswersForItself, ToolsReadWhole, AnswersAreOwn
  <1>4. QED
    BY <1>1, <1>2, <1>3, PTL DEF CommandSpec

-----------------------------------------------------------------------------
(* The steps of the commands of a study's rounds.                            *)

BatchProgram(c) ==
  /\ DOMAIN c = 1..6
  /\ c[1].do = "options" /\ c[1].of = {"output"} /\ c[2].do = "open" /\ c[3].do = "begin"
  /\ c[4].do = "create" /\ c[4].of = "output" /\ c[5].do = "close" /\ c[5].of = "output" /\ c[6].do = "print"
EvaluateProgram(c) ==
  /\ DOMAIN c = 1..3
  /\ c[1].do = "read json" /\ c[1].of = "input"
  /\ c[2].do = "create" /\ c[2].of = "output" /\ c[3].do = "close" /\ c[3].of = "output"
CommitProgram(c) ==
  /\ DOMAIN c = 1..5
  /\ c[1].do = "options" /\ c[1].of = {} /\ c[2].do = "read json" /\ c[2].of = "evaluations"
  /\ c[3].do = "open" /\ c[4].do = "commit" /\ c[5].do = "print"

LEMMA StudySingles ==
  /\ Sized(Options({"output"}), 1)
  /\ \A c, at : Lies(Options({"output"}), c, at) => StepAt(c, at + 1, "options", {"output"})
  /\ Sized(ReadJson("evaluations", 2), 1)
  /\ \A c, at : Lies(ReadJson("evaluations", 2), c, at) => StepAt(c, at + 1, "read json", "evaluations")
  /\ Sized(open_workspace, 1) /\ \A c, at : Lies(open_workspace, c, at) => Does(c, at + 1, "open")
  /\ \A do \in {"begin", "commit"} :
        /\ Sized(<<Step(do, "", 1)>>, 1)
        /\ \A c, at : Lies(<<Step(do, "", 1)>>, c, at) => Does(c, at + 1, do)
  <1>1. {"options", "read json", "open", "begin", "commit"} \subseteq Deeds
    BY DEF Deeds, Reading
  <1>2. 1 \in Codes /\ 2 \in Codes
    BY DEF Codes
  <1>3. {"output"} \in Names \cup Nat \cup SUBSET Names /\ "evaluations" \in Names \cup Nat \cup SUBSET Names
    BY RoleNames DEF Names
  <1>4. PICK none \in Names \cup Nat \cup SUBSET Names : none = ""
    <2>1. "" \in Names
      BY Zenon DEF Names
    <2>2. QED
      BY <2>1, Zenon
  <1>5. \A c, i, do, of : StepAt(c, i, do, of) => Does(c, i, do)
    BY DEF StepAt, Does
  <1>6. open_workspace = <<Step("open", none, 1)>> /\ \A do : <<Step(do, "", 1)>> = <<Step(do, none, 1)>>
    BY <1>4, Zenon DEF open_workspace
  <1>7. /\ Sized(Options({"output"}), 1)
        /\ \A c, at : Lies(Options({"output"}), c, at) => StepAt(c, at + 1, "options", {"output"})
    BY <1>1, <1>2, <1>3, Single DEF Options
  <1>8. /\ Sized(ReadJson("evaluations", 2), 1)
        /\ \A c, at : Lies(ReadJson("evaluations", 2), c, at) => StepAt(c, at + 1, "read json", "evaluations")
    BY <1>1, <1>2, <1>3, Single DEF ReadJson
  <1>9. Sized(open_workspace, 1) /\ \A c, at : Lies(open_workspace, c, at) => Does(c, at + 1, "open")
    BY <1>1, <1>2, <1>5, <1>6, Single
  <1>10. ASSUME NEW do \in {"begin", "commit"}
         PROVE  /\ Sized(<<Step(do, none, 1)>>, 1)
                /\ \A c, at : Lies(<<Step(do, none, 1)>>, c, at) => Does(c, at + 1, do)
    BY <1>1, <1>2, <1>5, Single
  <1>11. \A do \in {"begin", "commit"} :
           /\ Sized(<<Step(do, "", 1)>>, 1)
           /\ \A c, at : Lies(<<Step(do, "", 1)>>, c, at) => Does(c, at + 1, do)
    BY <1>4, <1>10, Zenon
  <1>12. QED
    BY <1>7, <1>8, <1>9, <1>11, Zenon

\* A sequence of so many steps lies in itself.
LEMMA Itself ==
  ASSUME NEW c, NEW n, Sized(c, n)
  PROVE  Lies(c, c, 0) /\ DOMAIN c = 1..n
  <1>1. c \in Seq(CommandSteps) /\ Len(c) = n /\ n \in Nat
    BY DEF Sized
  <1>2. 0 + Len(c) <= Len(c) /\ \A i \in 1..Len(c) : c[0 + i] = c[i]
    BY <1>1
  <1>3. QED
    BY <1>1, <1>2 DEF Lies

LEMMA BatchSteps == BatchProgram(main("study-batch"))
  <1> DEFINE c == main("study-batch")
             s1 == Options({"output"}) \o open_workspace
             s2 == s1 \o <<Step("begin", "", 1)>>
             s3 == s2 \o WriteFile("output", 1)
             s4 == s3 \o ToStdout
  <1>1. 1 + 1 = 2 /\ 2 + 1 = 3 /\ 3 + 2 = 5 /\ 5 + 1 = 6 /\ 0 + 1 = 1 /\ 0 + 2 = 2 /\ 0 + 3 = 3 /\ 0 + 5 = 5
        /\ 3 + 1 = 4
    OBVIOUS
  <1>2. "output" \in Roles /\ WriteFile("output", 1) = write_text("output")
    BY RoleNames DEF write_text
  <1>3. /\ Sized(WriteFile("output", 1), 2)
        /\ \A d, at : Lies(WriteFile("output", 1), d, at) =>
              at \in Nat /\ StepAt(d, at + 1, "create", "output") /\ StepAt(d, at + 2, "close", "output")
    BY <1>2, Texts
  <1>4. /\ Sized(s1, 2)
        /\ \A d, at : Lies(s1, d, at) => Lies(Options({"output"}), d, at) /\ Lies(open_workspace, d, at + 1)
    BY <1>1, StudySingles, Split
  <1> HIDE DEF s1
  <1>5. /\ Sized(s2, 3)
        /\ \A d, at : Lies(s2, d, at) => Lies(s1, d, at) /\ Lies(<<Step("begin", "", 1)>>, d, at + 2)
    <2>1. Sized(<<Step("begin", "", 1)>>, 1)
      BY StudySingles, Zenon
    <2>2. QED
      BY <1>1, <1>4, <2>1, Split
  <1> HIDE DEF s2
  <1>6. Sized(s3, 5) /\ \A d, at : Lies(s3, d, at) => Lies(s2, d, at) /\ Lies(WriteFile("output", 1), d, at + 3)
    BY <1>1, <1>3, <1>5, Split
  <1> HIDE DEF s3
  <1>7. Sized(s4, 6) /\ \A d, at : Lies(s4, d, at) => Lies(s3, d, at) /\ Lies(ToStdout, d, at + 5)
    BY <1>1, <1>6, Singles, Split
  <1> HIDE DEF s4
  <1>8. c = s4
    BY Dispatch, Zenon DEF run_study_batch, s4, s3, s2, s1
  <1> HIDE DEF c
  <1>9. Lies(s4, c, 0) /\ DOMAIN c = 1..6
    BY <1>7, <1>8, Itself
  <1>10. Lies(s3, c, 0) /\ Lies(ToStdout, c, 5)
    BY <1>1, <1>7, <1>9
  <1>11. Lies(s2, c, 0) /\ Lies(WriteFile("output", 1), c, 3)
    BY <1>1, <1>6, <1>10
  <1>12. Lies(s1, c, 0) /\ Lies(<<Step("begin", "", 1)>>, c, 2)
    BY <1>1, <1>5, <1>11
  <1>13. Lies(Options({"output"}), c, 0) /\ Lies(open_workspace, c, 1)
    BY <1>1, <1>4, <1>12
  <1>14. Does(c, 2 + 1, "begin")
    BY <1>12, StudySingles, Zenon
  <1>15. StepAt(c, 0 + 1, "options", {"output"}) /\ Does(c, 1 + 1, "open") /\ Does(c, 5 + 1, "print")
    BY <1>10, <1>13, StudySingles, Singles
  <1>16. StepAt(c, 3 + 1, "create", "output") /\ StepAt(c, 3 + 2, "close", "output")
    BY <1>3, <1>11
  <1>17. QED
    BY <1>1, <1>9, <1>14, <1>15, <1>16 DEF BatchProgram, StepAt, Does, c

LEMMA EvaluateSteps == EvaluateProgram(main("evaluate"))
  <1> DEFINE c == main("evaluate")
             s == ReadJson("input", 1) \o WriteFile("output", 1)
  <1>1. 1 + 2 = 3 /\ 1 + 1 = 2 /\ 0 + 1 = 1
    OBVIOUS
  <1>2. {"input", "output"} \subseteq Roles /\ WriteFile("output", 1) = write_text("output")
    BY RoleNames DEF write_text
  <1>3. /\ Sized(WriteFile("output", 1), 2)
        /\ \A d, at : Lies(WriteFile("output", 1), d, at) =>
              at \in Nat /\ StepAt(d, at + 1, "create", "output") /\ StepAt(d, at + 2, "close", "output")
    BY <1>2, Texts
  <1>4. Sized(s, 3) /\ \A d, at : Lies(s, d, at) => Lies(ReadJson("input", 1), d, at) /\ Lies(WriteFile("output", 1), d, at + 1)
    BY <1>1, <1>2, <1>3, Singles, Split
  <1> HIDE DEF s
  <1>5. c = s
    BY Dispatch, Zenon DEF Evaluator, s
  <1> HIDE DEF c
  <1>6. Lies(s, c, 0) /\ DOMAIN c = 1..3
    BY <1>4, <1>5, Itself
  <1>7. Lies(ReadJson("input", 1), c, 0) /\ Lies(WriteFile("output", 1), c, 1)
    BY <1>1, <1>4, <1>6
  <1>8. StepAt(c, 0 + 1, "read json", "input") /\ StepAt(c, 1 + 1, "create", "output") /\ StepAt(c, 1 + 2, "close", "output")
    BY <1>2, <1>3, <1>7, Singles
  <1>9. QED
    BY <1>1, <1>6, <1>8 DEF EvaluateProgram, StepAt, c

LEMMA CommitSteps == CommitProgram(main("study-commit"))
  <1> DEFINE c == main("study-commit")
             s1 == Options({}) \o ReadJson("evaluations", 2)
             s2 == s1 \o open_workspace
             s3 == s2 \o <<Step("commit", "", 1)>>
             s4 == s3 \o ToStdout
  <1>1. 1 + 1 = 2 /\ 2 + 1 = 3 /\ 3 + 1 = 4 /\ 4 + 1 = 5 /\ 0 + 1 = 1 /\ 0 + 2 = 2 /\ 0 + 3 = 3 /\ 0 + 4 = 4
    OBVIOUS
  <1>2. /\ Sized(s1, 2)
        /\ \A d, at : Lies(s1, d, at) => Lies(Options({}), d, at) /\ Lies(ReadJson("evaluations", 2), d, at + 1)
    BY <1>1, StudySingles, Singles, Split
  <1> HIDE DEF s1
  <1>3. Sized(s2, 3) /\ \A d, at : Lies(s2, d, at) => Lies(s1, d, at) /\ Lies(open_workspace, d, at + 2)
    BY <1>1, <1>2, StudySingles, Split
  <1> HIDE DEF s2
  <1>4. /\ Sized(s3, 4)
        /\ \A d, at : Lies(s3, d, at) => Lies(s2, d, at) /\ Lies(<<Step("commit", "", 1)>>, d, at + 3)
    <2>1. Sized(<<Step("commit", "", 1)>>, 1)
      BY StudySingles, Zenon
    <2>2. QED
      BY <1>1, <1>3, <2>1, Split
  <1> HIDE DEF s3
  <1>5. Sized(s4, 5) /\ \A d, at : Lies(s4, d, at) => Lies(s3, d, at) /\ Lies(ToStdout, d, at + 4)
    BY <1>1, <1>4, Singles, Split
  <1> HIDE DEF s4
  <1>6. c = s4
    BY Dispatch, Zenon DEF run_study_commit, s4, s3, s2, s1
  <1> HIDE DEF c
  <1>7. Lies(s4, c, 0) /\ DOMAIN c = 1..5
    BY <1>5, <1>6, Itself
  <1>8. Lies(s3, c, 0) /\ Lies(ToStdout, c, 4)
    BY <1>1, <1>5, <1>7
  <1>9. Lies(s2, c, 0) /\ Lies(<<Step("commit", "", 1)>>, c, 3)
    BY <1>1, <1>4, <1>8
  <1>10. Lies(s1, c, 0) /\ Lies(open_workspace, c, 2)
    BY <1>1, <1>3, <1>9
  <1>11. Lies(Options({}), c, 0) /\ Lies(ReadJson("evaluations", 2), c, 1)
    BY <1>1, <1>2, <1>10
  <1>12. Does(c, 3 + 1, "commit")
    BY <1>9, StudySingles, Zenon
  <1>13. /\ StepAt(c, 0 + 1, "options", {}) /\ StepAt(c, 1 + 1, "read json", "evaluations")
         /\ Does(c, 2 + 1, "open") /\ Does(c, 4 + 1, "print")
    BY <1>8, <1>10, <1>11, StudySingles, Singles
  <1>14. QED
    BY <1>1, <1>7, <1>12, <1>13 DEF CommitProgram, StepAt, Does, c

-----------------------------------------------------------------------------
(* What the steps of a command do to the batches that files are about.       *)

SameRounds == workspace'.issued = workspace.issued /\ workspace'.committed = workspace.committed
HandsOut(p, process) ==
  process.batch = NextBatch /\ workspace'.issued = NextBatch /\ workspace'.committed = workspace.committed
TakesBatch(p) ==
  /\ workspace'.issued = workspace.issued /\ workspace'.committed = workspace.committed \cup {shell[p].batch}
  /\ shell[p].batch \in workspace.committed \/ (Active /\ shell[p].batch = workspace.issued)
FileStep(p, f) ==
  LET do == Now(p).do
  IN  \/ file'[f] = file[f]
      \/ do = "create" /\ f = Of(p) /\ file'[f].state = "half" /\ file'[f].batch = 0
      \/ do = "close" /\ f = Of(p) /\ file'[f].batch = shell[p].batch
      \/ do \in {"rows", "remove"} /\ file'[f].batch = file[f].batch
\* A process goes on after a step.
Effect(p, process, m) ==
  LET do == Now(p).do
  IN  /\ SameCommand(p, process) /\ m \in Nat /\ shell' = [shell EXCEPT ![p] = WentOn(p, process, m)]
      /\ do # "reuse" => m = shell[p].step
      /\ IF do = "options" THEN \E given : Use(p).given \subseteq given /\ process.missing = Now(p).of \ given
         ELSE process.missing = shell[p].missing
      /\ do \in Reading => Of(p) \in Files /\ process.batch = file[Of(p)].batch
      /\ do = "read json" => file[Of(p)].state \in {"whole", "mixed"}
      /\ do \notin Reading \cup {"begin"} => process.batch = shell[p].batch
      /\ do = "begin" => HandsOut(p, process)
      /\ do = "commit" => TakesBatch(p)
      /\ do \notin {"begin", "commit"} => SameRounds
      /\ \A f \in Files : FileStep(p, f)
      /\ do = "close" => file'[Of(p)].batch = shell[p].batch
      /\ do \notin {"create", "rows", "close", "remove"} => file' = file

LEMMA QuietEffect ==
  ASSUME CommandInvariant, NEW p \in Shells,
         Plain(p) \/ OpenWorkspace(p) \/ InitWorkspace(p) \/ AcceptBatch(p) \/ Reuse(p)
  PROVE  \E process, m : Effect(p, process, m)
  <1>1. CommandTypeOK /\ shell \in [Shells -> ShellStates] /\ workspace \in [exists : BOOLEAN, issued : Nat, committed : SUBSET Int]
    BY DEF CommandInvariant, CommandTypeOK
  <1>2. Busy(p) /\ file' = file
    BY DEF Plain, OpenWorkspace, InitWorkspace, AcceptBatch, Reuse, Doing
  <1>3. SameCommand(p, shell[p]) /\ shell[p].step \in Nat /\ shell[p].step \in DOMAIN Program(p)
        /\ Now(p) = Program(p)[shell[p].step] /\ Jumps(Program(p))
    BY <1>2, Underway
  <1>4. CASE Plain(p) \/ OpenWorkspace(p) \/ InitWorkspace(p)
    <2>1. /\ Now(p).do \in {"compute", "print", "verdict", "directory", "open", "init"}
          /\ shell' = [shell EXCEPT ![p] = WentOn(p, shell[p], shell[p].step)]
      BY <1>4 DEF Plain, OpenWorkspace, InitWorkspace, Doing, Moved
    <2>2. SameRounds
      BY <1>1, <1>4 DEF SameRounds, Plain, OpenWorkspace, InitWorkspace
    <2>3. Effect(p, shell[p], shell[p].step)
      BY <1>2, <1>3, <2>1, <2>2 DEF Effect, FileStep, Reading
    <2>4. QED
      BY <2>3
  <1>5. CASE AcceptBatch(p)
    <2>1. Now(p).do = "commit" /\ shell' = [shell EXCEPT ![p] = WentOn(p, shell[p], shell[p].step)]
      BY <1>5 DEF AcceptBatch, Doing, Moved
    <2>2. TakesBatch(p)
      BY <1>1, <1>5 DEF TakesBatch, AcceptBatch
    <2>3. Effect(p, shell[p], shell[p].step)
      BY <1>2, <1>3, <2>1, <2>2 DEF Effect, FileStep, Reading
    <2>4. QED
      BY <2>3
  <1>6. CASE Reuse(p)
    <2>1. Now(p).do = "reuse"
      BY <1>6 DEF Reuse, Doing
    <2>2. shell[p].step + Now(p).of \in Nat
      <3>1. Now(p).of \in Nat
        BY <1>3, <2>1 DEF Jumps
      <3>2. QED
        BY <1>3, <3>1
    <2>3. PICK m \in Nat : shell' = [shell EXCEPT ![p] = WentOn(p, shell[p], m)]
      BY <1>3, <1>6, <2>2 DEF Reuse, Moved
    <2>4. SameRounds
      BY <1>6 DEF SameRounds, Reuse
    <2>5. Effect(p, shell[p], m)
      BY <1>2, <1>3, <2>1, <2>3, <2>4 DEF Effect, FileStep, Reading
    <2>6. QED
      BY <2>5
  <1>7. QED
    BY <1>4, <1>5, <1>6

LEMMA ChangingEffect ==
  ASSUME CommandInvariant, NEW p \in Shells, GiveOptions(p) \/ Read(p) \/ HandOutBatch(p)
  PROVE  \E process, m : Effect(p, process, m)
  <1>1. CommandTypeOK /\ shell[p] \in ShellStates /\ file \in [Files -> FileStates] /\ workspace \in [exists : BOOLEAN, issued : Nat, committed : SUBSET Int]
    BY DEF CommandInvariant, CommandTypeOK
  <1>2. Busy(p) /\ file' = file
    BY DEF GiveOptions, Read, HandOutBatch, Doing
  <1>3. shell[p].step \in Nat /\ shell[p].step \in DOMAIN Program(p)
        /\ Now(p) = Program(p)[shell[p].step] /\ Named(Program(p))
    BY <1>2, Underway
  <1>4. CASE GiveOptions(p)
    <2>1. PICK given : /\ Use(p).given \subseteq given
                       /\ shell' = [shell EXCEPT ![p] = WentOn(p, [shell[p] EXCEPT !.missing = Now(p).of \ given], shell[p].step)]
      BY <1>4 DEF GiveOptions, Moved, Now, Use
    <2>2. Now(p).do = "options"
      BY <1>4 DEF GiveOptions, Doing
    <2>3. Now(p).of \in SUBSET Names
      BY <1>3, <2>2 DEF Named
    <2> DEFINE process == [shell[p] EXCEPT !.missing = Now(p).of \ given]
    <2>4. /\ process \in ShellStates /\ process.session = shell[p].session /\ process.at = shell[p].at
          /\ process.code = shell[p].code /\ process.batch = shell[p].batch /\ process.missing = Now(p).of \ given
      BY <1>1, <2>3 DEF ShellStates
    <2>5. shell' = [shell EXCEPT ![p] = WentOn(p, process, shell[p].step)]
      BY <2>1
    <2> HIDE DEF process
    <2>6. SameCommand(p, process) /\ SameRounds
      BY <1>4, <2>4 DEF SameCommand, SameRounds, GiveOptions
    <2>7. Effect(p, process, shell[p].step)
      BY <1>2, <1>3, <2>1, <2>2, <2>4, <2>5, <2>6 DEF Effect, FileStep, Reading
    <2>8. QED
      BY <2>7
  <1>5. CASE Read(p)
    <2> DEFINE r == [how |-> Now(p).do, state |-> file[Of(p)].state]
               process == [shell[p] EXCEPT !.batch = file[Of(p)].batch, !.seen = @ \cup {r}]
    <2>1. Now(p).do \in Reading
      BY <1>5 DEF Read, Doing, Reading
    <2>2. Of(p) \in Files
      BY <1>2, <2>1, Underway
    <2>3. r \in [how : Reading, state : States] /\ file[Of(p)].batch \in Int
      BY <1>1, <2>1, <2>2 DEF FileStates
    <2>4. shell' = [shell EXCEPT ![p] = WentOn(p, process, shell[p].step)]
      BY <1>5 DEF Read, Moved
    <2> HIDE DEF r
    <2>5. /\ process \in ShellStates /\ process.session = shell[p].session /\ process.at = shell[p].at
          /\ process.code = shell[p].code /\ process.missing = shell[p].missing /\ process.batch = file[Of(p)].batch
      BY <1>1, <2>3 DEF ShellStates
    <2> HIDE DEF process
    <2>6. SameCommand(p, process) /\ SameRounds
      BY <1>5, <2>5 DEF SameCommand, SameRounds, Read
    <2>7. Now(p).do = "read json" => file[Of(p)].state \in {"whole", "mixed"}
      BY <1>5 DEF Read, Accepts
    <2>8. Now(p).do \notin {"options", "reuse", "begin", "commit", "create", "rows", "close", "remove"}
      BY <2>1 DEF Reading
    <2>9. Effect(p, process, shell[p].step)
      BY <1>2, <1>3, <2>1, <2>2, <2>4, <2>5, <2>6, <2>7, <2>8 DEF Effect, FileStep
    <2>10. QED
      BY <2>9
  <1>6. CASE HandOutBatch(p)
    <2> DEFINE process == [shell[p] EXCEPT !.batch = NextBatch]
    <2>1. Now(p).do = "begin" /\ shell' = [shell EXCEPT ![p] = WentOn(p, process, shell[p].step)]
      BY <1>6 DEF HandOutBatch, Doing, Moved
    <2>2. NextBatch \in Int
      BY <1>1 DEF NextBatch
    <2>3. /\ process \in ShellStates /\ process.session = shell[p].session /\ process.at = shell[p].at
          /\ process.code = shell[p].code /\ process.missing = shell[p].missing /\ process.batch = NextBatch
      BY <1>1, <2>2 DEF ShellStates
    <2> HIDE DEF process
    <2>4. workspace'.issued = NextBatch /\ workspace'.committed = workspace.committed
      BY <1>1, <1>6 DEF HandOutBatch
    <2>5. SameCommand(p, process) /\ HandsOut(p, process)
      BY <2>3, <2>4 DEF SameCommand, HandsOut
    <2>6. Effect(p, process, shell[p].step)
      BY <1>2, <1>3, <2>1, <2>3, <2>5 DEF Effect, FileStep, Reading
    <2>7. QED
      BY <2>6
  <1>7. QED
    BY <1>4, <1>5, <1>6

LEMMA WritingEffect ==
  ASSUME CommandInvariant, NEW p \in Shells, CreateFile(p) \/ Rows(p) \/ Close(p) \/ RemoveFiles(p)
  PROVE  \E process, m : Effect(p, process, m)
  <1>1. CommandTypeOK /\ shell[p] \in ShellStates /\ file \in [Files -> FileStates]
    BY DEF CommandInvariant, CommandTypeOK
  <1>2. Busy(p) /\ workspace' = workspace /\ SameRounds
    BY DEF CreateFile, Rows, Close, RemoveFiles, Doing, SameRounds
  <1>3. shell[p].step \in Nat /\ SameCommand(p, shell[p])
    BY <1>2, Underway
  <1>4. CASE CreateFile(p)
    <2> DEFINE process == [shell[p] EXCEPT !.touched = @ \cup {Of(p)}, !.wrote = @ \cup {Of(p)}]
    <2>1. /\ Now(p).do = "create" /\ shell' = [shell EXCEPT ![p] = WentOn(p, process, shell[p].step)]
          /\ file' = [file EXCEPT ![Of(p)] = [state |-> "half", by |-> p, batch |-> 0]]
      BY <1>4 DEF CreateFile, Doing, Moved
    <2>2. Of(p) \in Files
      BY <1>2, <2>1, Underway DEF Writing
    <2>3. /\ process \in ShellStates /\ process.session = shell[p].session /\ process.at = shell[p].at
          /\ process.code = shell[p].code /\ process.missing = shell[p].missing /\ process.batch = shell[p].batch
      BY <1>1, <2>2 DEF ShellStates
    <2> HIDE DEF process
    <2>4. SameCommand(p, process)
      BY <2>3 DEF SameCommand
    <2>5. \A f \in Files : FileStep(p, f)
      BY <1>1, <2>1, <2>2 DEF FileStep
    <2>6. Effect(p, process, shell[p].step)
      BY <1>2, <1>3, <2>1, <2>3, <2>4, <2>5 DEF Effect, Reading
    <2>7. QED
      BY <2>6
  <1>5. CASE Rows(p) \/ Close(p)
    <2>1. /\ Now(p).do \in {"rows", "close"} /\ shell' = [shell EXCEPT ![p] = WentOn(p, shell[p], shell[p].step)]
      BY <1>5 DEF Rows, Close, Doing, Moved
    <2>2. Of(p) \in Files
      BY <1>2, <2>1, Underway DEF Writing
    <2>3. CASE Close(p)
      <3> DEFINE state == IF file[Of(p)].by = p /\ file[Of(p)].state = "half" THEN "whole" ELSE "mixed"
      <3>1. /\ Now(p).do = "close"
            /\ file' = [file EXCEPT ![Of(p)].state = state, ![Of(p)].batch = shell[p].batch]
        BY <2>3 DEF Close, Doing
      <3> HIDE DEF state
      <3>2. file'[Of(p)].batch = shell[p].batch /\ \A f \in Files : f # Of(p) => file'[f] = file[f]
        BY <1>1, <2>2, <3>1 DEF FileStates
      <3>3. QED
        BY <1>2, <1>3, <2>1, <3>1, <3>2 DEF Effect, FileStep, Reading
    <2>4. CASE Rows(p)
      <3> DEFINE state == IF file[Of(p)].by = p THEN file[Of(p)].state ELSE "mixed"
      <3>1. Now(p).do = "rows" /\ file' = [file EXCEPT ![Of(p)].state = state]
        BY <2>4 DEF Rows, Doing
      <3> HIDE DEF state
      <3>2. \A f \in Files : file'[f].batch = file[f].batch
        BY <1>1, <2>2, <3>1 DEF FileStates
      <3>3. QED
        BY <1>2, <1>3, <2>1, <3>1, <3>2 DEF Effect, FileStep, Reading
    <2>5. QED
      BY <1>5, <2>3, <2>4
  <1>6. CASE RemoveFiles(p)
    <2> DEFINE all == {Use(p).bind[role] : role \in Now(p).of}
    <2>1. PICK removed \in {{}, all} :
            /\ file' = [f \in Files |-> IF f \in removed THEN [file[f] EXCEPT !.state = "none"] ELSE file[f]]
            /\ shell' = [shell EXCEPT ![p] = WentOn(p, [shell[p] EXCEPT !.touched = @ \ removed], shell[p].step)]
      BY <1>6 DEF RemoveFiles, Moved
    <2>2. Now(p).do = "remove"
      BY <1>6 DEF RemoveFiles, Doing
    <2> DEFINE process == [shell[p] EXCEPT !.touched = @ \ removed]
    <2>3. /\ process \in ShellStates /\ process.session = shell[p].session /\ process.at = shell[p].at
          /\ process.code = shell[p].code /\ process.missing = shell[p].missing /\ process.batch = shell[p].batch
      BY <1>1 DEF ShellStates
    <2>4. shell' = [shell EXCEPT ![p] = WentOn(p, process, shell[p].step)]
      BY <2>1
    <2> HIDE DEF process
    <2>5. SameCommand(p, process)
      BY <2>3 DEF SameCommand
    <2>6. \A f \in Files : file'[f].batch = file[f].batch
      BY <1>1, <2>1 DEF FileStates
    <2>7. Effect(p, process, shell[p].step)
      BY <1>2, <1>3, <2>2, <2>3, <2>4, <2>5, <2>6 DEF Effect, FileStep, Reading
    <2>8. QED
      BY <2>7
  <1>7. QED
    BY <1>4, <1>5, <1>6

\* A process that does not go on leaves the files and the study as they are.
LEMMA Effects ==
  ASSUME CommandInvariant, NEW p \in Shells, ShellStep(p)
  PROVE  \/ (Start(p) \/ Fail(p) \/ Kill(p)) /\ file' = file /\ SameRounds
         \/ Busy(p) /\ \E process, m : Effect(p, process, m)
  <1>1. CASE Start(p) \/ Fail(p) \/ Kill(p)
    BY <1>1 DEF Start, Fail, Kill, SameRounds
  <1>2. CASE ~(Start(p) \/ Fail(p) \/ Kill(p))
    <2>1. Busy(p)
      BY <1>2 DEF ShellStep, GiveOptions, Plain, Read, Reuse, RemoveFiles, CreateFile, Rows, Close, OpenWorkspace,
                  InitWorkspace, HandOutBatch, AcceptBatch, Doing
    <2>2. QED
      BY <1>2, <2>1, QuietEffect, ChangingEffect, WritingEffect DEF ShellStep
  <1>3. QED
    BY <1>1, <1>2

\* Whoever is about a batch is about one that was handed out.
BatchesKnown ==
  /\ \A f \in Files : file[f].batch <= workspace.issued
  /\ \A p \in Shells : shell[p].batch <= workspace.issued

LEMMA HandedOutOnly ==
  ASSUME CommandTypeOK
  PROVE  NextBatch \in Nat /\ workspace.issued \in Nat /\ workspace.issued <= NextBatch
  <1>1. workspace.issued \in Nat
    BY DEF CommandTypeOK
  <1>2. QED
    BY <1>1 DEF NextBatch

LEMMA KnownStays ==
  ASSUME CommandInvariant, NEW p \in Shells, ShellStep(p), BatchesKnown
  PROVE  BatchesKnown'
  <1>1. /\ CommandTypeOK /\ shell \in [Shells -> ShellStates] /\ file \in [Files -> FileStates] /\ workspace.issued \in Nat
        /\ shell[p] \in ShellStates
    BY DEF CommandInvariant, CommandTypeOK
  <1>2. StepFrame(p)
    BY Frames
  <1>3. CASE (Start(p) \/ Fail(p) \/ Kill(p)) /\ file' = file /\ SameRounds
    <2>1. shell'[p].batch \in {0, shell[p].batch}
      <3>1. CASE Start(p)
        BY <1>1, <3>1 DEF Start, ShellStates
      <3>2. CASE Fail(p) \/ Kill(p)
        <4>1. PICK code, failed : shell' = [shell EXCEPT ![p] = Ended(shell[p], code, failed)]
          BY <3>2 DEF Fail, Kill
        <4>2. shell'[p] = Ended(shell[p], code, failed)
          BY <1>1, <4>1
        <4>3. QED
          BY <1>1, <4>2 DEF Ended, ShellStates
      <3>3. QED
        BY <1>3, <3>1, <3>2
    <2>2. \A q \in Shells : shell'[q].batch \in {0, shell[q].batch}
      BY <1>2, <2>1 DEF StepFrame
    <2>3. \A q \in Shells : shell[q].batch \in Int /\ shell[q].batch <= workspace.issued
      BY <1>1 DEF ShellStates, BatchesKnown
    <2>4. workspace'.issued = workspace.issued
      BY <1>3 DEF SameRounds
    <2>5. \A q \in Shells : shell'[q].batch <= workspace'.issued
      BY <1>1, <2>2, <2>3, <2>4
    <2>6. \A f \in Files : file'[f].batch <= workspace'.issued
      BY <1>3, <2>4 DEF BatchesKnown
    <2>7. QED
      BY <2>5, <2>6 DEF BatchesKnown
  <1>4. ASSUME Busy(p), NEW process, NEW m, Effect(p, process, m)
        PROVE  BatchesKnown'
    <2>1. workspace'.issued \in Nat /\ workspace.issued <= workspace'.issued
      <3>1. workspace'.issued \in {workspace.issued, NextBatch}
        <4>1. CASE Now(p).do = "begin"
          BY <1>4, <4>1 DEF Effect, HandsOut
        <4>2. CASE Now(p).do = "commit"
          BY <1>4, <4>2 DEF Effect, TakesBatch
        <4>3. CASE Now(p).do \notin {"begin", "commit"}
          BY <1>4, <4>3 DEF Effect, SameRounds
        <4>4. QED
          BY <4>1, <4>2, <4>3
      <3>2. QED
        BY <1>1, <3>1, HandedOutOnly
    <2>2. /\ \A f \in Files : file[f].batch \in Int /\ file[f].batch <= workspace.issued
          /\ \A q \in Shells : shell[q].batch \in Int /\ shell[q].batch <= workspace.issued
      BY <1>1 DEF ShellStates, FileStates, BatchesKnown
    <2>3. \A f \in Files : file'[f].batch \in {0, file[f].batch, shell[p].batch}
      BY <1>4 DEF Effect, FileStep
    <2>4. process.batch <= workspace'.issued
      <3>1. \/ process.batch = shell[p].batch
            \/ Of(p) \in Files /\ process.batch = file[Of(p)].batch
            \/ process.batch = workspace'.issued
        BY <1>4 DEF Effect, HandsOut
      <3>2. QED
        BY <1>1, <2>1, <2>2, <3>1
    <2>5. shell'[p].batch = process.batch
      BY <1>4, MovedOn DEF Effect
    <2>6. \A q \in Shells : shell'[q].batch <= workspace'.issued
      BY <1>1, <1>2, <2>1, <2>2, <2>4, <2>5 DEF StepFrame
    <2>7. \A f \in Files : file'[f].batch <= workspace'.issued
      BY <1>1, <2>1, <2>2, <2>3
    <2>8. QED
      BY <2>6, <2>7 DEF BatchesKnown
  <1>5. QED
    BY <1>3, <1>4, Effects

-----------------------------------------------------------------------------
(* The rounds of a study.                                                    *)

\* A program from which nothing is left out is run through in order.
LEMMA InOrder ==
  ASSUME CommandTypeOK, NEW p \in Shells, shell[p].at <= Len(shell[p].session), NEW n \in Nat, DOMAIN Program(p) = 1..n,
         NEW process \in ShellStates, process.missing = {}, NEW m \in 1..n
  PROVE  /\ m < n => WentOn(p, process, m) = [process EXCEPT !.step = m + 1]
         /\ m = n => \E failed \in Failures : WentOn(p, process, m) = Ended(process, 0, failed)
  <1> DEFINE S == Following(p, process, m)
  <1>1. \A i : i \in S <=> i \in 1..n /\ i > m
    <2>1. \A i \in DOMAIN Program(p) : Program(p)[i].of \notin process.missing
      OBVIOUS
    <2>2. QED
      BY <2>1 DEF Following
  <1> HIDE DEF S
  <1>2. m \in Nat
    OBVIOUS
  <1>3. \/ S = {} /\ \E failed \in Failures : WentOn(p, process, m) = Ended(process, 0, failed)
        \/ \E i \in S : (\A j \in S : i <= j) /\ WentOn(p, process, m) = [process EXCEPT !.step = i]
    BY <1>2, Going DEF S
  <1>4. CASE m < n
    <2>1. m + 1 \in S
      BY <1>1, <1>4
    <2>2. PICK i \in S : (\A j \in S : i <= j) /\ WentOn(p, process, m) = [process EXCEPT !.step = i]
      BY <1>3, <2>1
    <2>3. i <= m + 1 /\ i \in 1..n /\ i > m
      BY <1>1, <2>1, <2>2
    <2>4. i = m + 1
      BY <1>2, <2>3
    <2>5. m # n
      BY <1>4
    <2>6. QED
      BY <2>2, <2>4, <2>5
  <1>5. CASE m = n
    <2>1. ASSUME NEW i, i \in S PROVE FALSE
      <3>1. i \in 1..n /\ i > m
        BY <1>1, <2>1
      <3>2. QED
        BY <1>5, <3>1
    <2>2. ~(m < n)
      BY <1>5
    <2>3. QED
      BY <1>3, <2>1, <2>2
  <1>6. QED
    BY <1>4, <1>5

\* A process that has begun its next step, or has come to its end.
Continued(p, k) ==
  /\ shell'[p].step = k + 1 /\ shell'[p].code = -1 /\ shell'[p].at = shell[p].at /\ shell'[p].missing = {}
Finished(p) ==
  /\ shell'[p].step = 0 /\ shell'[p].code = 0 /\ shell'[p].last = shell[p].at /\ shell'[p].at = shell[p].at + 1
  /\ shell'[p].missing = {}
LEMMA Continuing ==
  ASSUME CommandInvariant, NEW p \in Shells, Busy(p), NEW n \in Nat, DOMAIN Program(p) = 1..n,
         NEW process, Effect(p, process, shell[p].step), process.missing = {}
  PROVE  LET k == shell[p].step
         IN  /\ k \in 1..n /\ (IF k < n THEN Continued(p, k) ELSE Finished(p))
             /\ shell'[p].batch = process.batch
  <1> DEFINE k == shell[p].step
  <1>1. /\ CommandTypeOK /\ shell \in [Shells -> ShellStates] /\ shell[p].at <= Len(shell[p].session) /\ shell[p].code = -1
        /\ k \in 1..n /\ k \in Nat
    BY Underway DEF CommandInvariant, CommandTypeOK, ShellInvariant, Standing
  <1>2. /\ process \in ShellStates /\ process.session = shell[p].session /\ process.at = shell[p].at
        /\ process.code = -1 /\ SameCommand(p, process)
        /\ shell' = [shell EXCEPT ![p] = WentOn(p, process, k)]
    BY <1>1 DEF SameCommand, Effect
  <1>3. shell'[p] = WentOn(p, process, k) /\ shell'[p].batch = process.batch
    BY <1>1, <1>2, MovedOn
  <1>4. CASE k < n
    <2>1. shell'[p] = [process EXCEPT !.step = k + 1]
      BY <1>1, <1>2, <1>3, <1>4, InOrder
    <2>2. Continued(p, k)
      BY <1>2, <2>1 DEF Continued, ShellStates
    <2>3. QED
      BY <1>1, <1>3, <1>4, <2>2
  <1>5. CASE k = n
    <2>1. PICK failed \in Failures : shell'[p] = Ended(process, 0, failed)
      BY <1>1, <1>2, <1>3, <1>5, InOrder
    <2>2. 0 \in Int
      OBVIOUS
    <2>3. shell'[p].step = 0 /\ shell'[p].code = 0 /\ shell'[p].last = shell[p].at /\ shell'[p].missing = {}
      <3>1. CommandTypeOK /\ process \in ShellStates /\ process.at = shell[p].at
        BY <1>1, <1>2
      <3>2. /\ Ended(process, 0, failed).step = 0 /\ Ended(process, 0, failed).missing = {}
            /\ Ended(process, 0, failed).code = 0 /\ Ended(process, 0, failed).last = process.at
        BY <2>1, <2>2, <3>1, EndedType
      <3>3. QED
        BY <2>1, <3>1, <3>2
    <2>4. shell'[p].at = shell[p].at + 1
      <3>1. process \in ShellStates /\ process.at = shell[p].at
        BY <1>2
      <3>2. Ended(process, 0, failed).at = After(process, 0)
        BY <3>1 DEF Ended, ShellStates
      <3>3. After(process, 0) = process.at + 1
        BY DEF After
      <3>4. QED
        BY <2>1, <3>1, <3>2, <3>3
    <2>5. Finished(p)
      BY <2>3, <2>4 DEF Finished
    <2>6. ~(k < n)
      BY <1>1, <1>5
    <2>7. QED
      BY <1>1, <1>3, <2>5, <2>6
  <1>6. QED
    BY <1>1, <1>4, <1>5

\* How often a command is among the first uses of a session.
Count(uses, command, n) == Cardinality({k \in 1..n : uses[k].command = command})
Counted(uses, command, l, n) ==
  /\ Count(uses, command, l) \in Nat
  /\ uses[n].command = command => Count(uses, command, n) = Count(uses, command, l) + 1
  /\ uses[n].command # command => Count(uses, command, n) = Count(uses, command, l)
LEMMA Counting ==
  ASSUME NEW uses, NEW command, NEW l \in Nat, NEW n, n = l + 1
  PROVE  Counted(uses, command, l, n)
  <1> DEFINE S(m) == {k \in 1..m : uses[k].command = command}
  <1>1. IsFiniteSet(S(l)) /\ Cardinality(S(l)) \in Nat
    <2>1. IsFiniteSet(1..l) /\ S(l) \subseteq 1..l
      BY FS_Interval
    <2>2. IsFiniteSet(S(l))
      BY <2>1, FS_Subset
    <2>3. QED
      BY <2>2, FS_CardinalityType
  <1>2. n \notin S(l) /\ S(n) = IF uses[n].command = command THEN S(l) \cup {n} ELSE S(l)
    <2>1. \A k : k \in 1..n <=> k \in 1..l \/ k = n
      OBVIOUS
    <2>2. n \notin 1..l
      OBVIOUS
    <2>3. QED
      BY <2>1, <2>2
  <1>3. \A m : Count(uses, command, m) = Cardinality(S(m))
    BY DEF Count
  <1> HIDE DEF S
  <1>4. CASE uses[n].command = command
    <2>1. Cardinality(S(n)) = Cardinality(S(l)) + 1
      BY <1>1, <1>2, <1>4, FS_AddElement
    <2>2. QED
      BY <1>1, <1>3, <1>4, <2>1 DEF Counted
  <1>5. CASE uses[n].command # command
    BY <1>1, <1>2, <1>3, <1>5 DEF Counted
  <1>6. QED
    BY <1>4, <1>5

LEMMA CountingNone ==
  ASSUME NEW uses, NEW command
  PROVE  Count(uses, command, 0) = 0
  <1>1. {k \in 1..0 : uses[k].command = command} = {}
    OBVIOUS
  <1>2. QED
    BY <1>1, FS_EmptySet DEF Count

\* What parses as a batch file, or as rows, is about this batch.
About(files, f, batch) == files[f].state \in {"whole", "mixed"} => files[f].batch = batch

\* What holds before the k-th step of a command, after so many rounds have begun and
\* so many have ended; after its last step, what it leaves behind.
BatchPhase(files, study, use, k, batch, begun, ended) ==
  /\ begun = ended /\ study.committed = 1..ended /\ study.issued \in {ended, ended + 1}
  /\ k >= 4 => study.issued = ended + 1 /\ batch = ended + 1
  /\ k >= 6 => About(files, use.bind["output"], ended + 1)
EvaluatePhase(files, study, use, k, batch, begun, ended) ==
  /\ begun = ended + 1 /\ study.committed = 1..ended /\ study.issued = begun
  /\ About(files, use.bind["input"], begun)
  /\ k >= 2 => batch = begun
  /\ k >= 4 => About(files, use.bind["output"], begun)
CommitPhase(files, study, use, k, batch, begun, ended) ==
  /\ begun = ended + 1 /\ study.issued = begun /\ study.committed \in {1..ended, 1..begun}
  /\ About(files, use.bind["evaluations"], begun)
  /\ k >= 3 => batch = begun
  /\ k >= 5 => study.committed = 1..begun
Phase(files, study, use, k, batch, begun, ended) ==
  /\ use.command = "study-batch" => BatchPhase(files, study, use, k, batch, begun, ended)
  /\ use.command = "evaluate" => EvaluatePhase(files, study, use, k, batch, begun, ended)
  /\ use.command = "study-commit" => CommitPhase(files, study, use, k, batch, begun, ended)

LEMMA PhaseAgain ==
  ASSUME NEW files, NEW study, NEW use, NEW k \in Nat, NEW batch, NEW begun, NEW ended,
         Phase(files, study, use, k, batch, begun, ended), NEW k2 \in {0, 1}, NEW batch2
  PROVE  Phase(files, study, use, k2, batch2, begun, ended)
  <1>1. use.command = "study-batch" => BatchPhase(files, study, use, k2, batch2, begun, ended)
    BY DEF Phase, BatchPhase
  <1>2. use.command = "evaluate" => EvaluatePhase(files, study, use, k2, batch2, begun, ended)
    BY DEF Phase, EvaluatePhase
  <1>3. use.command = "study-commit" => CommitPhase(files, study, use, k2, batch2, begun, ended)
    BY DEF Phase, CommitPhase
  <1>4. QED
    BY <1>1, <1>2, <1>3 DEF Phase

\* The file that a command of a round reads is one that a command has written.
LEMMA RoundFiles ==
  ASSUME NEW uses \in Seq(Uses), InRounds(uses), NEW n \in DOMAIN uses
  PROVE  /\ uses[n].command \in {"study-batch", "evaluate", "study-commit"}
         /\ uses[n].command = "evaluate" => \E l \in DOMAIN uses : uses[n].bind["input"] = uses[l].bind["output"]
         /\ uses[n].command = "study-commit" =>
               \E l \in DOMAIN uses : uses[n].bind["evaluations"] = uses[l].bind["output"]
         /\ n = 1 => uses[n].command = "study-batch"
         /\ n + 1 \in DOMAIN uses => Follows(uses[n + 1], uses[n])
         /\ uses[n].command = "study-batch" => "output" \in uses[n].given
  <1>1. \A k \in DOMAIN uses : /\ IF k = 1 THEN uses[k].command = "study-batch" ELSE Follows(uses[k], uses[k - 1])
                               /\ uses[k].command = "study-batch" => "output" \in uses[k].given
    BY DEF InRounds
  <1>2. CASE n = 1
    <2>1. uses[n].command = "study-batch" /\ "output" \in uses[n].given
      BY <1>1, <1>2
    <2>2. n + 1 \in DOMAIN uses => Follows(uses[n + 1], uses[n])
      BY <1>1, <1>2
    <2>3. QED
      BY <2>1, <2>2
  <1>3. CASE n # 1
    <2>1. n - 1 \in DOMAIN uses /\ n \in Nat
      BY <1>3
    <2>2. Follows(uses[n], uses[n - 1])
      BY <1>1, <1>3
    <2>3. n + 1 \in DOMAIN uses => n + 1 # 1 /\ (n + 1) - 1 = n
      BY <2>1
    <2>4. n + 1 \in DOMAIN uses => Follows(uses[n + 1], uses[n])
      BY <1>1, <2>3
    <2>5. /\ uses[n].command \in {"study-batch", "evaluate", "study-commit"}
          /\ uses[n].command = "evaluate" => uses[n].bind["input"] = uses[n - 1].bind["output"]
          /\ uses[n].command = "study-commit" => uses[n].bind["evaluations"] = uses[n - 1].bind["output"]
      BY <2>2 DEF Follows
    <2>6. QED
      BY <1>1, <1>3, <2>1, <2>4, <2>5
  <1>4. QED
    BY <1>2, <1>3

\* A phase is about nothing but the study and those files.
LEMMA PhaseElsewhere ==
  ASSUME NEW uses \in Seq(Uses), InRounds(uses), NEW n \in DOMAIN uses, NEW files, NEW study, NEW new, NEW study2,
         \A l \in DOMAIN uses : new[uses[l].bind["output"]] = files[uses[l].bind["output"]],
         study2.issued = study.issued, study2.committed = study.committed,
         NEW k, NEW batch, NEW begun, NEW ended, Phase(files, study, uses[n], k, batch, begun, ended)
  PROVE  Phase(new, study2, uses[n], k, batch, begun, ended)
  <1> DEFINE use == uses[n]
  <1>1. use.command = "study-batch" => BatchPhase(new, study2, use, k, batch, begun, ended)
    BY DEF Phase, BatchPhase, About
  <1>2. use.command = "evaluate" => EvaluatePhase(new, study2, use, k, batch, begun, ended)
    <2>1. SUFFICES ASSUME use.command = "evaluate" PROVE EvaluatePhase(new, study2, use, k, batch, begun, ended)
      OBVIOUS
    <2>2. new[use.bind["input"]] = files[use.bind["input"]]
      BY <2>1, RoundFiles
    <2>3. QED
      BY <2>1, <2>2 DEF Phase, EvaluatePhase, About
  <1>3. use.command = "study-commit" => CommitPhase(new, study2, use, k, batch, begun, ended)
    <2>1. SUFFICES ASSUME use.command = "study-commit" PROVE CommitPhase(new, study2, use, k, batch, begun, ended)
      OBVIOUS
    <2>2. new[use.bind["evaluations"]] = files[use.bind["evaluations"]]
      BY <2>1, RoundFiles
    <2>3. QED
      BY <2>1, <2>2 DEF Phase, CommitPhase, About
  <1>4. QED
    BY <1>1, <1>2, <1>3 DEF Phase

\* What a command leaves behind is what the next one begins with.
Steps(command) == IF command = "study-batch" THEN 6 ELSE IF command = "evaluate" THEN 3 ELSE 5
LEMMA RoundsGoOn ==
  ASSUME NEW uses \in Seq(Uses), InRounds(uses), NEW n \in DOMAIN uses, NEW files, NEW study, NEW batch, NEW batch2,
         Phase(files, study, uses[n], Steps(uses[n].command) + 1, batch, Count(uses, "study-batch", n - 1),
               Count(uses, "study-commit", n - 1))
  PROVE  /\ study.issued = Count(uses, "study-batch", n) /\ study.committed = 1..Count(uses, "study-commit", n)
         /\ n + 1 \in DOMAIN uses => Phase(files, study, uses[n + 1], 0, batch2, Count(uses, "study-batch", n),
                                           Count(uses, "study-commit", n))
  <1> DEFINE use == uses[n]
             next == uses[n + 1]
             b == Count(uses, "study-batch", n - 1)
             c == Count(uses, "study-commit", n - 1)
             b2 == Count(uses, "study-batch", n)
             c2 == Count(uses, "study-commit", n)
  <1>1. Counted(uses, "study-batch", n - 1, n) /\ Counted(uses, "study-commit", n - 1, n)
    <2>1. n - 1 \in Nat /\ n = (n - 1) + 1
      OBVIOUS
    <2>2. QED
      BY <2>1, Counting
  <1>2. /\ b \in Nat /\ c \in Nat
        /\ b2 = IF use.command = "study-batch" THEN b + 1 ELSE b
        /\ c2 = IF use.command = "study-commit" THEN c + 1 ELSE c
    BY <1>1 DEF Counted
  <1>3. /\ use.command \in {"study-batch", "evaluate", "study-commit"}
        /\ n + 1 \in DOMAIN uses => Follows(next, use)
    BY RoundFiles
  <1>4. Phase(files, study, use, Steps(use.command) + 1, batch, b, c)
    OBVIOUS
  <1> HIDE DEF use, next, b, c, b2, c2
  <1>5. CASE use.command = "study-batch"
    <2>1. Steps(use.command) + 1 >= 6 /\ Steps(use.command) + 1 >= 4
      BY <1>5 DEF Steps
    <2>2. /\ b = c /\ study.committed = 1..c /\ study.issued = c + 1 /\ About(files, use.bind["output"], c + 1)
      BY <1>4, <1>5, <2>1 DEF Phase, BatchPhase
    <2>3. b2 = b + 1 /\ c2 = c
      BY <1>2, <1>5
    <2>4. ASSUME Follows(next, use) PROVE Phase(files, study, next, 0, batch2, b2, c2)
      <3>1. next.command = "evaluate" /\ next.bind["input"] = use.bind["output"]
        BY <1>5, <2>4 DEF Follows
      <3>2. EvaluatePhase(files, study, next, 0, batch2, b2, c2)
        BY <2>2, <2>3, <3>1 DEF EvaluatePhase
      <3>3. QED
        BY <3>1, <3>2 DEF Phase
    <2>5. QED
      BY <1>3, <2>2, <2>3, <2>4 DEF b2, c2, next
  <1>6. CASE use.command = "evaluate"
    <2>1. Steps(use.command) + 1 >= 4
      BY <1>6 DEF Steps
    <2>2. /\ b = c + 1 /\ study.committed = 1..c /\ study.issued = b /\ About(files, use.bind["output"], b)
      BY <1>4, <1>6, <2>1 DEF Phase, EvaluatePhase
    <2>3. b2 = b /\ c2 = c
      BY <1>2, <1>6
    <2>4. ASSUME Follows(next, use) PROVE Phase(files, study, next, 0, batch2, b2, c2)
      <3>1. next.command = "study-commit" /\ next.bind["evaluations"] = use.bind["output"]
        BY <1>6, <2>4 DEF Follows
      <3>2. CommitPhase(files, study, next, 0, batch2, b2, c2)
        BY <2>2, <2>3, <3>1 DEF CommitPhase
      <3>3. QED
        BY <3>1, <3>2 DEF Phase
    <2>5. QED
      BY <1>3, <2>2, <2>3, <2>4 DEF b2, c2, next
  <1>7. CASE use.command = "study-commit"
    <2>1. Steps(use.command) + 1 >= 5
      BY <1>7 DEF Steps
    <2>2. /\ b = c + 1 /\ study.committed = 1..b /\ study.issued = b
      BY <1>4, <1>7, <2>1 DEF Phase, CommitPhase
    <2>3. b2 = b /\ c2 = c + 1
      BY <1>2, <1>7
    <2>4. ASSUME Follows(next, use) PROVE Phase(files, study, next, 0, batch2, b2, c2)
      <3>1. next.command = "study-batch"
        BY <1>7, <2>4 DEF Follows
      <3>2. BatchPhase(files, study, next, 0, batch2, b2, c2)
        BY <1>2, <2>2, <2>3 DEF BatchPhase
      <3>3. QED
        BY <3>1, <3>2 DEF Phase
    <2>5. QED
      BY <1>3, <2>2, <2>3, <2>4 DEF b2, c2, next
  <1>8. QED
    BY <1>3, <1>5, <1>6, <1>7

\* A step of each command of a round.
LEMMA StepOfRound ==
  ASSUME CommandInvariant, NEW p \in Shells, Busy(p), shell[p].missing = {}, NEW process, NEW m, Effect(p, process, m)
  PROVE  LET k == shell[p].step
             c == Program(p)
         IN  /\ k \in DOMAIN c /\ Now(p) = c[k] /\ Of(p) = Use(p).bind[c[k].of] /\ m \in Nat
             /\ Use(p).bind \in [Roles -> Files] /\ {"input", "output", "evaluations"} \subseteq Roles
             /\ workspace.issued \in Nat
             /\ c[k].do # "options" => process.missing = {}
  <1>1. /\ shell[p].step \in DOMAIN Program(p) /\ Now(p) = Program(p)[shell[p].step] /\ Use(p).bind \in [Roles -> Files]
        /\ Of(p) = Target(p, shell[p].step)
    BY Underway
  <1>2. workspace.issued \in Nat /\ {"input", "output", "evaluations"} \subseteq Roles
    BY RoleNames DEF CommandInvariant, CommandTypeOK
  <1>3. m \in Nat /\ (Now(p).do # "options" => process.missing = {})
    BY DEF Effect
  <1>4. QED
    BY <1>1, <1>2, <1>3 DEF Target

LEMMA BatchStep ==
  ASSUME CommandInvariant, NEW p \in Shells, Busy(p), shell[p].missing = {}, NEW process, NEW m, Effect(p, process, m),
         Use(p).command = "study-batch", "output" \in Use(p).given, NEW b \in Nat, NEW d \in Nat,
         BatchPhase(file, workspace, Use(p), shell[p].step, shell[p].batch, b, d)
  PROVE  /\ process.missing = {} /\ m = shell[p].step
         /\ BatchPhase(file', workspace', Use(p), shell[p].step + 1, process.batch, b, d)
  <1> DEFINE k == shell[p].step
             c == Program(p)
             use == Use(p)
             output == use.bind["output"]
  <1>1. BatchProgram(c)
    BY BatchSteps DEF Program
  <1>2. /\ k \in DOMAIN c /\ Now(p) = c[k] /\ Of(p) = use.bind[c[k].of] /\ workspace.issued \in Nat
        /\ c[k].do # "options" => process.missing = {}
    BY StepOfRound
  <1>3. k \in 1..6
    BY <1>1, <1>2 DEF BatchProgram
  <1>4. /\ b = d /\ workspace.committed = 1..d /\ workspace.issued \in {d, d + 1}
        /\ k >= 4 => workspace.issued = d + 1 /\ shell[p].batch = d + 1
        /\ k >= 6 => About(file, output, d + 1)
    BY DEF BatchPhase
  <1>5. CASE k = 1
    <2>1. c[k].do = "options" /\ c[k].of = {"output"}
      BY <1>1, <1>5 DEF BatchProgram
    <2>2. PICK given : use.given \subseteq given /\ process.missing = {"output"} \ given
      BY <1>2, <2>1 DEF Effect
    <2>3. process.missing = {}
      BY <2>2
    <2>4. m = k /\ SameRounds
      BY <1>2, <2>1 DEF Effect
    <2>5. BatchPhase(file', workspace', use, 1 + 1, process.batch, b, d)
      BY <1>4, <2>4 DEF BatchPhase, SameRounds
    <2>6. QED
      BY <1>5, <2>3, <2>4, <2>5
  <1>6. CASE k = 2
    <2>1. c[k].do = "open"
      BY <1>1, <1>6 DEF BatchProgram
    <2>2. m = k /\ SameRounds
      BY <1>2, <2>1 DEF Effect
    <2>3. BatchPhase(file', workspace', use, 2 + 1, process.batch, b, d)
      BY <1>4, <2>2 DEF BatchPhase, SameRounds
    <2>4. QED
      BY <1>2, <1>6, <2>1, <2>2, <2>3
  <1>7. CASE k = 3
    <2>1. c[k].do = "begin"
      BY <1>1, <1>7 DEF BatchProgram
    <2>2. m = k /\ HandsOut(p, process)
      BY <1>2, <2>1 DEF Effect
    <2>3. NextBatch = d + 1
      <3>1. CASE workspace.issued = d
        BY <1>4, <3>1 DEF NextBatch, Active
      <3>2. CASE workspace.issued = d + 1
        BY <1>4, <3>2 DEF NextBatch, Active
      <3>3. QED
        BY <1>4, <3>1, <3>2
    <2>4. BatchPhase(file', workspace', use, 3 + 1, process.batch, b, d)
      BY <1>4, <2>2, <2>3 DEF BatchPhase, HandsOut
    <2>5. QED
      BY <1>2, <1>7, <2>1, <2>2, <2>4
  <1>8. CASE k = 4
    <2>1. c[k].do = "create"
      BY <1>1, <1>8 DEF BatchProgram
    <2>2. m = k /\ SameRounds /\ process.batch = shell[p].batch
      BY <1>2, <2>1 DEF Effect, Reading
    <2>3. BatchPhase(file', workspace', use, 4 + 1, process.batch, b, d)
      BY <1>4, <1>8, <2>2 DEF BatchPhase, SameRounds
    <2>4. QED
      BY <1>2, <1>8, <2>1, <2>2, <2>3
  <1>9. CASE k = 5
    <2>1. c[k].do = "close" /\ c[k].of = "output"
      BY <1>1, <1>9 DEF BatchProgram
    <2>2. m = k /\ SameRounds /\ process.batch = shell[p].batch /\ file'[output].batch = shell[p].batch
      BY <1>2, <2>1 DEF Effect, Reading
    <2>3. BatchPhase(file', workspace', use, 5 + 1, process.batch, b, d)
      BY <1>4, <1>9, <2>2 DEF BatchPhase, SameRounds, About
    <2>4. QED
      BY <1>2, <1>9, <2>1, <2>2, <2>3
  <1>10. CASE k = 6
    <2>1. c[k].do = "print"
      BY <1>1, <1>10 DEF BatchProgram
    <2>2. m = k /\ SameRounds /\ process.batch = shell[p].batch /\ file' = file
      BY <1>2, <2>1 DEF Effect, Reading
    <2>3. BatchPhase(file', workspace', use, 6 + 1, process.batch, b, d)
      BY <1>4, <1>10, <2>2 DEF BatchPhase, SameRounds
    <2>4. QED
      BY <1>2, <1>10, <2>1, <2>2, <2>3
  <1>11. QED
    BY <1>3, <1>5, <1>6, <1>7, <1>8, <1>9, <1>10

LEMMA EvaluateStep ==
  ASSUME CommandInvariant, NEW p \in Shells, Busy(p), shell[p].missing = {}, NEW process, NEW m, Effect(p, process, m),
         Use(p).command = "evaluate", NEW b \in Nat, NEW d \in Nat,
         EvaluatePhase(file, workspace, Use(p), shell[p].step, shell[p].batch, b, d)
  PROVE  /\ process.missing = {} /\ m = shell[p].step
         /\ EvaluatePhase(file', workspace', Use(p), shell[p].step + 1, process.batch, b, d)
  <1> DEFINE k == shell[p].step
             c == Program(p)
             use == Use(p)
             input == use.bind["input"]
             output == use.bind["output"]
  <1>1. EvaluateProgram(c)
    BY EvaluateSteps DEF Program
  <1>2. /\ k \in DOMAIN c /\ Now(p) = c[k] /\ Of(p) = use.bind[c[k].of]
        /\ c[k].do # "options" => process.missing = {}
        /\ input \in Files
    BY StepOfRound
  <1>3. k \in 1..3
    BY <1>1, <1>2 DEF EvaluateProgram
  <1>4. /\ b = d + 1 /\ workspace.committed = 1..d /\ workspace.issued = b /\ About(file, input, b)
        /\ k >= 2 => shell[p].batch = b
    BY DEF EvaluatePhase
  <1>5. c[k].do \in {"read json", "create", "close"}
    <2>1. CASE k = 1
      BY <1>1, <2>1 DEF EvaluateProgram
    <2>2. CASE k = 2
      BY <1>1, <2>2 DEF EvaluateProgram
    <2>3. CASE k = 3
      BY <1>1, <2>3 DEF EvaluateProgram
    <2>4. k = 1 \/ k = 2 \/ k = 3
      BY <1>3
    <2>5. QED
      BY <2>1, <2>2, <2>3, <2>4, Zenon
  <1>6. process.missing = {} /\ m = k /\ SameRounds
    BY <1>2, <1>5 DEF Effect
  <1>7. FileStep(p, input)
    BY <1>2 DEF Effect
  <1>8. CASE k = 1
    <2>1. c[k].do = "read json" /\ c[k].of = "input"
      BY <1>1, <1>8 DEF EvaluateProgram
    <2>2. process.batch = file[input].batch /\ file[input].state \in {"whole", "mixed"} /\ file' = file
      BY <1>2, <2>1 DEF Effect, Reading
    <2>3. process.batch = b
      BY <1>4, <2>2 DEF About
    <2>4. EvaluatePhase(file', workspace', use, 1 + 1, process.batch, b, d)
      BY <1>4, <1>6, <2>2, <2>3 DEF EvaluatePhase, SameRounds
    <2>5. QED
      BY <1>6, <1>8, <2>4
  <1>9. CASE k = 2
    <2>1. c[k].do = "create"
      BY <1>1, <1>9 DEF EvaluateProgram
    <2>2. process.batch = b
      BY <1>2, <1>4, <1>9, <2>1 DEF Effect, Reading
    <2>3. About(file', input, b)
      BY <1>2, <1>4, <1>7, <2>1 DEF FileStep, About
    <2>4. EvaluatePhase(file', workspace', use, 2 + 1, process.batch, b, d)
      BY <1>4, <1>6, <2>2, <2>3 DEF EvaluatePhase, SameRounds
    <2>5. QED
      BY <1>6, <1>9, <2>4
  <1>10. CASE k = 3
    <2>1. c[k].do = "close" /\ c[k].of = "output"
      BY <1>1, <1>10 DEF EvaluateProgram
    <2>2. process.batch = b /\ shell[p].batch = b /\ file'[output].batch = b
      BY <1>2, <1>4, <1>10, <2>1 DEF Effect, Reading
    <2>3. About(file', input, b) /\ About(file', output, b)
      BY <1>2, <1>4, <1>7, <2>1, <2>2 DEF FileStep, About
    <2>4. EvaluatePhase(file', workspace', use, 3 + 1, process.batch, b, d)
      BY <1>4, <1>6, <2>2, <2>3 DEF EvaluatePhase, SameRounds
    <2>5. QED
      BY <1>6, <1>10, <2>4
  <1>11. QED
    BY <1>3, <1>8, <1>9, <1>10

LEMMA CommitStep ==
  ASSUME CommandInvariant, NEW p \in Shells, Busy(p), shell[p].missing = {}, NEW process, NEW m, Effect(p, process, m),
         Use(p).command = "study-commit", NEW b \in Nat, NEW d \in Nat,
         CommitPhase(file, workspace, Use(p), shell[p].step, shell[p].batch, b, d)
  PROVE  /\ process.missing = {} /\ m = shell[p].step
         /\ CommitPhase(file', workspace', Use(p), shell[p].step + 1, process.batch, b, d)
  <1> DEFINE k == shell[p].step
             c == Program(p)
             use == Use(p)
             evaluations == use.bind["evaluations"]
  <1>1. CommitProgram(c)
    BY CommitSteps DEF Program
  <1>2. /\ k \in DOMAIN c /\ Now(p) = c[k] /\ Of(p) = use.bind[c[k].of]
        /\ c[k].do # "options" => process.missing = {}
    BY StepOfRound
  <1>3. k \in 1..5
    BY <1>1, <1>2 DEF CommitProgram
  <1>4. /\ b = d + 1 /\ workspace.issued = b /\ workspace.committed \in {1..d, 1..b} /\ About(file, evaluations, b)
        /\ k >= 3 => shell[p].batch = b
        /\ k >= 5 => workspace.committed = 1..b
    BY DEF CommitPhase
  <1>5. c[k].do \in {"options", "read json", "open", "commit", "print"}
    <2>1. CASE k = 1
      BY <1>1, <2>1 DEF CommitProgram
    <2>2. CASE k = 2
      BY <1>1, <2>2 DEF CommitProgram
    <2>3. CASE k = 3
      BY <1>1, <2>3 DEF CommitProgram
    <2>4. CASE k = 4
      BY <1>1, <2>4 DEF CommitProgram
    <2>5. CASE k = 5
      BY <1>1, <2>5 DEF CommitProgram
    <2>6. k = 1 \/ k = 2 \/ k = 3 \/ k = 4 \/ k = 5
      BY <1>3
    <2>7. QED
      BY <2>1, <2>2, <2>3, <2>4, <2>5, <2>6, Zenon
  <1>6. m = k /\ file' = file
    BY <1>2, <1>5 DEF Effect
  <1>7. CASE k = 1
    <2>1. c[k].do = "options" /\ c[k].of = {}
      BY <1>1, <1>7 DEF CommitProgram
    <2>2. process.missing = {} /\ SameRounds
      <3>1. PICK given : process.missing = {} \ given
        BY <1>2, <2>1 DEF Effect
      <3>2. SameRounds
        BY <1>2, <2>1 DEF Effect
      <3>3. QED
        BY <3>1, <3>2
    <2>3. CommitPhase(file', workspace', use, 1 + 1, process.batch, b, d)
      BY <1>4, <1>6, <2>2 DEF CommitPhase, SameRounds
    <2>4. QED
      BY <1>6, <1>7, <2>2, <2>3
  <1>8. CASE k = 2
    <2>1. c[k].do = "read json" /\ c[k].of = "evaluations"
      BY <1>1, <1>8 DEF CommitProgram
    <2>2. process.batch = file[evaluations].batch /\ file[evaluations].state \in {"whole", "mixed"} /\ SameRounds
      BY <1>2, <2>1 DEF Effect, Reading
    <2>3. process.batch = b
      BY <1>4, <2>2 DEF About
    <2>4. CommitPhase(file', workspace', use, 2 + 1, process.batch, b, d)
      BY <1>4, <1>6, <2>2, <2>3 DEF CommitPhase, SameRounds
    <2>5. QED
      BY <1>2, <1>6, <1>8, <2>1, <2>4
  <1>9. CASE k = 3 \/ k = 5
    <2>1. c[k].do \in {"open", "print"}
      BY <1>1, <1>9 DEF CommitProgram
    <2>2. process.batch = shell[p].batch /\ SameRounds
      BY <1>2, <2>1 DEF Effect, Reading
    <2>3. CommitPhase(file', workspace', use, k + 1, process.batch, b, d)
      <3>1. CASE k = 3
        <4>1. CommitPhase(file', workspace', use, 3 + 1, process.batch, b, d)
          BY <1>4, <1>6, <2>2, <3>1 DEF CommitPhase, SameRounds
        <4>2. QED
          BY <3>1, <4>1
      <3>2. CASE k = 5
        <4>1. CommitPhase(file', workspace', use, 5 + 1, process.batch, b, d)
          BY <1>4, <1>6, <2>2, <3>2 DEF CommitPhase, SameRounds
        <4>2. QED
          BY <3>2, <4>1
      <3>3. QED
        BY <1>9, <3>1, <3>2
    <2>4. QED
      BY <1>2, <1>6, <2>1, <2>3
  <1>10. CASE k = 4
    <2>1. c[k].do = "commit"
      BY <1>1, <1>10 DEF CommitProgram
    <2>2. process.batch = shell[p].batch /\ TakesBatch(p)
      BY <1>2, <2>1 DEF Effect, Reading
    <2>3. shell[p].batch = b
      BY <1>4, <1>10
    <2>4. workspace'.issued = b /\ workspace'.committed = 1..b
      <3>1. (1..d) \cup {d + 1} = 1..(d + 1) /\ (1..(d + 1)) \cup {d + 1} = 1..(d + 1)
        OBVIOUS
      <3>2. QED
        BY <1>4, <2>2, <2>3, <3>1 DEF TakesBatch
    <2>5. CommitPhase(file', workspace', use, 4 + 1, process.batch, b, d)
      BY <1>4, <1>6, <2>2, <2>3, <2>4 DEF CommitPhase
    <2>6. QED
      BY <1>2, <1>6, <1>10, <2>1, <2>5
  <1>11. QED
    BY <1>3, <1>7, <1>8, <1>9, <1>10

-----------------------------------------------------------------------------
(* The rounds of a study, whoever takes a step.                              *)

SessionsGiven == \E sessions \in CommandSessions : \A p \in Shells : shell[p].session = sessions[p]
LastGiven(p) == shell[p].code = 0 => shell[p].last \in DOMAIN shell[p].session
InPhase(p) ==
  LET uses == shell[p].session
      n == shell[p].at
  IN  /\ shell[p].missing = {}
      /\ Phase(file, workspace, uses[n], shell[p].step, shell[p].batch,
               Count(uses, "study-batch", n - 1), Count(uses, "study-commit", n - 1))
AllDone(p) ==
  LET uses == shell[p].session
      n == shell[p].last
  IN  workspace.issued = Count(uses, "study-batch", n) /\ workspace.committed = 1..Count(uses, "study-commit", n)
StudyShell(p) ==
  Studies(shell[p].session) => /\ shell[p].at \in DOMAIN shell[p].session => InPhase(p)
                               /\ shell[p].code = 0 => AllDone(p)
StudyInvariant ==
  CommandInvariant /\ SessionsGiven /\ BatchesKnown /\ \A p \in Shells : LastGiven(p) /\ StudyShell(p)

LEMMA RoundsGiven ==
  ASSUME StudySessions, SessionsGiven, NEW p \in Shells, Studies(shell[p].session)
  PROVE  /\ InRounds(shell[p].session)
         /\ \A q \in Shells \ {p} : \A l \in DOMAIN shell[q].session :
               /\ ~HandlesBatches(shell[q].session[l])
               /\ \A k \in DOMAIN shell[p].session :
                     ~WritesFile(shell[q].session[l], shell[p].session[k].bind["output"])
  <1>1. PICK sessions \in CommandSessions : \A q \in Shells : shell[q].session = sessions[q]
    BY DEF SessionsGiven
  <1>2. Studies(sessions[p])
    BY <1>1
  <1>3. /\ InRounds(sessions[p])
        /\ \A q \in Shells \ {p} : \A l \in DOMAIN sessions[q] :
              /\ ~HandlesBatches(sessions[q][l])
              /\ \A k \in DOMAIN sessions[p] : ~WritesFile(sessions[q][l], sessions[p][k].bind["output"])
    BY <1>1, <1>2 DEF StudySessions
  <1>4. QED
    BY <1>1, <1>3

\* A step of each command is a step of its phase.
LEMMA PhaseStep ==
  ASSUME CommandInvariant, NEW p \in Shells, Busy(p), shell[p].missing = {}, NEW process, NEW m, Effect(p, process, m),
         NEW b \in Nat, NEW d \in Nat, Use(p).command \in {"study-batch", "evaluate", "study-commit"},
         Use(p).command = "study-batch" => "output" \in Use(p).given,
         Phase(file, workspace, Use(p), shell[p].step, shell[p].batch, b, d)
  PROVE  /\ process.missing = {} /\ m = shell[p].step /\ DOMAIN Program(p) = 1..Steps(Use(p).command)
         /\ Phase(file', workspace', Use(p), shell[p].step + 1, process.batch, b, d)
  <1>1. CASE Use(p).command = "study-batch"
    <2>1. BatchPhase(file, workspace, Use(p), shell[p].step, shell[p].batch, b, d)
      BY <1>1 DEF Phase
    <2>2. /\ process.missing = {} /\ m = shell[p].step
          /\ BatchPhase(file', workspace', Use(p), shell[p].step + 1, process.batch, b, d)
      BY <1>1, <2>1, BatchStep
    <2>3. DOMAIN Program(p) = 1..6
      BY <1>1, BatchSteps DEF BatchProgram, Program
    <2>4. QED
      BY <1>1, <2>2, <2>3 DEF Phase, Steps
  <1>2. CASE Use(p).command = "evaluate"
    <2>1. EvaluatePhase(file, workspace, Use(p), shell[p].step, shell[p].batch, b, d)
      BY <1>2 DEF Phase
    <2>2. /\ process.missing = {} /\ m = shell[p].step
          /\ EvaluatePhase(file', workspace', Use(p), shell[p].step + 1, process.batch, b, d)
      BY <1>2, <2>1, EvaluateStep
    <2>3. DOMAIN Program(p) = 1..3
      BY <1>2, EvaluateSteps DEF EvaluateProgram, Program
    <2>4. QED
      BY <1>2, <2>2, <2>3 DEF Phase, Steps
  <1>3. CASE Use(p).command = "study-commit"
    <2>1. CommitPhase(file, workspace, Use(p), shell[p].step, shell[p].batch, b, d)
      BY <1>3 DEF Phase
    <2>2. /\ process.missing = {} /\ m = shell[p].step
          /\ CommitPhase(file', workspace', Use(p), shell[p].step + 1, process.batch, b, d)
      BY <1>3, <2>1, CommitStep
    <2>3. DOMAIN Program(p) = 1..5
      BY <1>3, CommitSteps DEF CommitProgram, Program
    <2>4. QED
      BY <1>3, <2>2, <2>3 DEF Phase, Steps
  <1>4. QED
    BY <1>1, <1>2, <1>3

LEMMA CountIsNatural ==
  ASSUME NEW uses, NEW command, NEW n \in Nat
  PROVE  Count(uses, command, n) \in Nat
  <1>1. Counted(uses, command, n, n + 1)
    BY Counting
  <1>2. QED
    BY <1>1 DEF Counted

\* Its process goes on, or comes to its end and leaves what the next one begins with.
LEMMA GoesOn ==
  ASSUME CommandInvariant, NEW p \in Shells, Busy(p), StepFrame(p), InRounds(shell[p].session), InPhase(p),
         NEW process, NEW m, Effect(p, process, m)
  PROVE  /\ shell'[p].at \in DOMAIN shell'[p].session => InPhase(p)'
         /\ shell'[p].code = 0 => AllDone(p)'
  <1> DEFINE uses == shell[p].session
             n == shell[p].at
             use == uses[n]
             k == shell[p].step
             b == Count(uses, "study-batch", n - 1)
             d == Count(uses, "study-commit", n - 1)
  <1>1. /\ uses \in Seq(Uses) /\ n \in Nat \ {0} /\ n <= Len(uses) /\ n \in DOMAIN uses /\ n - 1 \in Nat /\ k \in Nat
    <2>1. shell[p] \in ShellStates /\ n <= Len(uses)
      BY Underway
    <2>2. uses \in Seq(Uses) /\ n \in Nat \ {0} /\ k \in Nat
      BY <2>1 DEF ShellStates
    <2>3. QED
      BY <2>1, <2>2
  <1>2. Use(p) = use /\ shell[p].missing = {} /\ Phase(file, workspace, use, k, shell[p].batch, b, d)
    BY DEF InPhase, Use
  <1>3. b \in Nat /\ d \in Nat
    BY <1>1, CountIsNatural
  <1>4. use.command \in {"study-batch", "evaluate", "study-commit"} /\ (use.command = "study-batch" => "output" \in use.given)
    BY <1>1, RoundFiles
  <1>5. shell'[p].session = uses
    BY DEF StepFrame
  <1> HIDE DEF uses, n, use, k, b, d
  <1>6. /\ process.missing = {} /\ m = k /\ DOMAIN Program(p) = 1..Steps(use.command)
        /\ Phase(file', workspace', use, k + 1, process.batch, b, d)
    BY <1>2, <1>3, <1>4, PhaseStep DEF k
  <1>7. Steps(use.command) \in Nat
    BY DEF Steps
  <1>8. /\ k \in 1..Steps(use.command) /\ (IF k < Steps(use.command) THEN Continued(p, k) ELSE Finished(p))
        /\ shell'[p].batch = process.batch
    BY <1>2, <1>6, <1>7, Continuing DEF k
  <1>9. CASE k < Steps(use.command)
    <2>1. /\ shell'[p].step = k + 1 /\ shell'[p].code = -1 /\ shell'[p].at = n /\ shell'[p].missing = {}
      BY <1>8, <1>9 DEF Continued, n
    <2>2. InPhase(p)'
      BY <1>5, <1>6, <1>8, <2>1 DEF InPhase, use, b, d
    <2>3. QED
      BY <2>1, <2>2
  <1>10. CASE k = Steps(use.command)
    <2>1. ~(k < Steps(use.command))
      BY <1>7, <1>10
    <2>2. /\ shell'[p].step = 0 /\ shell'[p].code = 0 /\ shell'[p].last = n /\ shell'[p].at = n + 1
          /\ shell'[p].missing = {}
      BY <1>8, <2>1 DEF Finished, n
    <2>3. Phase(file', workspace', uses[n], Steps(uses[n].command) + 1, process.batch,
                Count(uses, "study-batch", n - 1), Count(uses, "study-commit", n - 1))
      BY <1>6, <1>10 DEF use, b, d
    <2>4. InRounds(uses)
      BY DEF uses
    <2>5. /\ workspace'.issued = Count(uses, "study-batch", n) /\ workspace'.committed = 1..Count(uses, "study-commit", n)
          /\ n + 1 \in DOMAIN uses => Phase(file', workspace', uses[n + 1], 0, shell'[p].batch,
                                            Count(uses, "study-batch", n), Count(uses, "study-commit", n))
      BY <1>1, <2>3, <2>4, RoundsGoOn
    <2>6. AllDone(p)'
      BY <1>5, <2>2, <2>5 DEF AllDone
    <2>7. shell'[p].at - 1 = n
      BY <1>1, <2>2
    <2>8. shell'[p].at \in DOMAIN shell'[p].session => InPhase(p)'
      BY <1>5, <2>2, <2>5, <2>7 DEF InPhase
    <2>9. QED
      BY <2>6, <2>8
  <1>11. QED
    BY <1>7, <1>8, <1>9, <1>10

\* It begins again, or fails.
LEMMA BeginsAgain ==
  ASSUME CommandInvariant, NEW p \in Shells, StepFrame(p), Start(p) \/ Fail(p) \/ Kill(p),
         shell[p].at \in DOMAIN shell[p].session => InPhase(p)
  PROVE  /\ shell'[p].at \in DOMAIN shell'[p].session => InPhase(p)'
         /\ shell'[p].code # 0
  <1>1. /\ CommandTypeOK /\ shell \in [Shells -> ShellStates] /\ shell[p] \in ShellStates /\ Standing(p)
        /\ shell[p].session \in Seq(Uses) /\ shell[p].at \in Nat \ {0} /\ shell[p].step \in Nat
    BY DEF CommandInvariant, CommandTypeOK, ShellInvariant, ShellStates
  <1>2. file' = file /\ workspace' = workspace /\ shell'[p].session = shell[p].session
    BY DEF StepFrame, Start, Fail, Kill
  <1>3. shell'[p].step \in {0, 1} /\ shell'[p].missing = {} /\ shell'[p].code # 0
        /\ shell'[p].at \in {shell[p].at, Len(shell[p].session) + 1}
    <2>1. CASE Start(p)
      <3>1. shell[p].missing = {}
        BY <1>1, <2>1 DEF Start, Standing
      <3>2. /\ shell'[p].step = 1 /\ shell'[p].missing = shell[p].missing /\ shell'[p].code = -1
            /\ shell'[p].at = shell[p].at
        BY <1>1, <2>1 DEF Start, ShellStates
      <3>3. QED
        BY <3>1, <3>2
    <2>2. CASE Fail(p) \/ Kill(p)
      <3>1. Busy(p) /\ Now(p).code \in Codes
        <4>1. Busy(p)
          BY <2>2 DEF Fail, Kill
        <4>2. Now(p) \in CommandSteps
          BY <4>1, Underway
        <4>3. QED
          BY <4>1, <4>2 DEF CommandSteps
      <3>2. PICK code \in Codes \cup {KILLED} : \E failed : shell' = [shell EXCEPT ![p] = Ended(shell[p], code, failed)]
        BY <2>2, <3>1 DEF Fail, Kill
      <3>3. PICK failed : shell' = [shell EXCEPT ![p] = Ended(shell[p], code, failed)]
        BY <3>2
      <3>4. shell'[p] = Ended(shell[p], code, failed) /\ code # 0
        BY <1>1, <3>2, <3>3 DEF Codes, KILLED
      <3>5. After(shell[p], code) \in {shell[p].at, Len(shell[p].session) + 1}
        BY <3>4 DEF After
      <3>6. /\ shell'[p].step = 0 /\ shell'[p].missing = {} /\ shell'[p].code = code
            /\ shell'[p].at = After(shell[p], code)
        BY <1>1, <3>4 DEF Ended, ShellStates
      <3>7. QED
        BY <3>4, <3>5, <3>6
    <2>3. QED
      BY <2>1, <2>2
  <1>4. ASSUME shell'[p].at \in DOMAIN shell'[p].session
        PROVE  InPhase(p)'
    <2> DEFINE uses == shell[p].session
               n == shell[p].at
               b == Count(uses, "study-batch", n - 1)
               d == Count(uses, "study-commit", n - 1)
    <2>1. shell'[p].at = n
      BY <1>1, <1>2, <1>3, <1>4
    <2>2. n \in DOMAIN uses
      BY <1>2, <1>4, <2>1
    <2>3. Phase(file, workspace, uses[n], shell[p].step, shell[p].batch, b, d)
      BY <2>2 DEF InPhase
    <2> HIDE DEF uses, n, b, d
    <2>4. \A batch2 : \A k2 \in {0, 1} : Phase(file, workspace, uses[n], k2, batch2, b, d)
      BY <1>1, <2>3, PhaseAgain
    <2>5. QED
      BY <1>2, <1>3, <2>1, <2>4 DEF InPhase, uses, n, b, d
  <1>5. QED
    BY <1>3, <1>4

LEMMA OwnRound ==
  ASSUME StudySessions, CommandInvariant, SessionsGiven, NEW p \in Shells, ShellStep(p), StudyShell(p)
  PROVE  StudyShell(p)'
  <1>1. StepFrame(p) /\ shell'[p].session = shell[p].session
    BY Frames DEF StepFrame
  <1>2. SUFFICES ASSUME Studies(shell[p].session)
                 PROVE  /\ shell'[p].at \in DOMAIN shell'[p].session => InPhase(p)'
                        /\ shell'[p].code = 0 => AllDone(p)'
    BY <1>1 DEF StudyShell
  <1>3. shell[p].at \in DOMAIN shell[p].session => InPhase(p)
    BY <1>2 DEF StudyShell
  <1>4. InRounds(shell[p].session)
    BY <1>2, RoundsGiven
  <1>5. CASE Start(p) \/ Fail(p) \/ Kill(p)
    BY <1>1, <1>3, <1>5, BeginsAgain
  <1>6. ASSUME Busy(p), NEW process, NEW m, Effect(p, process, m)
        PROVE  /\ shell'[p].at \in DOMAIN shell'[p].session => InPhase(p)'
               /\ shell'[p].code = 0 => AllDone(p)'
    <2>1. shell[p] \in ShellStates /\ shell[p].at <= Len(shell[p].session)
      BY <1>6, Underway
    <2>2. shell[p].session \in Seq(Uses) /\ shell[p].at \in Nat \ {0}
      BY <2>1 DEF ShellStates
    <2>3. shell[p].at \in DOMAIN shell[p].session
      BY <2>1, <2>2
    <2>4. QED
      BY <1>1, <1>3, <1>4, <1>6, <2>3, GoesOn
  <1>7. QED
    BY <1>5, <1>6, Effects

\* A shell that hands out no batches and commits none leaves the rounds as they are.
LEMMA QuietRounds ==
  ASSUME CommandInvariant, NEW q \in Shells, ShellStep(q),
         \A l \in DOMAIN shell[q].session : ~HandlesBatches(shell[q].session[l])
  PROVE  SameRounds
  <1>1. CASE Start(q) \/ Fail(q) \/ Kill(q)
    BY <1>1 DEF Start, Fail, Kill, SameRounds
  <1>2. ASSUME Busy(q), NEW process, NEW m, Effect(q, process, m)
        PROVE  SameRounds
    <2>1. /\ shell[q] \in ShellStates /\ shell[q].at <= Len(shell[q].session)
          /\ shell[q].step \in DOMAIN Program(q) /\ Now(q) = Program(q)[shell[q].step]
      BY <1>2, Underway
    <2>2. shell[q].session \in Seq(Uses) /\ shell[q].at \in Nat \ {0}
      BY <2>1 DEF ShellStates
    <2>3. shell[q].at \in DOMAIN shell[q].session
      BY <2>1, <2>2
    <2>4. ~HandlesBatches(Use(q))
      BY <2>3 DEF Use
    <2>5. Now(q).do \notin {"begin", "commit"}
      BY <2>1, <2>4 DEF HandlesBatches, Program
    <2>6. QED
      BY <1>2, <2>5 DEF Effect
  <1>3. QED
    BY <1>1, <1>2, Effects

LEMMA OthersRound ==
  ASSUME StudySessions, CommandInvariant, SessionsGiven, NEW p \in Shells, NEW q \in Shells, p # q, ShellStep(q), StudyShell(p)
  PROVE  StudyShell(p)'
  <1> DEFINE uses == shell[p].session
             n == shell[p].at
  <1>1. StepFrame(q)
    BY Frames
  <1>2. shell'[p] = shell[p]
    BY <1>1 DEF StepFrame
  <1>3. SUFFICES ASSUME Studies(uses)
                 PROVE  /\ n \in DOMAIN uses => InPhase(p)'
                        /\ shell[p].code = 0 => AllDone(p)'
    BY <1>2 DEF StudyShell
  <1>4. /\ InRounds(uses)
        /\ \A l \in DOMAIN shell[q].session :
              /\ ~HandlesBatches(shell[q].session[l])
              /\ \A k \in DOMAIN uses : ~WritesFile(shell[q].session[l], uses[k].bind["output"])
    BY <1>3, RoundsGiven
  <1>5. SameRounds
    BY <1>4, QuietRounds
  <1>6. /\ uses \in Seq(Uses) /\ \A l \in DOMAIN uses : uses[l].bind["output"] \in Files
    <2>1. shell[p] \in ShellStates
      BY DEF CommandInvariant, CommandTypeOK
    <2>2. uses \in Seq(Uses)
      BY <2>1 DEF ShellStates
    <2>3. \A l \in DOMAIN uses : uses[l] \in Uses
      BY <2>2
    <2>4. "output" \in Roles
      BY RoleNames
    <2>5. QED
      BY <2>2, <2>3, <2>4 DEF Uses
  <1>7. ASSUME NEW k \in DOMAIN uses
        PROVE  file'[uses[k].bind["output"]] = file[uses[k].bind["output"]]
    <2> DEFINE f == uses[k].bind["output"]
    <2>1. SUFFICES ASSUME Busy(q), \E h \in DOMAIN Program(q) : Program(q)[h].do = "create" /\ Target(q, h) = f
                   PROVE  FALSE
      BY <1>1, <1>6 DEF StepFrame
    <2>2. WritesFile(Use(q), f)
      BY <2>1 DEF WritesFile, Program, Target
    <2>3. shell[q] \in ShellStates /\ shell[q].at <= Len(shell[q].session)
      BY <2>1, Underway
    <2>4. shell[q].session \in Seq(Uses) /\ shell[q].at \in Nat \ {0}
      BY <2>3 DEF ShellStates
    <2>5. shell[q].at \in DOMAIN shell[q].session
      BY <2>3, <2>4
    <2>6. QED
      BY <1>4, <2>2, <2>5 DEF Use
  <1>8. ASSUME n \in DOMAIN uses
        PROVE  InPhase(p)'
    <2> DEFINE b == Count(uses, "study-batch", n - 1)
               d == Count(uses, "study-commit", n - 1)
    <2>1. Phase(file, workspace, uses[n], shell[p].step, shell[p].batch, b, d) /\ shell[p].missing = {}
      BY <1>3, <1>8 DEF StudyShell, InPhase
    <2> HIDE DEF uses, n, b, d
    <2>2. workspace'.issued = workspace.issued /\ workspace'.committed = workspace.committed
      BY <1>5 DEF SameRounds
    <2> DEFINE new == file'
               study2 == workspace'
    <2> HIDE DEF new, study2
    <2>3. Phase(new, study2, uses[n], shell[p].step, shell[p].batch, b, d)
      <3>1. uses \in Seq(Uses) /\ InRounds(uses) /\ n \in DOMAIN uses
        BY <1>4, <1>6, <1>8
      <3>2. \A l \in DOMAIN uses : new[uses[l].bind["output"]] = file[uses[l].bind["output"]]
        BY <1>7 DEF new
      <3>3. study2.issued = workspace.issued /\ study2.committed = workspace.committed
        BY <2>2 DEF study2
      <3>4. QED
        BY ONLY <2>1, <3>1, <3>2, <3>3, PhaseElsewhere
    <2>4. QED
      BY <1>2, <2>1, <2>3 DEF InPhase, uses, n, b, d, new, study2
  <1>9. ASSUME shell[p].code = 0
        PROVE  AllDone(p)'
    <2>1. AllDone(p)
      BY <1>3, <1>9 DEF StudyShell
    <2>2. QED
      BY <1>2, <1>5, <2>1 DEF AllDone, SameRounds
  <1>10. QED
    BY <1>8, <1>9

LEMMA StudyInitially ==
  ASSUME StudySessions, CommandInit
  PROVE  StudyInvariant
  <1>1. CommandInvariant
    BY CommandInitially
  <1>2. PICK sessions \in CommandSessions :
          shell = [p \in Shells |->
                     [session |-> sessions[p], at |-> 1, step |-> 0, missing |-> {}, code |-> -1, failed |-> "",
                      last |-> 0, faults |-> 0, touched |-> {}, wrote |-> {}, seen |-> {}, batch |-> 0]]
    BY DEF CommandInit
  <1>3. ASSUME NEW p \in Shells
        PROVE  /\ shell[p].session = sessions[p] /\ shell[p].at = 1 /\ shell[p].step = 0 /\ shell[p].missing = {}
               /\ shell[p].code = -1 /\ shell[p].batch = 0
    BY <1>2
  <1>4. SessionsGiven
    BY <1>3 DEF SessionsGiven
  <1>5. workspace.issued = 0 /\ workspace.committed = {}
    <2>1. PICK exists \in BOOLEAN : workspace = [exists |-> exists, issued |-> 0, committed |-> {}]
      BY DEF CommandInit
    <2>2. QED
      BY <2>1
  <1>6. BatchesKnown
    <2>1. \A f \in Files : file[f].batch = Initially[f].batch
      BY DEF CommandInit
    <2>2. \A f \in Files : Initially[f].batch <= 0
      BY DEF StudySessions
    <2>3. QED
      BY <1>3, <1>5, <2>1, <2>2 DEF BatchesKnown
  <1>7. ASSUME NEW p \in Shells PROVE LastGiven(p)
    BY <1>3 DEF LastGiven
  <1>8. ASSUME NEW p \in Shells PROVE StudyShell(p)
    <2> DEFINE uses == shell[p].session
    <2>1. shell[p].code # 0
      BY <1>3
    <2>2. SUFFICES ASSUME Studies(uses), 1 \in DOMAIN uses
                   PROVE  InPhase(p)
      BY <1>3, <2>1 DEF StudyShell
    <2>3. InRounds(uses)
      BY <1>4, <2>2, RoundsGiven
    <2>4. uses[1].command = "study-batch"
      BY <2>2, <2>3 DEF InRounds
    <2>5. Count(uses, "study-batch", 0) = 0 /\ Count(uses, "study-commit", 0) = 0
      BY CountingNone
    <2> HIDE DEF uses
    <2>6. BatchPhase(file, workspace, uses[1], 0, 0, 0, 0)
      BY <1>5 DEF BatchPhase
    <2>7. Phase(file, workspace, uses[1], 0, 0, 0, 0)
      BY <2>4, <2>6 DEF Phase
    <2>8. 1 - 1 = 0
      OBVIOUS
    <2>9. QED
      BY <1>3, <2>5, <2>7, <2>8 DEF InPhase, uses
  <1>9. QED
    BY <1>1, <1>4, <1>6, <1>7, <1>8 DEF StudyInvariant

LEMMA StudyStays ==
  ASSUME StudySessions, StudyInvariant, [CommandNext]_commandVars
  PROVE  StudyInvariant'
  <1>1. CommandInvariant /\ CommandInvariant' /\ SessionsGiven /\ BatchesKnown /\ \A p \in Shells : LastGiven(p) /\ StudyShell(p)
    BY CommandStays DEF StudyInvariant
  <1>2. ASSUME NEW q \in Shells, ShellStep(q)
        PROVE  StudyInvariant'
    <2>1. StepFrame(q)
      BY <1>1, <1>2, Frames
    <2>2. \A p \in Shells : shell'[p].session = shell[p].session
      BY <2>1 DEF StepFrame
    <2>3. SessionsGiven'
      BY <1>1, <2>2 DEF SessionsGiven
    <2>4. BatchesKnown'
      BY <1>1, <1>2, KnownStays
    <2>5. ASSUME NEW p \in Shells PROVE LastGiven(p)'
      <3>1. CASE p = q
        <4>1. shell'[q].code = 0 => Busy(q) /\ shell'[q].last = shell[q].at
          BY <2>1 DEF StepFrame
        <4>2. ASSUME Busy(q) PROVE shell[q].at \in DOMAIN shell[q].session
          <5>1. shell[q] \in ShellStates /\ shell[q].at <= Len(shell[q].session)
            BY <1>1, <4>2, Underway
          <5>2. shell[q].session \in Seq(Uses) /\ shell[q].at \in Nat \ {0}
            BY <5>1 DEF ShellStates
          <5>3. QED
            BY <5>1, <5>2
        <4>3. QED
          BY <2>2, <3>1, <4>1, <4>2 DEF LastGiven
      <3>2. CASE p # q
        <4>1. shell'[p] = shell[p]
          BY <2>1, <3>2 DEF StepFrame
        <4>2. QED
          BY <1>1, <4>1 DEF LastGiven
      <3>3. QED
        BY <3>1, <3>2
    <2>6. ASSUME NEW p \in Shells PROVE StudyShell(p)'
      BY <1>1, <1>2, OwnRound, OthersRound
    <2>7. QED
      BY <1>1, <2>3, <2>4, <2>5, <2>6 DEF StudyInvariant
  <1>3. CASE UNCHANGED commandVars
    <2>1. file' = file /\ shell' = shell /\ workspace' = workspace
      BY <1>3 DEF commandVars
    <2>2. SessionsGiven' /\ BatchesKnown'
      BY <1>1, <2>1 DEF SessionsGiven, BatchesKnown
    <2>3. \A p \in Shells : LastGiven(p)' /\ StudyShell(p)'
      BY <1>1, <2>1 DEF LastGiven, StudyShell, InPhase, AllDone
    <2>4. QED
      BY <1>1, <2>2, <2>3 DEF StudyInvariant
  <1>4. (\E q \in Shells : ShellStep(q)) \/ UNCHANGED commandVars
    BY DEF CommandNext, ShellStep, SessionsEnded
  <1>5. QED
    BY <1>2, <1>3, <1>4

\* A session over without giving up has handed out a batch for each round that was
\* begun, and committed one for each that was ended.
LEMMA RoundsAreCounted ==
  ASSUME StudyInvariant
  PROVE  RepeatedRoundsAreOne
  <1> SUFFICES ASSUME NEW p \in Shells
               PROVE  /\ \A f \in Files : file[f].state = "whole" => file[f].batch <= workspace.issued
                      /\ Rounds(p, "study-commit") > 0 /\ shell[p].code = 0 =>
                            Cardinality(workspace.committed) = Rounds(p, "study-commit")
                      /\ Rounds(p, "study-batch") > 0 /\ shell[p].code = 0 => workspace.issued = Rounds(p, "study-batch")
    BY DEF RepeatedRoundsAreOne
  <1> DEFINE uses == shell[p].session
             n == shell[p].last
  <1>1. \A f \in Files : file[f].state = "whole" => file[f].batch <= workspace.issued
    BY DEF StudyInvariant, BatchesKnown
  <1>2. \A command : Rounds(p, command) = Count(uses, command, n)
    BY DEF Rounds, Count
  <1>3. ASSUME shell[p].code = 0, NEW command \in {"study-batch", "study-commit"}, Rounds(p, command) > 0
        PROVE  /\ workspace.issued = Rounds(p, "study-batch")
               /\ Cardinality(workspace.committed) = Rounds(p, "study-commit")
    <2>1. /\ n \in DOMAIN uses /\ n \in Nat
      <3>1. shell[p] \in ShellStates /\ LastGiven(p)
        BY DEF StudyInvariant, CommandInvariant, CommandTypeOK
      <3>2. QED
        BY <1>3, <3>1 DEF LastGiven, ShellStates
    <2>2. uses \in Seq(Uses)
      <3>1. shell[p] \in ShellStates
        BY DEF StudyInvariant, CommandInvariant, CommandTypeOK
      <3>2. QED
        BY <3>1 DEF ShellStates
    <2>3. PICK k \in 1..n : uses[k].command = command
      <3>1. SUFFICES ASSUME \A k \in 1..n : uses[k].command # command
                     PROVE  FALSE
        OBVIOUS
      <3>2. {k \in 1..n : uses[k].command = command} = {}
        BY <3>1
      <3>3. Count(uses, command, n) = 0
        BY <3>2, FS_EmptySet DEF Count
      <3>4. QED
        BY <1>2, <1>3, <3>3
    <2>4. k \in DOMAIN uses
      BY <2>1, <2>2, <2>3
    <2>5. Studies(uses)
      BY <2>3, <2>4 DEF Studies
    <2>6. AllDone(p)
      BY <1>3, <2>5 DEF StudyInvariant, StudyShell
    <2>7. Count(uses, "study-commit", n) \in Nat
      BY <2>1, CountIsNatural
    <2>8. Cardinality(1..Count(uses, "study-commit", n)) = Count(uses, "study-commit", n)
      BY <2>7, FS_Interval
    <2>9. QED
      BY <1>2, <2>6, <2>8 DEF AllDone
  <1>4. QED
    BY <1>1, <1>3

\* However often the commands of a study fail, are killed and are repeated, a round makes
\* one batch: the one that is active is handed out again, a file is about it before
\* its rows are committed, and to commit it again changes nothing.
THEOREM RoundsAreOne ==
  ASSUME StudySessions
  PROVE  CommandSpec => []RepeatedRoundsAreOne
  <1>1. CommandInit => StudyInvariant
    BY StudyInitially
  <1>2. StudyInvariant /\ [CommandNext]_commandVars => StudyInvariant'
    BY StudyStays
  <1>3. StudyInvariant => RepeatedRoundsAreOne
    BY RoundsAreCounted
  <1>4. QED
    BY <1>1, <1>2, <1>3, PTL DEF CommandSpec

=============================================================================
