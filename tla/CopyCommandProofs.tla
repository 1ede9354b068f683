-------------------------- MODULE CopyCommandProofs --------------------------
(***************************************************************************)
(* What is proved of CopyCommand, for all sources, destinations, command    *)
(* lines, runs and failures: its types, with the exclusive use of temporary *)
(* files; that mv loses nothing; and what a run leaves that succeeds.       *)
(***************************************************************************)
EXTENDS CopyCommand, TLAPS

-----------------------------------------------------------------------------
(* The inductive invariant.                                                *)

\* What nobody else wrote is one content, and at its source or gone.
SourcesInv ==
    \A s \in Sources \ touched :
        \E c \in heldEver[s] : heldEver[s] = {c} /\ source[s] \in {c, Nothing}

\* Tracker files, listings and tokens stand for contents of the source.
TokensInv ==
    \A k \in JobRecords :
        k.src \notin touched /\ tokens[k].hash # Nothing =>
            tokens[k].pinned \in heldEver[k.src]

ListedInv ==
    \A j \in Jobs :
        pc[j] \notin {"waiting", "done"} =>
            meta[j] # Nothing /\ (Src(j) \notin touched => meta[j] \in heldEver[Src(j)])

PinnedInv ==
    \A j \in Jobs :
        pc[j] = "rewriting" /\ Src(j) \notin touched => pinned[j] \in heldEver[Src(j)]

\* Only downloads have files.
DirectionInv == \A j \in Jobs : pc[j] \in {"unlinked", "file"} \cup Writing => opts.to = "file"

Has(j) == dest[Dst(j)] \in heldEver[Src(j)] \ {Nothing}

\* A job that has copied has the copy, and what is gone from its source has
\* been copied by a job that is through.
CopiedInv ==
    Safe => \A j \in Jobs :
                /\ pc[j] \in {"renamed", "copied", "moving"}
                /\ Src(j) \notin touched /\ Dst(j) \notin intruded
                => Has(j)

GoneInv ==
    Safe => \A s \in Sources :
                Alone(s) /\ source[s] = Nothing /\ heldEver[s] # {Nothing} =>
                    \E j \in JobsOf(s) : pc[j] \in {"waiting", "done"} /\ Has(j)

Inv == /\ TypeOK /\ OneWriter /\ SourcesInv /\ TokensInv /\ ListedInv /\ PinnedInv
       /\ DirectionInv /\ CopiedInv /\ GoneInv

-----------------------------------------------------------------------------
(* Types.                                                                  *)

\* The jobs of a command line.
LEMMA JobsTyped ==
    ASSUME TypeOK
    PROVE  /\ Jobs \subseteq Nat
           /\ \A j \in Jobs : /\ Src(j) \in Sources /\ Dst(j) \in Dests
                               /\ opts.jobs[j] \in JobRecords
<1>1. opts.jobs \in Seq(JobRecords)
  BY CommandsAssumption DEF TypeOK
<1>2. Jobs = 1..Len(opts.jobs)
  BY <1>1 DEF Jobs
<1>3. ASSUME NEW j \in Jobs
      PROVE  opts.jobs[j] \in JobRecords
  BY <1>1, <1>2
<1>. QED  BY <1>2, <1>3 DEF JobRecords, Src, Dst

\* A rewrite copies a number.
LEMMA RewrittenTyped ==
    ASSUME TypeOK, NEW j \in Jobs
    PROVE  Rewritten(j) \in Nat
BY JobsTyped DEF TypeOK, Rewritten

\* No step changes the command line.
LEMMA SameCommand == ASSUME [Next]_vars PROVE opts' = opts
BY DEF Next, Begin, Copy, Finish, Crash, Change, vars, List, ListNothing, Start,
       StartFails, RewriteBegins, RewriteEnds, RewriteUnanswered, RewriteRejected,
       GetDownloadFile, CreateTemp, Open, Rename, DownloadFails, Release, Record, Move,
       MoveFails, Fail, GoesOn, FileUnchanged

\* The initial states are typed.
LEMMA TypeInit == Init => TypeOK
<1>. SUFFICES ASSUME Init PROVE TypeOK
  OBVIOUS
<1>1. source \in [Sources -> Nat] /\ dest \in [Dests -> Nat]
  BY InitialsAssumption DEF Init
<1>2. tokens \in [JobRecords -> [hash : Nat, pinned : Nat]]
  BY DEF Init, NoToken, Nothing
<1>3. pc = [j \in Jobs |-> "done"]
  BY DEF Init
<1>4. meta \in [Jobs -> Nat] /\ pinned \in [Jobs -> Nat]
  BY DEF Init, Nothing
<1>5. heldEver \in [Sources -> SUBSET Nat]
  BY <1>1 DEF Init
<1>6. next \in Nat
  BY InitialsAssumption DEF Init
<1>. QED
  BY <1>1, <1>2, <1>3, <1>4, <1>5, <1>6 DEF Init, TypeOK

\* Every step of a job, of the command and of others keeps the types.
LEMMA TypeStep == TypeOK /\ [Next]_vars => TypeOK'
<1>. SUFFICES ASSUME TypeOK, [Next]_vars PROVE TypeOK'
  OBVIOUS
<1>. USE DEF TypeOK, Writing, Nothing
<1>a. opts' = opts /\ Jobs' = Jobs
  BY SameCommand DEF Jobs
<1>1. CASE Begin
  BY <1>1, <1>a DEF Begin, files
<1>2. ASSUME NEW j \in Jobs, Copy(j)
      PROVE  TypeOK'
  <2>a. Src(j) \in Sources /\ Dst(j) \in Dests /\ opts.jobs[j] \in JobRecords
    BY JobsTyped
  <2>b. Rewritten(j) \in Nat
    BY RewrittenTyped
  <2>1. CASE List(j)
    BY <2>1, <1>a, <2>a DEF List, Step, process, history, bounds, files
  <2>2. CASE ListNothing(j)
    BY <2>2, <1>a, <2>a DEF ListNothing, Fail, history, files
  <2>3. CASE Start(j)
    BY <2>3, <1>a, <2>a DEF Start, Step, Row, GoesOn, history
  <2>4. CASE StartFails(j)
    <3>1. Fail(j) /\ UNCHANGED <<files, openFiles>>
      BY <2>4 DEF StartFails
    <3>. QED
      BY <3>1, <1>a, <2>a DEF Fail, files, history
  <2>5. CASE RewriteBegins(j)
    <3>1. tokens' \in [JobRecords -> [hash : Nat, pinned : Nat]]
      BY <2>5, <2>a, <2>b DEF RewriteBegins
    <3>2. pinned' \in [Jobs -> Nat]
      BY <2>5, <2>b DEF RewriteBegins
    <3>3. pc' = [pc EXCEPT ![j] = "rewriting"]
      BY <2>5 DEF RewriteBegins, Step
    <3>. QED
      BY <2>5, <1>a, <3>1, <3>2, <3>3 DEF RewriteBegins, GoesOn, history
  <2>6. CASE RewriteEnds(j)
    <3>1. tokens' \in [JobRecords -> [hash : Nat, pinned : Nat]]
      BY <2>6, <2>a DEF RewriteEnds, NoToken
    <3>2. dest' \in [Dests -> Nat]
      BY <2>6, <2>b DEF RewriteEnds
    <3>3. pc' = [pc EXCEPT ![j] = "copied"]
      BY <2>6 DEF RewriteEnds, Step
    <3>. QED
      BY <2>6, <1>a, <3>1, <3>2, <3>3 DEF RewriteEnds, GoesOn, history
  <2>7. CASE RewriteUnanswered(j)
    BY <2>7, <1>a, <2>a, <2>b DEF RewriteUnanswered, GoesOn, history
  <2>8. CASE RewriteRejected(j)
    BY <2>8, <1>a, <2>a DEF RewriteRejected, Skip, Row, GoesOn, history
  <2>9. CASE GetDownloadFile(j) \/ CreateTemp(j)
    BY <2>9, <1>a, <2>a DEF GetDownloadFile, CreateTemp, Step, FileUnchanged, GoesOn, history
  <2>10. CASE Open(j)
    BY <2>10, <1>a, <2>a DEF Open, Step, FileUnchanged, GoesOn, history
  <2>11. CASE Rename(j)
    BY <2>11, <1>a, <2>a DEF Rename, Step, FileUnchanged, GoesOn, history
  <2>12. CASE DownloadFails(j)
    BY <2>12, <1>a, <2>a DEF DownloadFails, Fail, history
  <2>13. CASE Release(j)
    BY <2>13, <1>a, <2>a DEF Release, Step, FileUnchanged, GoesOn, history
  <2>14. CASE Record(j)
    BY <2>14, <1>a, <2>a DEF Record, Step, Row, GoesOn, history
  <2>15. CASE Move(j)
    BY <2>15, <1>a, <2>a DEF Move, Step, GoesOn, history
  <2>16. CASE MoveFails(j)
    BY <2>16, <1>a, <2>a DEF MoveFails, Fail, history
  <2>. QED
    BY <1>2, <2>1, <2>2, <2>3, <2>4, <2>5, <2>6, <2>7, <2>8, <2>9, <2>10, <2>11, <2>12, <2>13, <2>14, <2>15, <2>16 DEF Copy
<1>3. CASE Finish
  BY <1>3, <1>a DEF Finish, files, job, history
<1>4. CASE Crash
  BY <1>4, <1>a DEF Crash, files, history
<1>5. CASE Change
  BY <1>5, <1>a DEF Change, job, process
<1>6. CASE UNCHANGED vars
  BY <1>6, <1>a DEF vars, files, job, process, history
<1>. QED
  BY <1>1, <1>2, <1>3, <1>4, <1>5, <1>6 DEF Next

-----------------------------------------------------------------------------
(* The temporary files.                                                    *)

\* Nothing that depends on the command line alone changes.
LEMMA SameJobs ==
    ASSUME TypeOK, [Next]_vars
    PROVE  /\ opts' = opts /\ Jobs' = Jobs
           /\ \A j \in Jobs : Src(j)' = Src(j) /\ Dst(j)' = Dst(j)
           /\ OwnDests' = OwnDests /\ Safe' = Safe
           /\ \A s \in Sources : JobsOf(s)' = JobsOf(s)
BY SameCommand DEF Jobs, Src, Dst, OwnDests, Safe, JobsOf

\* Between Open and Release a job has the name to itself in open_files_map,
\* and only its own end takes it out.
LEMMA OneWriterStep == TypeOK /\ OneWriter /\ [Next]_vars => OneWriter'
<1>. SUFFICES ASSUME TypeOK, OneWriter, [Next]_vars PROVE OneWriter'
  OBVIOUS
<1>a. opts' = opts /\ Jobs' = Jobs /\ \A j \in Jobs : Dst(j)' = Dst(j)
  BY SameJobs
<1>b. pc \in [Jobs -> {"waiting", "listed", "checked", "rewriting", "unlinked", "file",
                        "copied", "moving", "done"} \cup Writing]
  BY DEF TypeOK
<1>. USE DEF OneWriter, Writing
<1>1. CASE Begin
  BY <1>1, <1>a DEF Begin
<1>2. ASSUME NEW j \in Jobs, Copy(j)
      PROVE  OneWriter'
  <2>1. CASE List(j)
    BY <2>1, <1>a, <1>b DEF List, Step, process
  <2>2. CASE ListNothing(j)
    BY <2>2, <1>a, <1>b DEF ListNothing, Fail
  <2>3. CASE Start(j)
    BY <2>3, <1>a, <1>b DEF Start, Step
  <2>4. CASE StartFails(j)
    <3>1. Fail(j) /\ UNCHANGED openFiles
      BY <2>4 DEF StartFails, files
    <3>. QED
      BY <3>1, <1>a, <1>b DEF Fail
  <2>5. CASE RewriteBegins(j)
    BY <2>5, <1>a, <1>b DEF RewriteBegins, Step
  <2>6. CASE RewriteEnds(j)
    BY <2>6, <1>a, <1>b DEF RewriteEnds, Step
  <2>7. CASE RewriteUnanswered(j)
    BY <2>7, <1>a, <1>b DEF RewriteUnanswered
  <2>8. CASE RewriteRejected(j)
    BY <2>8, <1>a, <1>b DEF RewriteRejected, Skip
  <2>9. CASE GetDownloadFile(j) \/ CreateTemp(j)
    BY <2>9, <1>a, <1>b DEF GetDownloadFile, CreateTemp, Step
  <2>10. CASE Open(j)
    BY <2>10, <1>a, <1>b DEF Open, IsOpen, Step
  <2>11. CASE Rename(j)
    BY <2>11, <1>a, <1>b DEF Rename, Step
  <2>12. CASE DownloadFails(j)
    <3>1. Fail(j) /\ UNCHANGED openFiles
      BY <2>12 DEF DownloadFails, files
    <3>. QED
      BY <3>1, <1>a, <1>b DEF Fail
  <2>13. CASE Release(j)
    BY <2>13, <1>a, <1>b DEF Release, Step
  <2>14. CASE Record(j)
    BY <2>14, <1>a, <1>b DEF Record, Step
  <2>15. CASE Move(j)
    BY <2>15, <1>a, <1>b DEF Move, Step
  <2>16. CASE MoveFails(j)
    <3>1. Fail(j) /\ UNCHANGED openFiles
      BY <2>16 DEF MoveFails, files
    <3>. QED
      BY <3>1, <1>a, <1>b DEF Fail
  <2>. QED
    BY <1>2, <2>1, <2>2, <2>3, <2>4, <2>5, <2>6, <2>7, <2>8, <2>9, <2>10, <2>11, <2>12, <2>13, <2>14, <2>15, <2>16 DEF Copy
<1>3. CASE Finish
  BY <1>3, <1>a DEF Finish, job
<1>4. CASE Crash
  BY <1>4, <1>a DEF Crash
<1>5. CASE Change
  BY <1>5, <1>a DEF Change, job, process
<1>6. CASE UNCHANGED vars
  BY <1>6, <1>a DEF vars, job, process
<1>. QED
  BY <1>1, <1>2, <1>3, <1>4, <1>5, <1>6 DEF Next

-----------------------------------------------------------------------------
(* What the steps of a job leave alone.                                    *)

\* Which steps write to sources, destinations, tracker files and listings.
LEMMA CopyFrame ==
    ASSUME TypeOK, NEW j \in Jobs, Copy(j)
    PROVE  /\ heldEver' = heldEver /\ touched' = touched /\ intruded' = intruded
           /\ source' = source \/ Move(j) \/ MoveFails(j)
           /\ tokens' = tokens \/ RewriteBegins(j) \/ RewriteEnds(j)
           /\ \/ dest' = dest
              \/ RewriteEnds(j) \/ RewriteUnanswered(j)
              \/ GetDownloadFile(j) \/ Rename(j)
           /\ meta' = meta \/ List(j)
           /\ pinned' = pinned \/ RewriteBegins(j)
<1>. USE DEF Fail, GoesOn, FileUnchanged, history, files, process
<1>1. CASE List(j)
  BY <1>1 DEF List
<1>2. CASE ListNothing(j)
  BY <1>2 DEF ListNothing
<1>3. CASE Start(j)
  BY <1>3 DEF Start
<1>4. CASE StartFails(j)
  BY <1>4 DEF StartFails
<1>5. CASE RewriteBegins(j)
  BY <1>5 DEF RewriteBegins
<1>6. CASE RewriteEnds(j)
  BY <1>6 DEF RewriteEnds
<1>7. CASE RewriteUnanswered(j)
  BY <1>7 DEF RewriteUnanswered
<1>8. CASE RewriteRejected(j)
  BY <1>8 DEF RewriteRejected
<1>9. CASE GetDownloadFile(j) \/ CreateTemp(j)
  BY <1>9 DEF GetDownloadFile, CreateTemp
<1>10. CASE Open(j)
  BY <1>10 DEF Open
<1>11. CASE Rename(j)
  BY <1>11 DEF Rename
<1>12. CASE DownloadFails(j)
  BY <1>12 DEF DownloadFails
<1>13. CASE Release(j)
  BY <1>13 DEF Release
<1>14. CASE Record(j)
  BY <1>14 DEF Record
<1>15. CASE Move(j)
  BY <1>15 DEF Move
<1>16. CASE MoveFails(j)
  BY <1>16 DEF MoveFails
<1>. QED
  BY <1>1, <1>2, <1>3, <1>4, <1>5, <1>6, <1>7, <1>8, <1>9, <1>10, <1>11, <1>12, <1>13, <1>14, <1>15, <1>16 DEF Copy

\* Other jobs stay where they are, or the command is over; this one goes on
\* from where it is.
LEMMA CopyControl ==
    ASSUME TypeOK, NEW j \in Jobs, Copy(j)
    PROVE  /\ \A i \in Jobs \ {j} : pc'[i] \in {pc[i], "done"}
           /\ pc[j] = "waiting" => List(j) \/ ListNothing(j)
           /\ pc[j] # "done"
           /\ pc'[j] = "waiting" => FALSE
           /\ pc'[j] = "rewriting" => RewriteBegins(j) \/ pc[j] = "rewriting"
           /\ pc'[j] \in {"renamed", "copied", "moving"} =>
                  RewriteEnds(j) \/ Rename(j) \/ pc[j] \in {"renamed", "copied"}
<1>a. pc \in [Jobs -> {"waiting", "listed", "checked", "rewriting", "unlinked", "file",
                        "copied", "moving", "done"} \cup Writing]
  BY DEF TypeOK
<1>. USE DEF Fail, Step, Job, Ready, Writing
<1>1. CASE List(j)
  BY <1>1, <1>a DEF List
<1>2. CASE ListNothing(j)
  BY <1>2, <1>a DEF ListNothing
<1>3. CASE Start(j)
  BY <1>3, <1>a DEF Start
<1>4. CASE StartFails(j)
  BY <1>4, <1>a DEF StartFails
<1>5. CASE RewriteBegins(j)
  BY <1>5, <1>a DEF RewriteBegins
<1>6. CASE RewriteEnds(j)
  BY <1>6, <1>a DEF RewriteEnds
<1>7. CASE RewriteUnanswered(j)
  BY <1>7, <1>a DEF RewriteUnanswered
<1>8. CASE RewriteRejected(j)
  BY <1>8, <1>a DEF RewriteRejected, Skip
<1>9. CASE GetDownloadFile(j) \/ CreateTemp(j)
  BY <1>9, <1>a DEF GetDownloadFile, CreateTemp
<1>10. CASE Open(j)
  BY <1>10, <1>a DEF Open
<1>11. CASE Rename(j)
  BY <1>11, <1>a DEF Rename
<1>12. CASE DownloadFails(j)
  BY <1>12, <1>a DEF DownloadFails
<1>13. CASE Release(j)
  BY <1>13, <1>a DEF Release
<1>14. CASE Record(j)
  BY <1>14, <1>a DEF Record
<1>15. CASE Move(j)
  BY <1>15, <1>a DEF Move
<1>16. CASE MoveFails(j)
  BY <1>16, <1>a DEF MoveFails
<1>. QED
  BY <1>1, <1>2, <1>3, <1>4, <1>5, <1>6, <1>7, <1>8, <1>9, <1>10, <1>11, <1>12, <1>13, <1>14, <1>15, <1>16 DEF Copy

-----------------------------------------------------------------------------
(* Contents.                                                               *)

\* What is copied is what the source has always been.
LEMMA RewrittenContent ==
    ASSUME Inv, NEW j \in Jobs, Ready(j), Src(j) \notin touched
    PROVE  Rewritten(j) \in heldEver[Src(j)] \ {Nothing}
<1>a. /\ Src(j) \in Sources /\ opts.jobs[j] \in JobRecords
      /\ opts.jobs[j].src = Src(j)
  BY JobsTyped DEF Inv, Src
<1>b. Rewritten(j) # Nothing /\ pc[j] \in {"checked", "rewriting"}
  BY DEF Ready
<1>1. CASE pc[j] = "rewriting"
  BY <1>1, <1>b DEF Inv, PinnedInv, Rewritten
<1>2. CASE pc[j] = "checked" /\ HasToken(j)
  <2>1. tokens[opts.jobs[j]].hash # Nothing
    BY <1>2 DEF HasToken, Inv, ListedInv
  <2>2. tokens[opts.jobs[j]].pinned \in heldEver[Src(j)]
    BY <1>a, <2>1 DEF Inv, TokensInv
  <2>. QED
    BY <1>2, <1>b, <2>2 DEF Rewritten
<1>3. CASE pc[j] = "checked" /\ ~HasToken(j)
  <2>1. Rewritten(j) = source[Src(j)]
    BY <1>3 DEF Rewritten
  <2>2. PICK c \in heldEver[Src(j)] :
            heldEver[Src(j)] = {c} /\ source[Src(j)] \in {c, Nothing}
    BY <1>a DEF Inv, SourcesInv
  <2>. QED
    BY <2>1, <2>2, <1>b
<1>. QED
  BY <1>1, <1>2, <1>3, <1>b

\* Only others give a source new contents; mv takes the only one away.
LEMMA SourcesStep == Inv /\ [Next]_vars => SourcesInv'
<1>. SUFFICES ASSUME Inv, [Next]_vars PROVE SourcesInv'
  OBVIOUS
<1>a. SourcesInv /\ source \in [Sources -> Nat] /\ heldEver \in [Sources -> SUBSET Nat]
  BY DEF Inv, TypeOK
<1>. USE DEF SourcesInv
<1>1. CASE Begin
  BY <1>1, <1>a DEF Begin, files
<1>2. ASSUME NEW j \in Jobs, Copy(j)
      PROVE  SourcesInv'
  <2>1. heldEver' = heldEver /\ touched' = touched
    BY <1>2, CopyFrame DEF Inv
  <2>2. source' = source \/ source' = [source EXCEPT ![Src(j)] = Nothing]
    BY <1>2, CopyFrame DEF Inv, Move, MoveFails
  <2>. QED
    BY <1>a, <2>1, <2>2
<1>3. CASE Finish
  BY <1>3, <1>a DEF Finish, files, history
<1>4. CASE Crash
  BY <1>4, <1>a DEF Crash, files, history
<1>5. CASE Change
  BY <1>5, <1>a DEF Change
<1>6. CASE UNCHANGED vars
  BY <1>6, <1>a DEF vars, files, history
<1>. QED
  BY <1>1, <1>2, <1>3, <1>4, <1>5, <1>6 DEF Next

\* A tracker file is written for what its rewrite copies.
LEMMA TokensStep == Inv /\ [Next]_vars => TokensInv'
<1>. SUFFICES ASSUME Inv, [Next]_vars PROVE TokensInv'
  OBVIOUS
<1>a. /\ TokensInv /\ tokens \in [JobRecords -> [hash : Nat, pinned : Nat]]
      /\ heldEver \in [Sources -> SUBSET Nat]
  BY DEF Inv, TypeOK
<1>. USE DEF TokensInv
<1>1. CASE Begin
  BY <1>1, <1>a DEF Begin, files
<1>2. ASSUME NEW j \in Jobs, Copy(j)
      PROVE  TokensInv'
  <2>1. heldEver' = heldEver /\ touched' = touched
    BY <1>2, CopyFrame DEF Inv
  <2>2. opts.jobs[j] \in JobRecords /\ opts.jobs[j].src = Src(j)
    BY JobsTyped DEF Inv, Src
  <2>3. CASE tokens' = tokens
    BY <1>a, <2>1, <2>3
  <2>4. CASE RewriteBegins(j)
    <3>1. Src(j) \notin touched => Rewritten(j) \in heldEver[Src(j)]
      BY <2>4, RewrittenContent DEF RewriteBegins
    <3>2. tokens' = [tokens EXCEPT ![opts.jobs[j]] =
                         [hash |-> meta[j], pinned |-> Rewritten(j)]]
      BY <2>4 DEF RewriteBegins
    <3>. QED
      BY <1>a, <2>1, <2>2, <3>1, <3>2
  <2>5. CASE RewriteEnds(j)
    <3>1. tokens' = [tokens EXCEPT ![opts.jobs[j]] = NoToken]
      BY <2>5 DEF RewriteEnds
    <3>. QED
      BY <1>a, <2>1, <2>2, <3>1 DEF NoToken
  <2>. QED
    BY <1>2, <2>3, <2>4, <2>5, CopyFrame DEF Inv
<1>3. CASE Finish
  BY <1>3, <1>a DEF Finish, files, history
<1>4. CASE Crash
  BY <1>4, <1>a DEF Crash, files, history
<1>5. CASE Change
  <2>1. /\ tokens' = tokens /\ touched \subseteq touched'
        /\ \A s \in Sources \ touched' : heldEver'[s] = heldEver[s]
    BY <1>5, <1>a DEF Change
  <2>. QED
    BY <1>a, <2>1 DEF JobRecords
<1>6. CASE UNCHANGED vars
  BY <1>6, <1>a DEF vars, files, history
<1>. QED
  BY <1>1, <1>2, <1>3, <1>4, <1>5, <1>6 DEF Next

\* What a listing says of a source nobody else writes is what it holds.
LEMMA ListedStep == Inv /\ [Next]_vars => ListedInv'
<1>. SUFFICES ASSUME Inv, [Next]_vars PROVE ListedInv'
  OBVIOUS
<1>a. /\ ListedInv /\ meta \in [Jobs -> Nat] /\ heldEver \in [Sources -> SUBSET Nat]
      /\ \A i \in Jobs : Src(i) \in Sources
  BY JobsTyped DEF Inv, TypeOK
<1>b. opts' = opts /\ Jobs' = Jobs /\ \A i \in Jobs : Src(i)' = Src(i)
  BY SameJobs DEF Inv
<1>. USE DEF ListedInv
<1>1. CASE Begin
  BY <1>1, <1>b DEF Begin
<1>2. ASSUME NEW j \in Jobs, Copy(j)
      PROVE  ListedInv'
  <2>1. heldEver' = heldEver /\ touched' = touched
    BY <1>2, CopyFrame DEF Inv
  <2>2. \A i \in Jobs \ {j} : meta'[i] = meta[i] /\ pc'[i] \in {pc[i], "done"}
    BY <1>2, <1>a, CopyFrame, CopyControl DEF Inv, List
  <2>3. CASE List(j)
    <3>1. meta'[j] = source[Src(j)] /\ source[Src(j)] # Nothing
      BY <2>3, <1>a DEF List
    <3>2. Src(j) \notin touched => source[Src(j)] \in heldEver[Src(j)]
      BY <1>a, <3>1 DEF Inv, SourcesInv
    <3>. QED
      BY <1>a, <1>b, <2>1, <2>2, <3>1, <3>2
  <2>4. CASE ListNothing(j)
    <3>1. pc'[j] = "done"
      BY <2>4 DEF ListNothing, Fail, Inv, TypeOK
    <3>. QED
      BY <1>a, <1>b, <2>1, <2>2, <3>1
  <2>5. CASE ~List(j) /\ ~ListNothing(j)
    <3>1. pc[j] \notin {"waiting", "done"} /\ meta' = meta
      BY <1>2, <2>5, CopyFrame, CopyControl DEF Inv
    <3>. QED
      BY <1>a, <1>b, <2>1, <2>2, <3>1
  <2>. QED
    BY <2>3, <2>4, <2>5
<1>3. CASE Finish
  BY <1>3, <1>a, <1>b DEF Finish, job, history
<1>4. CASE Crash
  BY <1>4, <1>a, <1>b DEF Crash
<1>5. CASE Change
  <2>1. /\ job' = job /\ touched \subseteq touched'
        /\ \A s \in Sources \ touched' : heldEver'[s] = heldEver[s]
    BY <1>5, <1>a DEF Change
  <2>. QED
    BY <1>a, <1>b, <2>1 DEF job
<1>6. CASE UNCHANGED vars
  BY <1>6, <1>a, <1>b DEF vars, job, history
<1>. QED
  BY <1>1, <1>2, <1>3, <1>4, <1>5, <1>6 DEF Next

\* A token in use stands for a content of the source.
LEMMA PinnedStep == Inv /\ [Next]_vars => PinnedInv'
<1>. SUFFICES ASSUME Inv, [Next]_vars PROVE PinnedInv'
  OBVIOUS
<1>a. /\ PinnedInv /\ pinned \in [Jobs -> Nat] /\ heldEver \in [Sources -> SUBSET Nat]
      /\ \A i \in Jobs : Src(i) \in Sources
  BY JobsTyped DEF Inv, TypeOK
<1>b. opts' = opts /\ Jobs' = Jobs /\ \A i \in Jobs : Src(i)' = Src(i)
  BY SameJobs DEF Inv
<1>. USE DEF PinnedInv
<1>1. CASE Begin
  BY <1>1, <1>b DEF Begin
<1>2. ASSUME NEW j \in Jobs, Copy(j)
      PROVE  PinnedInv'
  <2>1. heldEver' = heldEver /\ touched' = touched
    BY <1>2, CopyFrame DEF Inv
  <2>2. \A i \in Jobs \ {j} : pinned'[i] = pinned[i] /\ pc'[i] \in {pc[i], "done"}
    BY <1>2, <1>a, CopyFrame, CopyControl DEF Inv, RewriteBegins
  <2>3. CASE RewriteBegins(j)
    <3>1. pinned'[j] = Rewritten(j)
      BY <2>3, <1>a DEF RewriteBegins
    <3>2. Src(j) \notin touched => Rewritten(j) \in heldEver[Src(j)]
      BY <2>3, RewrittenContent DEF RewriteBegins
    <3>. QED
      BY <1>a, <1>b, <2>1, <2>2, <3>1, <3>2
  <2>4. CASE ~RewriteBegins(j)
    <3>1. pinned' = pinned /\ (pc'[j] = "rewriting" => pc[j] = "rewriting")
      BY <1>2, <2>4, CopyFrame, CopyControl DEF Inv
    <3>. QED
      BY <1>a, <1>b, <2>1, <2>2, <3>1
  <2>. QED
    BY <2>3, <2>4
<1>3. CASE Finish
  BY <1>3, <1>a, <1>b DEF Finish, job, history
<1>4. CASE Crash
  BY <1>4, <1>a, <1>b DEF Crash
<1>5. CASE Change
  <2>1. /\ job' = job /\ touched \subseteq touched'
        /\ \A s \in Sources \ touched' : heldEver'[s] = heldEver[s]
    BY <1>5, <1>a DEF Change
  <2>. QED
    BY <1>a, <1>b, <2>1 DEF job
<1>6. CASE UNCHANGED vars
  BY <1>6, <1>a, <1>b DEF vars, job, history
<1>. QED
  BY <1>1, <1>2, <1>3, <1>4, <1>5, <1>6 DEF Next

\* A job deletes its old file before it has another.
LEMMA DirectionStep == Inv /\ [Next]_vars => DirectionInv'
<1>. SUFFICES ASSUME Inv, [Next]_vars PROVE DirectionInv'
  OBVIOUS
<1>a. DirectionInv /\ pc \in [Jobs -> {"waiting", "listed", "checked", "rewriting",
          "unlinked", "file", "copied", "moving", "done"} \cup Writing]
  BY DEF Inv, TypeOK
<1>b. opts' = opts /\ Jobs' = Jobs
  BY SameJobs DEF Inv
<1>. USE DEF DirectionInv, Writing
<1>1. CASE Begin
  BY <1>1, <1>b DEF Begin
<1>2. ASSUME NEW j \in Jobs, Copy(j)
      PROVE  DirectionInv'
  <2>1. pc'[j] \in {"unlinked", "file", "open", "renamed"} =>
            opts.to = "file" \/ pc[j] \in {"unlinked", "file", "open", "renamed"}
    <3>. USE DEF Fail, Step
    <3>1. CASE List(j) \/ ListNothing(j) \/ Start(j)
      BY <3>1, <1>a DEF List, ListNothing, Start
    <3>2. CASE StartFails(j) \/ RewriteBegins(j) \/ RewriteEnds(j)
      BY <3>2, <1>a DEF StartFails, RewriteBegins, RewriteEnds
    <3>3. CASE RewriteUnanswered(j) \/ RewriteRejected(j)
      BY <3>3, <1>a DEF RewriteUnanswered, RewriteRejected, Skip
    <3>4. CASE GetDownloadFile(j) \/ CreateTemp(j)
      BY <3>4, <1>a DEF GetDownloadFile, CreateTemp, Job
    <3>5. CASE Open(j) \/ Rename(j) \/ DownloadFails(j) \/ Release(j)
      BY <3>5, <1>a DEF Open, Rename, DownloadFails, Release, Job
    <3>6. CASE Record(j) \/ Move(j) \/ MoveFails(j)
      BY <3>6, <1>a DEF Record, Move, MoveFails
    <3>. QED
      BY <1>2, <3>1, <3>2, <3>3, <3>4, <3>5, <3>6 DEF Copy
  <2>2. \A i \in Jobs \ {j} : pc'[i] \in {pc[i], "done"}
    BY <1>2, CopyControl DEF Inv
  <2>. QED
    BY <1>a, <1>b, <2>1, <2>2
<1>3. CASE Finish
  BY <1>3, <1>a, <1>b DEF Finish, job
<1>4. CASE Crash
  BY <1>4, <1>b DEF Crash
<1>5. CASE Change
  BY <1>5, <1>a, <1>b DEF Change, job
<1>6. CASE UNCHANGED vars
  BY <1>6, <1>a, <1>b DEF vars, job
<1>. QED
  BY <1>1, <1>2, <1>3, <1>4, <1>5, <1>6 DEF Next

-----------------------------------------------------------------------------
(* Copies.                                                                 *)

\* A copy that is there is not overwritten by another job.
LEMMA CopyKept ==
    ASSUME Inv, Safe, NEW i \in Jobs, Has(i), NEW j \in Jobs \ {i}, Copy(j)
    PROVE  dest'[Dst(i)] = dest[Dst(i)]
<1>a. dest[Dst(i)] # Nothing
  BY DEF Has
<1>b. Dst(i) \in Dests /\ Dst(j) \in Dests /\ dest \in [Dests -> Nat]
  BY JobsTyped DEF Inv, TypeOK
<1>1. CASE Dst(i) = Dst(j)
  <2>1. opts.noClobber /\ opts.to = "cloud"
    BY <1>1 DEF Safe, OwnDests
  <2>2. ~Allowed(j)
    BY <2>1, <1>1, <1>a DEF Allowed
  <2>3. ~RewriteEnds(j) /\ ~RewriteUnanswered(j)
    BY <2>2 DEF RewriteEnds, RewriteUnanswered
  <2>4. ~GetDownloadFile(j) /\ ~Rename(j)
    BY <2>1 DEF GetDownloadFile, Rename, Job, Inv, DirectionInv, Writing
  <2>. QED
    BY <2>3, <2>4, CopyFrame DEF Inv
<1>2. CASE Dst(i) # Dst(j)
  <2>1. dest' = dest \/ \E c : dest' = [dest EXCEPT ![Dst(j)] = c]
    BY CopyFrame DEF Inv, RewriteEnds, RewriteUnanswered, GetDownloadFile, Rename
  <2>. QED
    BY <1>2, <1>b, <2>1
<1>. QED
  BY <1>1, <1>2

\* A job comes to an end of its copying with the copy at the destination.
LEMMA CopiedStep == Inv /\ [Next]_vars => CopiedInv'
<1>. SUFFICES ASSUME Inv, [Next]_vars, Safe PROVE CopiedInv'
  BY SameJobs DEF Inv, CopiedInv
<1>a. /\ CopiedInv /\ dest \in [Dests -> Nat] /\ heldEver \in [Sources -> SUBSET Nat]
      /\ \A i \in Jobs : Src(i) \in Sources /\ Dst(i) \in Dests
  BY JobsTyped DEF Inv, TypeOK
<1>b. Jobs' = Jobs /\ \A i \in Jobs : Src(i)' = Src(i) /\ Dst(i)' = Dst(i)
  BY SameJobs DEF Inv
<1>1. CASE Begin
  BY <1>1, <1>b DEF Begin, CopiedInv
<1>2. ASSUME NEW j \in Jobs, Copy(j)
      PROVE  CopiedInv'
  <2>1. heldEver' = heldEver /\ touched' = touched /\ intruded' = intruded
    BY <1>2, CopyFrame DEF Inv
  <2>2. SUFFICES ASSUME NEW i \in Jobs, pc'[i] \in {"renamed", "copied", "moving"},
                        Src(i) \notin touched, Dst(i) \notin intruded
                 PROVE  dest'[Dst(i)] \in heldEver[Src(i)] \ {Nothing}
    BY <1>b, <2>1 DEF CopiedInv, Has
  <2>3. CASE i # j
    <3>1. Has(i)
      BY <1>2, <2>2, <2>3, CopyControl, <1>a DEF CopiedInv, Inv
    <3>. QED
      BY <1>2, <2>3, <3>1, CopyKept DEF Has
  <2>4. CASE i = j /\ RewriteEnds(j)
    <3>1. dest'[Dst(j)] = Rewritten(j)
      BY <2>4, <1>a DEF RewriteEnds
    <3>2. Rewritten(j) \in heldEver[Src(j)] \ {Nothing}
      BY <2>2, <2>4, RewrittenContent DEF RewriteEnds
    <3>. QED
      BY <2>4, <3>1, <3>2
  <2>5. CASE i = j /\ Rename(j)
    <3>1. dest'[Dst(j)] = meta[j]
      BY <2>5, <1>a DEF Rename
    <3>2. meta[j] \in heldEver[Src(j)] \ {Nothing}
      BY <2>2, <2>5 DEF Rename, Job, Inv, ListedInv
    <3>. QED
      BY <2>5, <3>1, <3>2
  <2>6. CASE i = j /\ ~RewriteEnds(j) /\ ~Rename(j)
    <3>1. pc[j] \in {"renamed", "copied"}
      BY <1>2, <2>2, <2>6, CopyControl DEF Inv
    <3>2. dest' = dest
      BY <1>2, <2>6, <3>1, CopyFrame DEF Inv, RewriteUnanswered, GetDownloadFile, Ready, Job
    <3>3. Has(j)
      BY <2>2, <2>6, <3>1, <1>a DEF CopiedInv
    <3>. QED
      BY <2>6, <3>2, <3>3 DEF Has
  <2>. QED
    BY <2>3, <2>4, <2>5, <2>6
<1>3. CASE Finish
  BY <1>3, <1>a, <1>b DEF Finish, job, history, files, CopiedInv, Has
<1>4. CASE Crash
  BY <1>4, <1>b DEF Crash, CopiedInv
<1>5. CASE Change
  <2>1. /\ pc' = pc /\ touched \subseteq touched' /\ intruded \subseteq intruded'
        /\ \A s \in Sources \ touched' : heldEver'[s] = heldEver[s]
        /\ \A d \in Dests \ intruded' : dest'[d] = dest[d]
    BY <1>5, <1>a DEF Change, job
  <2>. QED
    BY <1>a, <1>b, <2>1 DEF CopiedInv, Has
<1>6. CASE UNCHANGED vars
  BY <1>6, <1>a, <1>b DEF vars, job, history, files, CopiedInv, Has
<1>. QED
  BY <1>1, <1>2, <1>3, <1>4, <1>5, <1>6 DEF Next

\* mv deletes what it has copied, and the copy stays.
LEMMA GoneStep == Inv /\ [Next]_vars => GoneInv'
<1>. SUFFICES ASSUME Inv, [Next]_vars, Safe,
                     NEW s \in Sources, Alone(s)', source'[s] = Nothing,
                     heldEver'[s] # {Nothing}
              PROVE  \E i \in JobsOf(s)' : pc'[i] \in {"waiting", "done"} /\ Has(i)'
  BY SameJobs DEF Inv, GoneInv
<1>a. /\ GoneInv /\ dest \in [Dests -> Nat] /\ source \in [Sources -> Nat]
      /\ \A i \in Jobs : Src(i) \in Sources /\ Dst(i) \in Dests
      /\ pc \in [Jobs -> {"waiting", "listed", "checked", "rewriting", "unlinked", "file",
                          "copied", "moving", "done"} \cup Writing]
      /\ heldEver \in [Sources -> SUBSET Nat]
  BY JobsTyped DEF Inv, TypeOK
<1>b. /\ Jobs' = Jobs /\ JobsOf(s)' = JobsOf(s)
      /\ \A i \in Jobs : Src(i)' = Src(i) /\ Dst(i)' = Dst(i)
      /\ JobsOf(s) \subseteq Jobs /\ \A i \in JobsOf(s) : Src(i) = s
  BY SameJobs DEF Inv, JobsOf
<1>c. ASSUME UNCHANGED <<source, dest, heldEver, touched, intruded>>,
             \A i \in Jobs : pc'[i] \in {pc[i], "waiting", "done"}
      PROVE  \E i \in JobsOf(s)' : pc'[i] \in {"waiting", "done"} /\ Has(i)'
  <2>1. Alone(s)
    BY <1>b, <1>c DEF Alone
  <2>2. PICK w \in JobsOf(s) : pc[w] \in {"waiting", "done"} /\ Has(w)
    BY <1>a, <1>c, <2>1 DEF GoneInv
  <2>3. pc'[w] \in {"waiting", "done"} /\ Has(w)'
    BY <1>b, <1>c, <2>2 DEF Has
  <2>. QED
    BY <1>b, <2>3
<1>1. CASE Begin
  BY <1>1, <1>c, <1>b DEF Begin, files
<1>2. ASSUME NEW j \in Jobs, Copy(j)
      PROVE  \E i \in JobsOf(s)' : pc'[i] \in {"waiting", "done"} /\ Has(i)'
  <2>1. heldEver' = heldEver /\ touched' = touched /\ intruded' = intruded
    BY <1>2, CopyFrame DEF Inv
  <2>2. Alone(s)
    BY <1>b, <2>1 DEF Alone
  <2>3. CASE source[s] = Nothing
    <3>1. PICK w \in JobsOf(s) : pc[w] \in {"waiting", "done"} /\ Has(w)
      BY <1>a, <2>1, <2>2, <2>3 DEF GoneInv
    <3>2. CASE w # j
      <4>1. dest'[Dst(w)] = dest[Dst(w)]
        BY <1>2, <1>b, <3>1, <3>2, CopyKept
      <4>2. pc'[w] \in {"waiting", "done"}
        BY <1>2, <1>b, <3>1, <3>2, CopyControl DEF Inv
      <4>3. Has(w)'
        BY <1>b, <2>1, <3>1, <4>1 DEF Has
      <4>. QED
        BY <1>b, <4>2, <4>3
    <3>3. CASE w = j
      <4>1. pc[j] = "waiting" /\ Src(j) = s
        BY <1>2, <1>b, <3>1, <3>3, CopyControl DEF Inv
      <4>2. ListNothing(j)
        BY <1>2, <4>1, <2>3, CopyControl DEF Inv, List
      <4>3. pc'[j] = "done" /\ dest' = dest
        BY <4>2, <1>a DEF ListNothing, Fail, files
      <4>4. Has(j)'
        BY <1>b, <2>1, <3>1, <3>3, <4>3 DEF Has
      <4>. QED
        BY <1>b, <3>1, <3>3, <4>3, <4>4
    <3>. QED
      BY <3>2, <3>3
  <2>4. CASE source[s] # Nothing
    <3>1. Move(j) \/ MoveFails(j)
      BY <1>2, <2>4, CopyFrame DEF Inv
    <3>2. Src(j) = s /\ pc[j] = "moving" /\ dest' = dest
      BY <3>1, <2>4, <1>a DEF Move, MoveFails, Job
    <3>3. pc'[j] = "done"
      BY <3>1, <1>a DEF Move, MoveFails, Step, Fail
    <3>4. j \in JobsOf(s) /\ Src(j) \notin touched /\ Dst(j) \notin intruded
      BY <3>2, <2>2 DEF JobsOf, Alone
    <3>5. Has(j)
      BY <3>2, <3>4 DEF Inv, CopiedInv
    <3>6. Has(j)'
      BY <1>b, <2>1, <3>2, <3>5 DEF Has
    <3>. QED
      BY <1>b, <3>3, <3>4, <3>6
  <2>. QED
    BY <2>3, <2>4
<1>3. CASE Finish
  BY <1>3, <1>c DEF Finish, files, job, history
<1>4. CASE Crash
  BY <1>4, <1>c DEF Crash, files, history
<1>5. CASE Change
  <2>1. /\ pc' = pc /\ touched \subseteq touched' /\ intruded \subseteq intruded'
        /\ \A t \in Sources \ touched' : heldEver'[t] = heldEver[t] /\ source'[t] = source[t]
        /\ \A d \in Dests \ intruded' : dest'[d] = dest[d]
    BY <1>5, <1>a DEF Change, job
  <2>2. s \notin touched' /\ \A i \in JobsOf(s) : Dst(i) \notin intruded'
    BY <1>b DEF Alone
  <2>3. Alone(s)
    BY <2>1, <2>2 DEF Alone
  <2>4. PICK w \in JobsOf(s) : pc[w] \in {"waiting", "done"} /\ Has(w)
    BY <1>a, <2>1, <2>2, <2>3 DEF GoneInv
  <2>5. pc'[w] \in {"waiting", "done"} /\ Has(w)'
    BY <1>a, <1>b, <2>1, <2>2, <2>4 DEF Has
  <2>. QED
    BY <1>b, <2>5
<1>6. CASE UNCHANGED vars
  BY <1>6, <1>c DEF vars, files, job, history
<1>. QED
  BY <1>1, <1>2, <1>3, <1>4, <1>5, <1>6 DEF Next

-----------------------------------------------------------------------------
(* What a successful run leaves: definitions.                              *)

\* What a source holds, or did during the run, and which number comes next.
HeldInv ==
    /\ held \in [Sources -> SUBSET Nat]
    /\ \A s \in Sources : /\ source[s] \in held[s] \cup {Nothing} /\ source[s] < next
                          /\ held[s] \subseteq heldEver[s] \cup {Nothing}

\* A tracker file that fits what the source holds, or did during the run,
\* stands for a content of that time.
FreshTokensInv ==
    \A k \in JobRecords :
        /\ tokens[k].hash < next
        /\ tokens[k].hash # Nothing =>
               /\ tokens[k].hash = source[k.src] => tokens[k].pinned = source[k.src]
               /\ tokens[k].hash \in held[k.src] => tokens[k].pinned \in held[k.src]

FreshListedInv ==
    \A j \in Jobs : pc[j] \notin {"waiting", "done"} =>
                        meta[j] \in held[Src(j)] /\ meta[j] < next

FreshPinnedInv == \A j \in Jobs : pc[j] = "rewriting" => pinned[j] \in held[Src(j)]

\* The end of the command.
ExitInv ==
    /\ running => exit = "none"
    /\ ~running => \A j \in Jobs : pc[j] = "done"

NoRowsInv == ~opts.manifest => rows = {} /\ filter = {}

\* One thread has one job on its way.
TurnInv ==
    ~opts.parallel =>
        \A i, j \in Jobs : i < j /\ pc[j] \notin {"waiting", "listed", "done"} => pc[i] = "done"

\* Without a failure, only downloads on their way have their names in
\* open_files_map.
OpenInv ==
    running /\ failures = 0 => \A d \in openFiles : \E i \in Jobs : pc[i] \in Writing /\ Dst(i) = d

\* Without a failure, a source that was dealt with is gone.
MovedInv ==
    /\ exit = "ok" \/ (running /\ failures = 0)
    /\ opts.mv /\ OwnDests /\ ~opts.noClobber /\ ~opts.manifest
    => \A j \in Jobs : pc[j] = "done" /\ Src(j) \notin touched => source[Src(j)] = Nothing

\* The manifest knows sources by their names only: a source that is named
\* twice is done after the first copy, to whatever destination.
OwnRows == opts.manifest => \A i, j \in Jobs : Src(i) = Src(j) => i = j

\* No two downloads at a time aim at one file.
Unshared == OwnDests \/ opts.to = "cloud" \/ ~opts.parallel

Active == {"checked", "rewriting", "unlinked", "file", "open", "renamed", "copied"}

\* A source that this run copies has no row before it is copied.
RowedInv ==
    running /\ OwnRows =>
        /\ filter \subseteq rows
        /\ \A i \in Jobs : pc[i] \in Active => Src(i) \notin rows
        /\ \A i \in Jobs : pc[i] \in {"waiting", "listed"} /\ Src(i) \in rows => Src(i) \in filter

Now(i) == (IF Src(i) \in filter THEN heldEver ELSE held)[Src(i)]

\* A destination has what success promises, of this run or of any.
Good(d) ==
    IF opts.noClobber THEN dest[d] # Nothing
    ELSE \E i \in Jobs : Dst(i) = d /\ dest[d] \in Now(i) \ {Nothing}

EverGood(d) ==
    IF opts.noClobber THEN dest[d] # Nothing
    ELSE \E i \in Jobs : Dst(i) = d /\ dest[d] \in heldEver[Src(i)] \ {Nothing}

\* A download has deleted the old file and not yet renamed its own; a job
\* that the manifest does not skip has still to copy.
Replacing(d) == \E i \in Jobs : Dst(i) = d /\ pc[i] \in {"unlinked", "file", "open"}
ToCopy(d) == \E i \in Jobs : /\ Dst(i) = d /\ Src(i) \notin filter
                             /\ pc[i] \in {"waiting", "listed", "checked", "rewriting"}
Unrowed(d) == \E i \in Jobs : Dst(i) = d /\ Src(i) \notin rows

EverInv ==
    OwnRows /\ Unshared =>
        \A j \in Jobs, d \in Dests :
            d = Dst(j) /\ d \notin intruded =>
                /\ pc[j] \in {"renamed", "copied"} => EverGood(d)
                /\ Src(j) \in rows => EverGood(d) \/ Unrowed(d)

DoneInv ==
    OwnRows /\ Unshared /\ running /\ failures = 0 =>
        \A j \in Jobs, d \in Dests :
            d = Dst(j) /\ d \notin intruded =>
                /\ pc[j] \in {"renamed", "copied", "moving"} => Good(d) \/ Replacing(d)
                /\ pc[j] = "done" /\ Src(j) \notin filter => Good(d) \/ Replacing(d)
                /\ Src(j) \in filter => Good(d) \/ Replacing(d) \/ ToCopy(d)

OkInv ==
    OwnRows /\ Unshared /\ exit = "ok" =>
        \A j \in Jobs, d \in Dests : d = Dst(j) /\ d \notin intruded => Good(d)

Full == /\ Inv /\ HeldInv /\ FreshTokensInv /\ FreshListedInv /\ FreshPinnedInv
        /\ ExitInv /\ NoRowsInv /\ TurnInv /\ OpenInv
        /\ MovedInv /\ RowedInv /\ EverInv /\ DoneInv /\ OkInv

-----------------------------------------------------------------------------
(* What a successful run leaves: the steps of a job.                       *)

\* What a job's step does to the command, and to the manifest.
LEMMA CopyCommandFrame ==
    ASSUME TypeOK, NEW j \in Jobs, Copy(j)
    PROVE  /\ running /\ held' = held /\ next' = next /\ filter' = filter
           /\ Fail(j) \/ (failures' = failures /\ running' = running /\ exit' = exit)
           /\ \/ rows' = rows
              \/ /\ opts.manifest /\ rows' = rows \cup {Src(j)}
                 /\ Start(j) \/ RewriteRejected(j) \/ Record(j)
           /\ \/ openFiles' = openFiles
              \/ Open(j) /\ ~IsOpen(j) /\ openFiles' = openFiles \cup {Dst(j)}
              \/ Release(j) /\ openFiles' = openFiles \ {Dst(j)}
<1>. USE DEF GoesOn, FileUnchanged, history, files, process, Job, Ready, Row
<1>1. CASE List(j)
  BY <1>1 DEF List
<1>2. CASE ListNothing(j)
  BY <1>2 DEF ListNothing, Fail
<1>3. CASE Start(j)
  BY <1>3 DEF Start
<1>4. CASE StartFails(j)
  BY <1>4 DEF StartFails, Fail
<1>5. CASE RewriteBegins(j)
  BY <1>5 DEF RewriteBegins
<1>6. CASE RewriteEnds(j)
  BY <1>6 DEF RewriteEnds
<1>7. CASE RewriteUnanswered(j)
  BY <1>7 DEF RewriteUnanswered
<1>8. CASE RewriteRejected(j)
  BY <1>8 DEF RewriteRejected
<1>9. CASE GetDownloadFile(j) \/ CreateTemp(j)
  BY <1>9 DEF GetDownloadFile, CreateTemp
<1>10. CASE Open(j)
  BY <1>10 DEF Open
<1>11. CASE Rename(j)
  BY <1>11 DEF Rename
<1>12. CASE DownloadFails(j)
  BY <1>12 DEF DownloadFails, Fail
<1>13. CASE Release(j)
  BY <1>13 DEF Release
<1>14. CASE Record(j)
  BY <1>14 DEF Record
<1>15. CASE Move(j)
  BY <1>15 DEF Move
<1>16. CASE MoveFails(j)
  BY <1>16 DEF MoveFails, Fail
<1>. QED
  BY <1>1, <1>2, <1>3, <1>4, <1>5, <1>6, <1>7, <1>8, <1>9, <1>10, <1>11, <1>12, <1>13, <1>14, <1>15, <1>16 DEF Copy

\* A failure is counted, and in one thread without -c ends the command.
LEMMA Failing ==
    ASSUME TypeOK, NEW j \in Jobs, Fail(j)
    PROVE  /\ failures' # 0 /\ failures' \in Nat /\ pc'[j] = "done"
           /\ \/ running' = running /\ exit' = exit
                 /\ \A i \in Jobs \ {j} : pc'[i] = pc[i]
              \/ ~running' /\ exit' = "failed" /\ \A i \in Jobs : pc'[i] = "done"
<1>1. failures \in Nat /\ failures' = failures + 1
  BY DEF TypeOK, Fail
<1>2. failures' # 0 /\ failures' \in Nat
  BY <1>1
<1>. QED  BY <1>2 DEF Fail, TypeOK

\* How a job goes on that does not fail.
LEMMA Going ==
    ASSUME TypeOK, NEW j \in Jobs, Copy(j), ~Fail(j)
    PROVE  /\ \A i \in Jobs \ {j} : pc'[i] = pc[i]
           /\ \/ List(j) /\ pc[j] = "waiting" /\ pc'[j] = "listed"
              \/ Start(j) /\ pc[j] = "listed" /\ pc'[j] \in {"checked", "done"}
              \/ RewriteBegins(j) /\ pc[j] = "checked" /\ pc'[j] = "rewriting"
              \/ RewriteEnds(j) /\ pc[j] \in {"checked", "rewriting"} /\ pc'[j] = "copied"
              \/ RewriteUnanswered(j) /\ pc[j] \in {"checked", "rewriting"} /\ pc'[j] = pc[j]
              \/ RewriteRejected(j) /\ pc[j] \in {"checked", "rewriting"} /\ pc'[j] = "done"
              \/ GetDownloadFile(j) /\ pc[j] = "checked" /\ pc'[j] = "unlinked"
              \/ CreateTemp(j) /\ pc[j] = "unlinked" /\ pc'[j] = "file"
              \/ Open(j) /\ pc[j] = "file" /\ pc'[j] = IF IsOpen(j) THEN "done" ELSE "open"
              \/ Rename(j) /\ pc[j] = "open" /\ pc'[j] = "renamed"
              \/ Release(j) /\ pc[j] = "renamed" /\ pc'[j] = "copied"
              \/ Record(j) /\ pc[j] = "copied"
                    /\ pc'[j] = IF opts.mv THEN "moving" ELSE "done"
              \/ Move(j) /\ pc[j] = "moving" /\ pc'[j] = "done"
<1>a. pc \in [Jobs -> {"waiting", "listed", "checked", "rewriting", "unlinked", "file",
                        "copied", "moving", "done"} \cup Writing]
  BY DEF TypeOK
<1>. USE DEF Step, Job, Ready
<1>1. CASE List(j)
  BY <1>1, <1>a DEF List
<1>2. CASE Start(j)
  BY <1>2, <1>a DEF Start
<1>3. CASE RewriteBegins(j)
  BY <1>3, <1>a DEF RewriteBegins
<1>4. CASE RewriteEnds(j)
  BY <1>4, <1>a DEF RewriteEnds
<1>5. CASE RewriteUnanswered(j)
  BY <1>5, <1>a DEF RewriteUnanswered
<1>6. CASE RewriteRejected(j)
  BY <1>6, <1>a DEF RewriteRejected, Skip
<1>7. CASE GetDownloadFile(j) \/ CreateTemp(j)
  BY <1>7, <1>a DEF GetDownloadFile, CreateTemp
<1>8. CASE Open(j)
  BY <1>8, <1>a DEF Open
<1>9. CASE Rename(j)
  BY <1>9, <1>a DEF Rename
<1>10. CASE Release(j)
  BY <1>10, <1>a DEF Release
<1>11. CASE Record(j)
  BY <1>11, <1>a DEF Record
<1>12. CASE Move(j)
  BY <1>12, <1>a DEF Move
<1>. QED
  BY <1>1, <1>2, <1>3, <1>4, <1>5, <1>6, <1>7, <1>8, <1>9, <1>10, <1>11, <1>12
  DEF Copy, ListNothing, StartFails, DownloadFails, MoveFails

\* Which of them are not over with a failure.
LEMMA Failed ==
    ASSUME NEW j \in Jobs, ListNothing(j) \/ StartFails(j) \/ DownloadFails(j) \/ MoveFails(j)
    PROVE  Fail(j)
BY DEF ListNothing, StartFails, DownloadFails, MoveFails

\* A rewrite copies what the source held during the run.
LEMMA RewrittenNow ==
    ASSUME Full, NEW j \in Jobs, Ready(j)
    PROVE  Rewritten(j) \in held[Src(j)] \ {Nothing}
<1>a. /\ Src(j) \in Sources /\ opts.jobs[j] \in JobRecords
      /\ opts.jobs[j].src = Src(j)
  BY JobsTyped DEF Full, Inv, Src
<1>b. Rewritten(j) # Nothing /\ pc[j] \in {"checked", "rewriting"}
  BY DEF Ready
<1>1. CASE pc[j] = "rewriting"
  BY <1>1, <1>b DEF Full, FreshPinnedInv, Rewritten
<1>2. CASE pc[j] = "checked" /\ HasToken(j)
  <2>1. meta[j] # Nothing /\ meta[j] \in held[Src(j)]
    BY <1>2 DEF Full, Inv, ListedInv, FreshListedInv
  <2>2. tokens[opts.jobs[j]].pinned \in held[Src(j)]
    BY <1>a, <1>2, <2>1 DEF Full, FreshTokensInv, HasToken
  <2>. QED  BY <1>2, <1>b, <2>2 DEF Rewritten
<1>3. CASE pc[j] = "checked" /\ ~HasToken(j)
  <2>1. Rewritten(j) = source[Src(j)]
    BY <1>3 DEF Rewritten
  <2>. QED  BY <2>1, <1>a, <1>b DEF Full, HeldInv
<1>. QED  BY <1>1, <1>2, <1>3, <1>b

\* What a step of a job may do to its destination.
LEMMA DestFrame ==
    ASSUME Full, NEW j \in Jobs, Copy(j)
    PROVE  \/ dest' = dest /\ ~RewriteEnds(j) /\ ~Rename(j) /\ ~GetDownloadFile(j)
           \/ GetDownloadFile(j) /\ dest' = [dest EXCEPT ![Dst(j)] = Nothing]
           \/ /\ \E c \in held[Src(j)] \ {Nothing} : dest' = [dest EXCEPT ![Dst(j)] = c]
              /\ ~GetDownloadFile(j)
<1>a. TypeOK
  BY DEF Full, Inv
<1>1. CASE RewriteEnds(j) \/ RewriteUnanswered(j)
  <2>1. dest' = [dest EXCEPT ![Dst(j)] = Rewritten(j)] /\ Ready(j)
    BY <1>1 DEF RewriteEnds, RewriteUnanswered
  <2>2. ~GetDownloadFile(j)
    BY <2>1 DEF GetDownloadFile, Ready
  <2>. QED  BY <2>1, <2>2, RewrittenNow
<1>2. CASE Rename(j)
  <2>1. dest' = [dest EXCEPT ![Dst(j)] = meta[j]] /\ pc[j] = "open"
    BY <1>2 DEF Rename, Job
  <2>2. meta[j] \in held[Src(j)] \ {Nothing}
    BY <2>1 DEF Full, Inv, ListedInv, FreshListedInv
  <2>. QED  BY <2>1, <2>2 DEF GetDownloadFile, Job
<1>3. CASE GetDownloadFile(j)
  BY <1>3 DEF GetDownloadFile
<1>. QED  BY <1>a, <1>1, <1>2, <1>3, CopyFrame

\* The commands and jobs do not change.
LEMMA SameDelivery ==
    ASSUME Full, [Next]_vars
    PROVE  /\ opts' = opts /\ Jobs' = Jobs /\ OwnDests' = OwnDests
           /\ \A j \in Jobs : Src(j)' = Src(j) /\ Dst(j)' = Dst(j)
           /\ OwnRows' = OwnRows /\ Unshared' = Unshared
BY SameJobs DEF Full, Inv, OwnRows, Unshared

LEMMA HeldStep == Full /\ [Next]_vars => HeldInv'
<1>. SUFFICES ASSUME Full, [Next]_vars PROVE HeldInv'
  OBVIOUS
<1>a. /\ HeldInv /\ source \in [Sources -> Nat] /\ heldEver \in [Sources -> SUBSET Nat]
      /\ next \in Nat
  BY DEF Full, Inv, TypeOK
<1>b. ASSUME UNCHANGED <<source, held, heldEver, next>> PROVE HeldInv'
  BY <1>a, <1>b DEF HeldInv
<1>1. CASE Begin
  <2>1. UNCHANGED <<source, heldEver, next>> /\ held' = [s \in Sources |-> {source[s]}]
    BY <1>1 DEF Begin, files
  <2>. QED  BY <1>a, <2>1 DEF HeldInv
<1>2. ASSUME NEW j \in Jobs, Copy(j) PROVE HeldInv'
  <2>1. heldEver' = heldEver /\ held' = held /\ next' = next
    BY <1>2, CopyFrame, CopyCommandFrame DEF Full, Inv
  <2>2. source' = source \/ source' = [source EXCEPT ![Src(j)] = Nothing]
    BY <1>2, CopyFrame DEF Full, Inv, Move, MoveFails
  <2>3. \A s \in Sources : source'[s] \in {source[s], Nothing}
    BY <1>a, <2>2
  <2>4. \A s \in Sources : source[s] \in Nat /\ 0 < next
    BY <1>a DEF HeldInv
  <2>. QED  BY <1>a, <2>1, <2>3, <2>4 DEF HeldInv, Nothing
<1>3. CASE Finish \/ Crash \/ UNCHANGED vars
  BY <1>3, <1>b DEF Finish, Crash, vars, files, history
<1>4. CASE Change
  <2>1. next' = next + 1
    BY <1>4 DEF Change
  <2>2. ASSUME NEW s \in Sources, NEW c \in {Nothing, next},
               source' = [source EXCEPT ![s] = c], held' = [held EXCEPT ![s] = @ \cup {c}],
               heldEver' = [heldEver EXCEPT ![s] = @ \cup {c}]
        PROVE  HeldInv'
    <3>1. held' \in [Sources -> SUBSET Nat]
      BY <1>a, <2>2 DEF HeldInv, Nothing
    <3>2. ASSUME NEW t \in Sources
          PROVE  /\ source'[t] \in held'[t] \cup {Nothing} /\ source'[t] < next'
                 /\ held'[t] \subseteq heldEver'[t] \cup {Nothing}
      <4>1. CASE t = s
        <5>1. source'[t] = c /\ held'[t] = held[t] \cup {c} /\ heldEver'[t] = heldEver[t] \cup {c}
          BY <1>a, <2>2, <4>1 DEF HeldInv
        <5>2. c < next'
          BY <1>a, <2>1 DEF Nothing
        <5>. QED  BY <5>1, <5>2, <1>a DEF HeldInv
      <4>2. CASE t # s
        <5>1. source'[t] = source[t] /\ held'[t] = held[t] /\ heldEver'[t] = heldEver[t]
          BY <1>a, <2>2, <4>2 DEF HeldInv
        <5>2. source[t] < next'
          BY <1>a, <2>1 DEF HeldInv
        <5>. QED  BY <5>1, <5>2, <1>a DEF HeldInv
      <4>. QED  BY <4>1, <4>2
    <3>. QED  BY <3>1, <3>2 DEF HeldInv
  <2>3. ASSUME UNCHANGED <<source, held, heldEver>> PROVE HeldInv'
    <3>1. \A s \in Sources : source[s] < next'
      BY <1>a, <2>1 DEF HeldInv
    <3>. QED  BY <1>a, <2>3, <3>1 DEF HeldInv
  <2>. QED  BY <1>4, <2>2, <2>3 DEF Change
<1>. QED  BY <1>1, <1>2, <1>3, <1>4 DEF Next

\* What others write has a new number.
LEMMA ChangeFrame ==
    ASSUME Full, Change
    PROVE  /\ UNCHANGED <<temp, tokens, rows, opts, pc, meta, pinned, running, openFiles,
                          filter, failures, exit>>
           /\ next' = next + 1 /\ touched \subseteq touched' /\ intruded \subseteq intruded'
           /\ \A s \in Sources : /\ held[s] \subseteq held'[s] /\ heldEver[s] \subseteq heldEver'[s]
                                 /\ held'[s] \subseteq held[s] \cup {Nothing, next}
                                 /\ source'[s] \in {source[s], Nothing, next}
                                 /\ source'[s] # source[s] => s \in touched'
           /\ \A d \in Dests : dest'[d] # dest[d] => d \in intruded'
<1>1. /\ source \in [Sources -> Nat] /\ held \in [Sources -> SUBSET Nat]
      /\ heldEver \in [Sources -> SUBSET Nat] /\ dest \in [Dests -> Nat]
  BY DEF Full, Inv, TypeOK, HeldInv
<1>. QED  BY <1>1 DEF Change, job, process

LEMMA FreshTokensStep == Full /\ [Next]_vars => FreshTokensInv'
<1>. SUFFICES ASSUME Full, [Next]_vars PROVE FreshTokensInv'
  OBVIOUS
<1>a. /\ FreshTokensInv /\ HeldInv /\ source \in [Sources -> Nat] /\ next \in Nat
      /\ tokens \in [JobRecords -> [hash : Nat, pinned : Nat]]
      /\ \A k \in JobRecords : k.src \in Sources
  BY DEF Full, Inv, TypeOK, JobRecords
<1>b. ASSUME UNCHANGED <<source, held, tokens, next>> PROVE FreshTokensInv'
  BY <1>a, <1>b DEF FreshTokensInv
<1>1. CASE Begin
  <2>1. UNCHANGED <<source, tokens, next>> /\ held' = [s \in Sources |-> {source[s]}]
    BY <1>1 DEF Begin, files
  <2>. QED  BY <1>a, <2>1 DEF FreshTokensInv
<1>2. ASSUME NEW j \in Jobs, Copy(j) PROVE FreshTokensInv'
  <2>1. held' = held /\ next' = next
    BY <1>2, CopyCommandFrame DEF Full, Inv
  <2>2. source' = source \/ source' = [source EXCEPT ![Src(j)] = Nothing]
    BY <1>2, CopyFrame DEF Full, Inv, Move, MoveFails
  <2>3. \A s \in Sources : source'[s] \in {source[s], Nothing}
    BY <1>a, <2>2
  <2>4. CASE tokens' = tokens
    <3>. SUFFICES ASSUME NEW k \in JobRecords
                  PROVE  /\ tokens[k].hash < next
                         /\ tokens[k].hash # Nothing =>
                              /\ tokens[k].hash = source'[k.src] => tokens[k].pinned = source'[k.src]
                              /\ tokens[k].hash \in held[k.src] => tokens[k].pinned \in held[k.src]
      BY <2>1, <2>4 DEF FreshTokensInv
    <3>1. source'[k.src] \in {source[k.src], Nothing}
      BY <1>a, <2>3
    <3>. QED  BY <3>1, <1>a DEF FreshTokensInv
  <2>5. CASE RewriteBegins(j)
    <3> DEFINE k == opts.jobs[j]
    <3>1. k \in JobRecords /\ k.src = Src(j) /\ Src(j) \in Sources
      BY JobsTyped DEF Full, Inv, Src
    <3>2. /\ tokens' = [tokens EXCEPT ![k] = [hash |-> meta[j], pinned |-> Rewritten(j)]]
          /\ source' = source /\ pc[j] = "checked" /\ Ready(j)
      BY <2>5 DEF RewriteBegins
    <3>3. Rewritten(j) \in held[Src(j)]
      BY <3>2, RewrittenNow
    <3>4. meta[j] < next /\ meta[j] # Nothing
      BY <3>2 DEF Full, Inv, ListedInv, FreshListedInv
    <3>5. meta[j] = source[Src(j)] => Rewritten(j) = source[Src(j)]
      <4>1. CASE HasToken(j)
        <5>1. Rewritten(j) = tokens[k].pinned
          BY <3>2, <4>1 DEF Rewritten
        <5>2. tokens[k].hash = meta[j]
          BY <4>1 DEF HasToken
        <5>. QED  BY <5>1, <5>2, <3>1, <3>4, <1>a DEF FreshTokensInv
      <4>2. CASE ~HasToken(j)
        BY <3>2, <4>2 DEF Rewritten
      <4>. QED  BY <4>1, <4>2
    <3> HIDE DEF k
    <3>6. tokens'[k].hash = meta[j] /\ tokens'[k].pinned = Rewritten(j)
      BY <1>a, <3>1, <3>2
    <3>7. \A m \in JobRecords \ {k} : tokens'[m] = tokens[m]
      BY <1>a, <3>2
    <3>. QED  BY <1>a, <2>1, <3>1, <3>2, <3>3, <3>4, <3>5, <3>6, <3>7 DEF FreshTokensInv
  <2>6. CASE RewriteEnds(j)
    <3> DEFINE k == opts.jobs[j]
    <3>1. tokens' = [tokens EXCEPT ![k] = NoToken] /\ source' = source
      BY <2>6 DEF RewriteEnds
    <3>2. k \in JobRecords
      BY JobsTyped DEF Full, Inv
    <3> HIDE DEF k
    <3>3. tokens'[k].hash = Nothing /\ \A m \in JobRecords \ {k} : tokens'[m] = tokens[m]
      BY <1>a, <3>1, <3>2 DEF NoToken
    <3>4. Nothing < next
      <4>1. k.src \in Sources
        BY <1>a, <3>2
      <4>. QED  BY <4>1, <1>a DEF HeldInv, Nothing
    <3>. QED  BY <1>a, <2>1, <3>1, <3>3, <3>4 DEF FreshTokensInv
  <2>. QED  BY <1>2, <2>4, <2>5, <2>6, CopyFrame DEF Full, Inv
<1>3. CASE Finish \/ Crash \/ UNCHANGED vars
  BY <1>3, <1>b DEF Finish, Crash, vars, files, history
<1>4. CASE Change
  <2>. SUFFICES ASSUME NEW k \in JobRecords
                PROVE  /\ tokens[k].hash < next'
                       /\ tokens[k].hash # Nothing =>
                            /\ tokens[k].hash = source'[k.src] => tokens[k].pinned = source'[k.src]
                            /\ tokens[k].hash \in held'[k.src] => tokens[k].pinned \in held'[k.src]
    BY <1>4, ChangeFrame DEF FreshTokensInv
  <2>1. /\ tokens[k].hash \in Nat /\ tokens[k].hash < next /\ next' = next + 1
    BY <1>4, <1>a, ChangeFrame DEF FreshTokensInv
  <2>2. tokens[k].hash < next' /\ tokens[k].hash # next
    BY <2>1, <1>a
  <2>3. /\ held[k.src] \subseteq held'[k.src]
        /\ held'[k.src] \subseteq held[k.src] \cup {Nothing, next}
        /\ source'[k.src] \in {source[k.src], Nothing, next}
    BY <1>4, <1>a, ChangeFrame
  <2>. QED  BY <2>2, <2>3, <1>a DEF FreshTokensInv
<1>. QED  BY <1>1, <1>2, <1>3, <1>4 DEF Next

LEMMA FreshListedStep == Full /\ [Next]_vars => FreshListedInv' /\ FreshPinnedInv'
<1>. SUFFICES ASSUME Full, [Next]_vars PROVE FreshListedInv' /\ FreshPinnedInv'
  OBVIOUS
<1>a. /\ FreshListedInv /\ FreshPinnedInv /\ HeldInv /\ meta \in [Jobs -> Nat] /\ pinned \in [Jobs -> Nat]
      /\ next \in Nat /\ \A i \in Jobs : Src(i) \in Sources
  BY JobsTyped DEF Full, Inv, TypeOK
<1>b. Jobs' = Jobs /\ \A i \in Jobs : Src(i)' = Src(i)
  BY SameDelivery
<1>1. CASE Begin
  BY <1>1, <1>b DEF Begin, FreshListedInv, FreshPinnedInv
<1>2. ASSUME NEW j \in Jobs, Copy(j) PROVE FreshListedInv' /\ FreshPinnedInv'
  <2>1. held' = held /\ next' = next
    BY <1>2, CopyCommandFrame DEF Full, Inv
  <2>2. \A i \in Jobs \ {j} : meta'[i] = meta[i] /\ pinned'[i] = pinned[i] /\ pc'[i] \in {pc[i], "done"}
    BY <1>2, <1>a, CopyFrame, CopyControl DEF Full, Inv, List, RewriteBegins
  <2>3. pc'[j] \notin {"waiting", "done"} => meta'[j] \in held[Src(j)] /\ meta'[j] < next
    <3>1. CASE List(j)
      <4>1. meta'[j] = source[Src(j)] /\ source[Src(j)] # Nothing
        BY <3>1, <1>a DEF List
      <4>. QED  BY <4>1, <1>a DEF HeldInv
    <3>2. CASE Fail(j)
      BY <3>2, Failing DEF Full, Inv
    <3>3. CASE ~List(j) /\ ~Fail(j)
      <4>1. meta' = meta
        BY <1>2, <3>3, CopyFrame DEF Full, Inv
      <4>2. pc[j] \notin {"waiting", "done"}
        BY <1>2, <3>3, CopyControl, Failed DEF Full, Inv
      <4>. QED  BY <4>1, <4>2, <1>a DEF FreshListedInv
    <3>. QED  BY <3>1, <3>2, <3>3
  <2>4. pc'[j] = "rewriting" => pinned'[j] \in held[Src(j)]
    <3>1. CASE RewriteBegins(j)
      <4>1. pinned'[j] = Rewritten(j) /\ Ready(j)
        BY <3>1, <1>a DEF RewriteBegins
      <4>. QED  BY <4>1, RewrittenNow
    <3>2. CASE ~RewriteBegins(j)
      <4>1. pinned' = pinned /\ (pc'[j] = "rewriting" => pc[j] = "rewriting")
        BY <1>2, <3>2, CopyFrame, CopyControl DEF Full, Inv
      <4>. QED  BY <4>1, <1>a DEF FreshPinnedInv
    <3>. QED  BY <3>1, <3>2
  <2>5. FreshListedInv'
    BY <1>a, <1>b, <2>1, <2>2, <2>3 DEF FreshListedInv
  <2>6. FreshPinnedInv'
    BY <1>a, <1>b, <2>1, <2>2, <2>4 DEF FreshPinnedInv
  <2>. QED  BY <2>5, <2>6
<1>3. CASE Finish \/ UNCHANGED vars
  BY <1>3, <1>a, <1>b DEF Finish, vars, job, history, FreshListedInv, FreshPinnedInv
<1>4. CASE Crash
  BY <1>4, <1>b DEF Crash, FreshListedInv, FreshPinnedInv
<1>5. CASE Change
  <2>1. /\ UNCHANGED <<pc, meta, pinned>> /\ next' = next + 1
        /\ \A i \in Jobs : held[Src(i)] \subseteq held'[Src(i)]
    BY <1>5, <1>a, ChangeFrame
  <2>2. \A i \in Jobs : meta[i] < next => meta[i] < next'
    BY <1>a, <2>1
  <2>. QED  BY <1>a, <1>b, <2>1, <2>2 DEF FreshListedInv, FreshPinnedInv
<1>. QED  BY <1>1, <1>2, <1>3, <1>4, <1>5 DEF Next

-----------------------------------------------------------------------------
(* What a successful run leaves: the command.                              *)

LEMMA ExitStep == Full /\ [Next]_vars => ExitInv' /\ NoRowsInv'
<1>. SUFFICES ASSUME Full, [Next]_vars PROVE ExitInv' /\ NoRowsInv'
  OBVIOUS
<1>a. ExitInv /\ NoRowsInv /\ TypeOK
  BY DEF Full, Inv
<1>b. Jobs' = Jobs /\ opts' = opts
  BY SameDelivery
<1>1. CASE Begin
  BY <1>1, <1>a, <1>b DEF Begin, files, ExitInv, NoRowsInv
<1>2. ASSUME NEW j \in Jobs, Copy(j) PROVE ExitInv' /\ NoRowsInv'
  <2>1. /\ running /\ filter' = filter
        /\ Fail(j) \/ (running' = running /\ exit' = exit)
        /\ rows' = rows \/ opts.manifest
    BY <1>2, <1>a, CopyCommandFrame
  <2>2. CASE Fail(j)
    <3>1. (running' = running /\ exit' = exit) \/ (~running' /\ \A i \in Jobs : pc'[i] = "done")
      BY <2>2, <1>a, Failing
    <3>. QED  BY <3>1, <2>1, <1>a, <1>b DEF ExitInv, NoRowsInv
  <2>3. CASE ~Fail(j)
    BY <2>1, <2>3, <1>a, <1>b DEF ExitInv, NoRowsInv
  <2>. QED  BY <2>2, <2>3
<1>3. CASE Finish
  BY <1>3, <1>a, <1>b DEF Finish, files, job, ExitInv, NoRowsInv
<1>4. CASE Crash
  BY <1>4, <1>a, <1>b DEF Crash, files, ExitInv, NoRowsInv
<1>5. CASE Change
  BY <1>5, <1>a, <1>b, ChangeFrame DEF ExitInv, NoRowsInv
<1>6. CASE UNCHANGED vars
  BY <1>6, <1>a, <1>b DEF vars, files, job, process, ExitInv, NoRowsInv
<1>. QED  BY <1>1, <1>2, <1>3, <1>4, <1>5, <1>6 DEF Next

LEMMA TurnStep == Full /\ [Next]_vars => TurnInv'
<1>. SUFFICES ASSUME Full, [Next]_vars, ~opts.parallel PROVE TurnInv'
  BY SameDelivery DEF TurnInv
<1>a. TurnInv /\ TypeOK
  BY DEF Full, Inv
<1>b. Jobs' = Jobs /\ opts' = opts /\ Jobs \subseteq Nat
  BY SameDelivery, JobsTyped, <1>a
<1>c. ASSUME pc' = pc \/ \A i \in Jobs : pc'[i] \in {"waiting", "done"}
      PROVE  TurnInv'
  <2>1. CASE pc' = pc
    BY <2>1, <1>a, <1>b DEF TurnInv
  <2>2. CASE \A i \in Jobs : pc'[i] \in {"waiting", "done"}
    BY <2>2, <1>b DEF TurnInv
  <2>. QED  BY <1>c, <2>1, <2>2
<1>1. CASE Begin
  BY <1>1, <1>c DEF Begin
<1>2. ASSUME NEW j \in Jobs, Copy(j) PROVE TurnInv'
  <2>1. CASE Fail(j)
    <3>1. \A i \in Jobs : pc'[i] \in {pc[i], "done"}
      BY <2>1, <1>a, Failing
    <3>. QED  BY <3>1, <1>a, <1>b DEF TurnInv
  <2>2. CASE ~Fail(j)
    <3>1. \A i \in Jobs \ {j} : pc'[i] = pc[i]
      BY <1>2, <2>2, <1>a, Going
    <3>2. CASE Start(j)
      <4>1. Turn(j) /\ j \in Nat /\ pc[j] = "listed"
        BY <3>2, <1>b DEF Start, Job
      <4>2. \A i \in Jobs : i < j => pc[i] = "done"
        <5>1. ASSUME NEW i \in Jobs, i < j PROVE pc[i] = "done"
          <6>1. opts.jobs \in Seq(JobRecords)
            BY <1>a, CommandsAssumption DEF TypeOK
          <6>2. i \in 1..Len(opts.jobs)
            BY <6>1 DEF Jobs
          <6>3. i \in 1..j - 1
            BY <6>2, <5>1, <4>1
          <6>. QED  BY <6>3, <4>1 DEF Turn
        <5>. QED  BY <5>1
      <4>3. \A i \in Jobs : j < i => pc[i] \in {"waiting", "listed", "done"}
        BY <4>1, <1>a DEF TurnInv
      <4>4. ASSUME NEW i \in Jobs, NEW k \in Jobs, i < k,
                   pc'[k] \notin {"waiting", "listed", "done"}
            PROVE  pc'[i] = "done"
        <5>1. CASE k = j
          <6>1. i # j
            BY <4>4, <5>1, <4>1
          <6>. QED  BY <6>1, <5>1, <4>4, <4>2, <3>1
        <5>2. CASE k # j
          <6>1. pc[k] \notin {"waiting", "listed", "done"}
            BY <3>1, <4>4, <5>2
          <6>2. pc[i] = "done"
            BY <6>1, <4>4, <1>a DEF TurnInv
          <6>. QED  BY <6>2, <4>1, <3>1
        <5>. QED  BY <5>1, <5>2
      <4>. QED  BY <4>4, <1>b DEF TurnInv
    <3>3. CASE ~Start(j)
      <4>1. pc'[j] \notin {"waiting", "listed", "done"} => pc[j] \notin {"waiting", "listed", "done"}
        BY <1>2, <2>2, <3>3, <1>a, Going
      <4>2. pc[j] # "done"
        BY <1>2, <1>a, CopyControl
      <4>. QED  BY <3>1, <4>1, <4>2, <1>a, <1>b DEF TurnInv
    <3>. QED  BY <3>2, <3>3
  <2>. QED  BY <2>1, <2>2
<1>3. CASE Finish \/ Crash \/ Change \/ UNCHANGED vars
  BY <1>3, <1>c, ChangeFrame DEF Finish, Crash, vars, job
<1>. QED  BY <1>1, <1>2, <1>3 DEF Next

\* A job that is on its way has the turn: of two with the same destination,
\* one is not downloading.
LEMMA NotTwo ==
    ASSUME Full, Unshared, NEW i \in Jobs, NEW j \in Jobs, Dst(i) = Dst(j),
           opts.to = "file",
           pc[i] \notin {"waiting", "listed", "done"},
           pc[j] \notin {"waiting", "listed", "done"}
    PROVE  i = j
<1>1. i \in Nat /\ j \in Nat
  BY JobsTyped DEF Full, Inv
<1>2. CASE OwnDests
  BY <1>2 DEF OwnDests
<1>3. CASE ~opts.parallel
  <2>1. ~(i < j) /\ ~(j < i)
    BY <1>3 DEF Full, TurnInv
  <2>. QED  BY <2>1, <1>1
<1>. QED  BY <1>2, <1>3 DEF Unshared

\* The names that block a download are those of others on their way.
LEMMA NotOpen ==
    ASSUME Full, Unshared, running, failures = 0, NEW j \in Jobs, Open(j)
    PROVE  ~IsOpen(j)
<1>1. SUFFICES ASSUME IsOpen(j) PROVE FALSE
  OBVIOUS
<1>2. pc[j] = "file"
  BY DEF Open, Job
<1>3. PICK i \in Jobs : pc[i] \in Writing /\ Dst(i) = Dst(j)
  BY <1>1 DEF IsOpen, Full, OpenInv
<1>4. opts.to = "file"
  BY <1>2 DEF Full, Inv, DirectionInv
<1>5. i = j
  BY <1>2, <1>3, <1>4, NotTwo DEF Writing
<1>. QED  BY <1>2, <1>3, <1>5 DEF Writing

LEMMA OpenStep == Full /\ [Next]_vars => OpenInv'
<1>. SUFFICES ASSUME Full, [Next]_vars PROVE OpenInv'
  OBVIOUS
<1>a. OpenInv /\ TypeOK /\ OneWriter
  BY DEF Full, Inv
<1>b. Jobs' = Jobs /\ \A i \in Jobs : Dst(i)' = Dst(i)
  BY SameDelivery
<1>1. CASE Begin
  BY <1>1 DEF Begin, OpenInv
<1>2. ASSUME NEW j \in Jobs, Copy(j) PROVE OpenInv'
  <2>0. /\ Fail(j) \/ (failures' = failures /\ running' = running)
        /\ \/ openFiles' = openFiles
           \/ Open(j) /\ ~IsOpen(j) /\ openFiles' = openFiles \cup {Dst(j)}
           \/ Release(j) /\ openFiles' = openFiles \ {Dst(j)}
    BY <1>2, <1>a, CopyCommandFrame
  <2>1. CASE Fail(j)
    BY <2>1, <1>a, Failing DEF OpenInv
  <2>2. CASE ~Fail(j)
    <3>1. \A i \in Jobs \ {j} : pc'[i] = pc[i]
      BY <1>2, <2>2, <1>a, Going
    <3>. SUFFICES ASSUME running, failures = 0, NEW d \in openFiles'
                  PROVE  \E i \in Jobs : pc'[i] \in Writing /\ Dst(i) = d
      BY <2>0, <2>2, <1>b DEF OpenInv
    <3>2. CASE Open(j) /\ ~IsOpen(j)
      <4>1. pc'[j] = "open" /\ pc[j] = "file"
        BY <3>2, <1>a DEF Open, Step, TypeOK, Job
      <4>2. CASE d \in openFiles
        <5>1. PICK i \in Jobs : pc[i] \in Writing /\ Dst(i) = d
          BY <4>2 DEF Full, OpenInv
        <5>. QED  BY <5>1, <4>1, <3>1 DEF Writing
      <4>3. CASE d = Dst(j)
        BY <4>1, <4>3 DEF Writing
      <4>4. ~Release(j)
        BY <4>1 DEF Release, Job
      <4>. QED  BY <2>0, <4>2, <4>3, <4>4
    <3>3. CASE Release(j)
      <4>1. pc[j] = "renamed" /\ d \in openFiles \ {Dst(j)}
        BY <3>3, <2>0 DEF Release, Job
      <4>2. PICK i \in Jobs : pc[i] \in Writing /\ Dst(i) = d
        BY <4>1 DEF Full, OpenInv
      <4>. QED  BY <4>1, <4>2, <3>1
    <3>4. CASE ~(Open(j) /\ ~IsOpen(j)) /\ ~Release(j)
      <4>1. d \in openFiles
        BY <2>0, <3>4
      <4>2. PICK i \in Jobs : pc[i] \in Writing /\ Dst(i) = d
        BY <4>1 DEF Full, OpenInv
      <4>3. pc[j] \in Writing => pc'[j] \in Writing
        BY <1>2, <2>2, <3>4, <1>a, Going DEF Writing
      <4>. QED  BY <4>2, <4>3, <3>1
    <3>. QED  BY <3>2, <3>3, <3>4
  <2>. QED  BY <2>1, <2>2
<1>3. CASE Finish \/ Crash
  BY <1>3 DEF Finish, Crash, OpenInv
<1>4. CASE Change
  BY <1>4, <1>a, <1>b, ChangeFrame DEF OpenInv
<1>5. CASE UNCHANGED vars
  BY <1>5, <1>a, <1>b DEF vars, job, process, OpenInv
<1>. QED  BY <1>1, <1>2, <1>3, <1>4, <1>5 DEF Next

LEMMA MovedStep == Full /\ [Next]_vars => MovedInv'
<1>. SUFFICES ASSUME Full, [Next]_vars, opts.mv, OwnDests, ~opts.noClobber, ~opts.manifest,
                     exit' = "ok" \/ (running' /\ failures' = 0),
                     NEW i \in Jobs, pc'[i] = "done", Src(i) \notin touched'
              PROVE  source'[Src(i)] = Nothing
  BY SameDelivery DEF MovedInv
<1>a. /\ MovedInv /\ TypeOK /\ source \in [Sources -> Nat]
      /\ \A k \in Jobs : Src(k) \in Sources
  BY JobsTyped DEF Full, Inv, TypeOK
<1>b. ASSUME exit = "ok" \/ (running /\ failures = 0), pc[i] = "done", Src(i) \notin touched
      PROVE  source[Src(i)] = Nothing
  BY <1>a, <1>b DEF MovedInv
<1>1. CASE Begin
  BY <1>1 DEF Begin
<1>2. ASSUME NEW j \in Jobs, Copy(j) PROVE source'[Src(i)] = Nothing
  <2>0. /\ running /\ exit # "ok"
        /\ Fail(j) \/ (failures' = failures /\ running' = running /\ exit' = exit)
        /\ touched' = touched /\ (source' = source \/ Move(j) \/ MoveFails(j))
    BY <1>2, <1>a, CopyCommandFrame, CopyFrame DEF Full, ExitInv
  <2>1. ~Fail(j)
    <3>1. SUFFICES ASSUME Fail(j) PROVE FALSE
      OBVIOUS
    <3>2. failures' # 0 /\ exit' # "ok"
      BY <3>1, <2>0, <1>a, Failing
    <3>. QED  BY <3>2
  <2>2. failures = 0 /\ \A k \in Jobs \ {j} : pc'[k] = pc[k]
    BY <1>2, <2>0, <2>1, <1>a, Going
  <2>3. CASE Move(j)
    <3>1. source' = [source EXCEPT ![Src(j)] = Nothing] /\ pc'[j] = "done"
      BY <2>3, <1>a DEF Move, Step, TypeOK
    <3>2. CASE Src(i) = Src(j)
      BY <3>1, <3>2, <1>a
    <3>3. CASE Src(i) # Src(j)
      BY <3>1, <3>3, <2>0, <2>2, <1>a, <1>b
    <3>. QED  BY <3>2, <3>3
  <2>4. CASE ~Move(j)
    <3>1. source' = source
      BY <2>0, <2>1, <2>4, Failed
    <3>2. i # j
      <4>1. SUFFICES ASSUME i = j PROVE FALSE
        OBVIOUS
      <4>2. Start(j) \/ RewriteRejected(j) \/ (Open(j) /\ IsOpen(j)) \/ Record(j)
        BY <4>1, <1>2, <2>1, <2>4, <1>a, Going
      <4>3. ~Start(j)
        <5>1. filter = {}
          BY DEF Full, NoRowsInv
        <5>2. ASSUME Start(j) PROVE Step(j, "listed", "checked")
          BY <5>1, <5>2, Zenon DEF Start
        <5>3. ASSUME Start(j) PROVE pc'[j] = "checked"
          BY <5>2, <5>3, <1>a DEF Step, TypeOK
        <5>. QED  BY <4>1, <5>3
      <4>4. ~RewriteRejected(j)
        BY DEF RewriteRejected, Allowed
      <4>5. ~(Open(j) /\ IsOpen(j))
        BY <2>0, <2>2, NotOpen DEF Unshared
      <4>6. ~Record(j)
        <5>1. Record(j) => pc'[j] = "moving"
          BY <1>a DEF Record, Step, TypeOK
        <5>. QED  BY <4>1, <5>1
      <4>. QED  BY <4>2, <4>3, <4>4, <4>5, <4>6
    <3>. QED  BY <3>1, <3>2, <2>0, <2>2, <1>b
  <2>. QED  BY <2>3, <2>4
<1>3. CASE Finish
  <2>1. failures = 0
    BY <1>3, <1>a DEF Finish, TypeOK
  <2>. QED  BY <1>3, <2>1, <1>b DEF Finish, files, job, history
<1>4. CASE Crash
  BY <1>4 DEF Crash
<1>5. CASE Change
  <2>1. /\ UNCHANGED <<pc, running, failures, exit>> /\ touched \subseteq touched'
        /\ \A s \in Sources : source'[s] # source[s] => s \in touched'
    BY <1>5, ChangeFrame
  <2>. QED  BY <2>1, <1>a, <1>b
<1>6. CASE UNCHANGED vars
  BY <1>6, <1>b DEF vars, files, job, process, history
<1>. QED  BY <1>1, <1>2, <1>3, <1>4, <1>5, <1>6 DEF Next

-----------------------------------------------------------------------------
(* What a successful run leaves: the destinations.                         *)

\* What is good stays good unless a download begins to replace it, and what
\* a rewrite or a download has brought is good.
LEMMA GoodStep ==
    ASSUME Full, NEW j \in Jobs, Copy(j), NEW d \in Dests, opts' = opts
    PROVE  /\ Good(d) => Good(d)' \/ (GetDownloadFile(j) /\ Dst(j) = d)
           /\ EverGood(d) => EverGood(d)' \/ (GetDownloadFile(j) /\ Dst(j) = d)
           /\ (RewriteEnds(j) \/ Rename(j)) /\ Dst(j) = d => Good(d)' /\ EverGood(d)'
<1>a. /\ TypeOK /\ dest \in [Dests -> Nat] /\ Dst(j) \in Dests /\ Src(j) \in Sources
      /\ \A i \in Jobs : Src(i) \in Sources
  BY JobsTyped DEF Full, Inv, TypeOK
<1>b. /\ heldEver' = heldEver /\ held' = held /\ filter' = filter
      /\ Jobs' = Jobs /\ \A i \in Jobs : Src(i)' = Src(i) /\ Dst(i)' = Dst(i)
  BY <1>a, CopyFrame, CopyCommandFrame DEF Jobs, Src, Dst
<1>c. held[Src(j)] \subseteq heldEver[Src(j)] \cup {Nothing}
  BY <1>a DEF Full, HeldInv
<1>d. ASSUME dest'[d] = dest[d] PROVE Good(d)' = Good(d) /\ EverGood(d)' = EverGood(d)
  BY <1>b, <1>d DEF Good, EverGood, Now
<1>1. CASE dest' = dest /\ ~RewriteEnds(j) /\ ~Rename(j)
  BY <1>1, <1>d
<1>2. CASE GetDownloadFile(j) /\ dest' = [dest EXCEPT ![Dst(j)] = Nothing]
  <2>1. ~RewriteEnds(j) /\ ~Rename(j)
    BY <1>2 DEF GetDownloadFile, RewriteEnds, Rename, Ready, Job
  <2>2. Dst(j) # d => dest'[d] = dest[d]
    BY <1>2, <1>a
  <2>. QED  BY <2>1, <2>2, <1>2, <1>d
<1>3. CASE \E c \in held[Src(j)] \ {Nothing} : dest' = [dest EXCEPT ![Dst(j)] = c]
  <2>1. PICK c \in held[Src(j)] \ {Nothing} : dest' = [dest EXCEPT ![Dst(j)] = c]
    BY <1>3
  <2>2. CASE Dst(j) # d
    <3>1. dest'[d] = dest[d]
      BY <2>1, <2>2, <1>a
    <3>. QED  BY <3>1, <2>2, <1>d
  <2>3. CASE Dst(j) = d
    <3>1. dest'[d] = c /\ c # Nothing /\ c \in held[Src(j)] /\ c \in heldEver[Src(j)]
      BY <2>1, <2>3, <1>a, <1>c
    <3>2. Good(d)'
      BY <3>1, <2>3, <1>b DEF Good, Now
    <3>3. EverGood(d)'
      BY <3>1, <2>3, <1>b DEF EverGood
    <3>. QED  BY <3>2, <3>3
  <2>. QED  BY <2>2, <2>3
<1>. QED  BY <1>1, <1>2, <1>3, DestFrame

\* What was good in this run was good in some run.
LEMMA GoodIsEver == ASSUME Full, NEW d PROVE Good(d) => EverGood(d)
<1>1. \A i \in Jobs : Now(i) \ {Nothing} \subseteq heldEver[Src(i)]
  BY JobsTyped DEF Full, Inv, HeldInv, Now
<1>. QED  BY <1>1 DEF Good, EverGood

\* Skipping for -n, before the request or by its rejection, leaves what is
\* there.
LEMMA SkipGood ==
    ASSUME TypeOK, NEW j \in Jobs,
           (Start(j) /\ pc'[j] = "done" /\ Src(j) \notin filter) \/ RewriteRejected(j)
    PROVE  opts.noClobber /\ dest[Dst(j)] # Nothing /\ dest' = dest
<1>1. CASE RewriteRejected(j)
  BY <1>1 DEF RewriteRejected, Allowed
<1>2. CASE Start(j) /\ pc'[j] = "done" /\ Src(j) \notin filter
  <2>1. dest' = dest
    BY <1>2 DEF Start
  <2>2. (opts.noClobber /\ dest[Dst(j)] # Nothing) \/ Step(j, "listed", "checked")
    BY <1>2, Zenon DEF Start
  <2>3. ~Step(j, "listed", "checked")
    BY <1>2 DEF Step, TypeOK
  <2>. QED  BY <2>1, <2>2, <2>3
<1>. QED  BY <1>1, <1>2

\* A row is for a source whose destination is good.
LEMMA RowGood ==
    ASSUME Full, OwnRows, Unshared, NEW j \in Jobs, Copy(j), rows' # rows,
           NEW d \in Dests, d = Dst(j), d \notin intruded, opts' = opts
    PROVE  EverGood(d)' /\ rows' = rows \cup {Src(j)} /\ pc'[j] \in {"moving", "done"}
<1>a. TypeOK
  BY DEF Full, Inv
<1>b. /\ rows' = rows \cup {Src(j)} /\ (Start(j) \/ RewriteRejected(j) \/ Record(j))
  BY <1>a, CopyCommandFrame
<1>1. CASE Record(j)
  <2>1. pc[j] = "copied" /\ ~GetDownloadFile(j) /\ pc'[j] \in {"moving", "done"}
    BY <1>1, <1>a DEF Record, Job, GetDownloadFile, Step, TypeOK
  <2>2. EverGood(d)
    BY <2>1 DEF Full, EverInv
  <2>. QED  BY <1>b, <2>1, <2>2, GoodStep
<1>2. CASE RewriteRejected(j)
  <2>1. opts.noClobber /\ dest'[d] # Nothing
    BY <1>2, <1>a, SkipGood
  <2>2. pc'[j] = "done"
    BY <1>2, <1>a DEF RewriteRejected, Skip, TypeOK
  <2>. QED  BY <1>b, <2>1, <2>2 DEF EverGood
<1>3. CASE Start(j)
  <2>1. /\ Src(j) \notin filter /\ opts.noClobber /\ dest[Dst(j)] # Nothing
        /\ Step(j, "listed", "done")
    BY <1>3, Zenon DEF Start
  <2>2. pc'[j] = "done"
    BY <2>1, <1>a DEF Step, TypeOK
  <2>3. opts.noClobber /\ dest'[d] # Nothing
    BY <1>3, <1>a, <2>1, <2>2, SkipGood
  <2>. QED  BY <1>b, <2>2, <2>3 DEF EverGood
<1>. QED  BY <1>b, <1>1, <1>2, <1>3

LEMMA RowedStep == Full /\ [Next]_vars => RowedInv'
<1>. SUFFICES ASSUME Full, [Next]_vars, OwnRows PROVE RowedInv'
  BY SameDelivery DEF RowedInv
<1>a. RowedInv /\ TypeOK /\ NoRowsInv
  BY DEF Full, Inv
<1>b. Jobs' = Jobs /\ opts' = opts /\ \A i \in Jobs : Src(i)' = Src(i)
  BY SameDelivery
<1>1. CASE Begin
  <2>1. filter' = rows /\ rows' = rows /\ \A i \in Jobs : pc'[i] = "waiting"
    BY <1>1, <1>b DEF Begin, files
  <2>. QED  BY <2>1, <1>b DEF RowedInv, Active
<1>2. ASSUME NEW j \in Jobs, Copy(j) PROVE RowedInv'
  <2>0. /\ running /\ filter' = filter
        /\ \/ rows' = rows
           \/ /\ opts.manifest /\ rows' = rows \cup {Src(j)}
              /\ Start(j) \/ RewriteRejected(j) \/ Record(j)
    BY <1>2, <1>a, CopyCommandFrame
  <2>1. \A i \in Jobs \ {j} : pc'[i] \in {pc[i], "done"}
    BY <1>2, <1>a, CopyControl
  <2>2. \A i \in Jobs \ {j} : Src(i) \in rows' => Src(i) \in rows
    BY <2>0 DEF OwnRows
  <2>3. /\ pc'[j] \in Active => Src(j) \notin rows'
        /\ pc'[j] \in {"waiting", "listed"} /\ Src(j) \in rows' => Src(j) \in filter
    <3>1. CASE Fail(j)
      BY <3>1, <1>a, Failing DEF Active
    <3>2. CASE Start(j)
      <4>1. \/ Step(j, "listed", "done")
            \/ Step(j, "listed", "checked") /\ rows' = rows /\ Src(j) \notin filter
        BY <3>2, Zenon DEF Start
      <4>2. CASE Step(j, "listed", "done")
        <5>1. pc'[j] = "done"
          BY <4>2, <1>a DEF Step, TypeOK
        <5>. QED  BY <5>1 DEF Active
      <4>3. CASE Step(j, "listed", "checked") /\ rows' = rows /\ Src(j) \notin filter
        <5>1. pc[j] = "listed" /\ pc'[j] = "checked"
          BY <4>3, <1>a DEF Step, TypeOK
        <5>2. Src(j) \notin rows
          BY <4>3, <5>1, <2>0, <1>a DEF RowedInv
        <5>. QED  BY <4>3, <5>1, <5>2
      <4>. QED  BY <4>1, <4>2, <4>3
    <3>3. CASE List(j)
      <4>1. pc[j] = "waiting" /\ pc'[j] = "listed" /\ rows' = rows
        BY <3>3, <1>a DEF List, Step, TypeOK, files
      <4>. QED  BY <4>1, <2>0, <1>a DEF RowedInv, Active
    <3>4. CASE RewriteRejected(j) \/ Record(j)
      <4>1. pc'[j] \in {"moving", "done"}
        BY <3>4, <1>a DEF RewriteRejected, Skip, Record, Step, TypeOK
      <4>. QED  BY <4>1 DEF Active
    <3>5. CASE ~Fail(j) /\ ~Start(j) /\ ~List(j) /\ ~RewriteRejected(j) /\ ~Record(j)
      <4>1. rows' = rows
        BY <2>0, <3>5
      <4>2. pc'[j] = "done" \/ (pc[j] \in Active /\ pc'[j] \in Active)
        BY <1>2, <3>5, <1>a, Going DEF Active
      <4>. QED  BY <4>1, <4>2, <2>0, <1>a DEF RowedInv, Active
    <3>. QED  BY <3>1, <3>2, <3>3, <3>4, <3>5
  <2>4. filter \subseteq rows'
    BY <2>0, <1>a DEF RowedInv
  <2>. QED  BY <2>0, <2>1, <2>2, <2>3, <2>4, <1>a, <1>b DEF RowedInv, Active
<1>3. CASE Finish \/ Crash
  BY <1>3 DEF Finish, Crash, RowedInv
<1>4. CASE Change
  BY <1>4, <1>a, <1>b, ChangeFrame DEF RowedInv
<1>5. CASE UNCHANGED vars
  BY <1>5, <1>a, <1>b DEF vars, files, job, process, RowedInv
<1>. QED  BY <1>1, <1>2, <1>3, <1>4, <1>5 DEF Next

LEMMA EverStep == Full /\ [Next]_vars => EverInv'
<1>. SUFFICES ASSUME Full, [Next]_vars, OwnRows, Unshared, NEW i \in Jobs, NEW d \in Dests,
                     d = Dst(i), d \notin intruded'
              PROVE  /\ pc'[i] \in {"renamed", "copied"} => EverGood(d)'
                     /\ Src(i) \in rows' => EverGood(d)' \/ Unrowed(d)'
  BY SameDelivery DEF EverInv
<1>a. /\ EverInv /\ TypeOK /\ heldEver \in [Sources -> SUBSET Nat]
      /\ \A k \in Jobs : Src(k) \in Sources
  BY JobsTyped DEF Full, Inv, TypeOK
<1>b. /\ Jobs' = Jobs /\ opts' = opts
      /\ \A k \in Jobs : Src(k)' = Src(k) /\ Dst(k)' = Dst(k)
  BY SameDelivery
<1>c. ASSUME rows' = rows, dest'[d] = dest[d],
             \A k \in Jobs : heldEver[Src(k)] \subseteq heldEver'[Src(k)],
             d \notin intruded, pc'[i] \in {pc[i], "waiting", "done"}
      PROVE  /\ pc'[i] \in {"renamed", "copied"} => EverGood(d)'
             /\ Src(i) \in rows' => EverGood(d)' \/ Unrowed(d)'
  <2>1. EverGood(d) => EverGood(d)'
    BY <1>b, <1>c DEF EverGood
  <2>2. Unrowed(d) => Unrowed(d)'
    BY <1>b, <1>c DEF Unrowed
  <2>. QED  BY <1>a, <1>c, <2>1, <2>2 DEF EverInv
<1>1. CASE Begin
  BY <1>1, <1>b, <1>c DEF Begin, files
<1>2. ASSUME NEW j \in Jobs, Copy(j)
      PROVE  /\ pc'[i] \in {"renamed", "copied"} => EverGood(d)'
             /\ Src(i) \in rows' => EverGood(d)' \/ Unrowed(d)'
  <2>0. /\ running /\ intruded' = intruded /\ d \notin intruded
        /\ \/ rows' = rows
           \/ opts.manifest /\ rows' = rows \cup {Src(j)}
    BY <1>2, <1>a, CopyFrame, CopyCommandFrame
  <2>1. EverGood(d) => EverGood(d)' \/ (GetDownloadFile(j) /\ Dst(j) = d)
    BY <1>2, <1>b, GoodStep
  <2>2. ASSUME pc'[i] \in {"renamed", "copied"} PROVE EverGood(d)'
    <3>1. CASE i = j
      <4>1. ~Fail(j)
        BY <3>1, <2>2, <1>a, Failing
      <4>2. RewriteEnds(j) \/ Rename(j) \/ (Release(j) /\ pc[j] = "renamed")
        BY <4>1, <3>1, <2>2, <1>2, <1>a, Going
      <4>3. CASE RewriteEnds(j) \/ Rename(j)
        BY <4>3, <3>1, <1>2, <1>b, GoodStep
      <4>4. CASE Release(j) /\ pc[j] = "renamed"
        <5>1. EverGood(d) /\ ~GetDownloadFile(j)
          BY <4>4, <3>1, <2>0, <1>a DEF EverInv, GetDownloadFile, Job
        <5>. QED  BY <5>1, <2>1
      <4>. QED  BY <4>2, <4>3, <4>4
    <3>2. CASE i # j
      <4>1. pc[i] \in {"renamed", "copied"}
        BY <3>2, <2>2, <1>2, <1>a, CopyControl
      <4>2. EverGood(d)
        BY <4>1, <2>0, <1>a DEF EverInv
      <4>3. ~(GetDownloadFile(j) /\ Dst(j) = d)
        <5>1. SUFFICES ASSUME GetDownloadFile(j), Dst(j) = d PROVE FALSE
          OBVIOUS
        <5>2. pc[j] = "checked" /\ opts.to = "file"
          BY <5>1 DEF GetDownloadFile, Job
        <5>. QED  BY <5>1, <5>2, <4>1, <3>2, NotTwo
      <4>. QED  BY <4>2, <4>3, <2>1
    <3>. QED  BY <3>1, <3>2
  <2>3. ASSUME Src(i) \in rows' PROVE EverGood(d)' \/ Unrowed(d)'
    <3>1. CASE rows' = rows
      <4>1. EverGood(d) \/ Unrowed(d)
        BY <3>1, <2>3, <2>0, <1>a DEF EverInv
      <4>2. Unrowed(d) => Unrowed(d)'
        BY <3>1, <1>b DEF Unrowed
      <4>3. GetDownloadFile(j) /\ Dst(j) = d => Unrowed(d)'
        <5>1. SUFFICES ASSUME GetDownloadFile(j), Dst(j) = d PROVE Unrowed(d)'
          OBVIOUS
        <5>2. pc[j] = "checked"
          BY <5>1 DEF GetDownloadFile, Job
        <5>3. Src(j) \notin rows
          BY <5>2, <2>0 DEF Full, RowedInv, Active
        <5>. QED  BY <5>1, <5>3, <3>1, <1>b DEF Unrowed
      <4>. QED  BY <4>1, <4>2, <4>3, <2>1
    <3>2. CASE rows' # rows
      <4>1. opts.manifest /\ rows' = rows \cup {Src(j)}
        BY <3>2, <2>0
      <4>2. CASE Dst(j) = d
        BY <4>2, <3>2, <2>0, <1>2, <1>b, RowGood
      <4>3. CASE Dst(j) # d
        <5>1. \A k \in Jobs : Dst(k) = d => (Src(k) \in rows' => Src(k) \in rows)
          BY <4>1, <4>3 DEF OwnRows
        <5>2. Src(i) \in rows
          BY <5>1, <2>3
        <5>3. EverGood(d) \/ Unrowed(d)
          BY <5>2, <2>0, <1>a DEF EverInv
        <5>4. Unrowed(d) => Unrowed(d)'
          BY <5>1, <1>b DEF Unrowed
        <5>. QED  BY <5>3, <5>4, <4>3, <2>1
      <4>. QED  BY <4>2, <4>3
    <3>. QED  BY <3>1, <3>2
  <2>. QED  BY <2>2, <2>3
<1>3. CASE Finish
  BY <1>3, <1>c DEF Finish, files, job, history
<1>4. CASE Crash
  BY <1>4, <1>c, <1>b DEF Crash, files, history
<1>5. CASE Change
  <2>1. /\ UNCHANGED <<rows, pc>> /\ intruded \subseteq intruded'
        /\ \A s \in Sources : heldEver[s] \subseteq heldEver'[s]
        /\ \A e \in Dests : dest'[e] # dest[e] => e \in intruded'
    BY <1>5, ChangeFrame
  <2>. QED  BY <2>1, <1>a, <1>c
<1>6. CASE UNCHANGED vars
  BY <1>6, <1>c DEF vars, files, job, history
<1>. QED  BY <1>1, <1>2, <1>3, <1>4, <1>5, <1>6 DEF Next

LEMMA DoneStep == Full /\ [Next]_vars => DoneInv'
<1>. SUFFICES ASSUME Full, [Next]_vars, OwnRows, Unshared, running', failures' = 0,
                     NEW i \in Jobs, NEW d \in Dests, d = Dst(i), d \notin intruded'
              PROVE  /\ pc'[i] \in {"renamed", "copied", "moving"} => Good(d)' \/ Replacing(d)'
                     /\ pc'[i] = "done" /\ Src(i) \notin filter' => Good(d)' \/ Replacing(d)'
                     /\ Src(i) \in filter' => Good(d)' \/ Replacing(d)' \/ ToCopy(d)'
  BY SameDelivery DEF DoneInv
<1>a. /\ DoneInv /\ TypeOK /\ \A k \in Jobs : Src(k) \in Sources
  BY JobsTyped DEF Full, Inv
<1>b. /\ Jobs' = Jobs /\ opts' = opts
      /\ \A k \in Jobs : Src(k)' = Src(k) /\ Dst(k)' = Dst(k)
  BY SameDelivery
<1>1. CASE Begin
  <2>1. /\ filter' = rows /\ rows' = rows /\ dest' = dest /\ heldEver' = heldEver
        /\ intruded' = intruded /\ \A k \in Jobs : pc'[k] = "waiting"
    BY <1>1, <1>b DEF Begin, files
  <2>2. Src(i) \in rows => EverGood(d) \/ Unrowed(d)
    BY <2>1 DEF Full, EverInv
  <2>3. Unrowed(d) => ToCopy(d)'
    BY <2>1, <1>b DEF Unrowed, ToCopy
  <2>4. EverGood(d) => Good(d)' \/ ToCopy(d)'
    <3>1. CASE opts.noClobber
      BY <3>1, <2>1, <1>b DEF EverGood, Good
    <3>2. CASE ~opts.noClobber
      <4>1. SUFFICES ASSUME EverGood(d) PROVE Good(d)' \/ ToCopy(d)'
        OBVIOUS
      <4>2. PICK k \in Jobs : Dst(k) = d /\ dest[d] \in heldEver[Src(k)] \ {Nothing}
        BY <3>2, <4>1 DEF EverGood
      <4>3. CASE Src(k) \in rows
        BY <3>2, <4>2, <4>3, <2>1, <1>b DEF Good, Now
      <4>4. CASE Src(k) \notin rows
        BY <4>2, <4>4, <2>1, <1>b DEF ToCopy
      <4>. QED  BY <4>3, <4>4
    <3>. QED  BY <3>1, <3>2
  <2>. QED  BY <2>1, <2>2, <2>3, <2>4
<1>2. ASSUME NEW j \in Jobs, Copy(j)
      PROVE  /\ pc'[i] \in {"renamed", "copied", "moving"} => Good(d)' \/ Replacing(d)'
             /\ pc'[i] = "done" /\ Src(i) \notin filter' => Good(d)' \/ Replacing(d)'
             /\ Src(i) \in filter' => Good(d)' \/ Replacing(d)' \/ ToCopy(d)'
  <2>0. /\ running /\ intruded' = intruded /\ d \notin intruded /\ filter' = filter
        /\ Fail(j) \/ failures' = failures
    BY <1>2, <1>a, CopyFrame, CopyCommandFrame
  <2>1. ~Fail(j) /\ failures = 0
    BY <2>0, <1>a, Failing
  <2>2. \A k \in Jobs \ {j} : pc'[k] = pc[k]
    BY <1>2, <2>1, <1>a, Going
  <2>3. ~(Open(j) /\ IsOpen(j))
    BY <2>0, <2>1, NotOpen
  <2>4. Good(d) => Good(d)' \/ Replacing(d)'
    <3>1. GetDownloadFile(j) /\ Dst(j) = d => Replacing(d)'
      <4>1. GetDownloadFile(j) => pc'[j] = "unlinked"
        BY <1>a DEF GetDownloadFile, Step, TypeOK
      <4>. QED  BY <4>1, <1>b DEF Replacing
    <3>. QED  BY <3>1, <1>2, <1>b, GoodStep
  <2>5. Replacing(d) => Good(d)' \/ Replacing(d)'
    <3>1. SUFFICES ASSUME NEW k \in Jobs, Dst(k) = d, pc[k] \in {"unlinked", "file", "open"}
                   PROVE  Good(d)' \/ Replacing(d)'
      BY DEF Replacing
    <3>2. CASE k # j
      BY <3>1, <3>2, <2>2, <1>b DEF Replacing
    <3>3. CASE k = j
      <4>1. \/ Rename(j) \/ pc'[j] = "file"
            \/ Open(j) /\ pc'[j] = IF IsOpen(j) THEN "done" ELSE "open"
        BY <3>1, <3>3, <1>2, <2>1, <1>a, Going
      <4>2. CASE Rename(j)
        BY <4>2, <3>1, <3>3, <1>2, <1>b, GoodStep
      <4>3. CASE pc'[j] \in {"file", "open"}
        BY <4>3, <3>1, <3>3, <1>b DEF Replacing
      <4>. QED  BY <4>1, <4>2, <4>3, <2>3
    <3>. QED  BY <3>2, <3>3
  <2>6. ASSUME \/ Start(j) /\ pc'[j] = "done" /\ Src(j) \notin filter
               \/ RewriteRejected(j),
               Dst(j) = d
        PROVE  Good(d)'
    BY <2>6, <1>a, <1>b, SkipGood DEF Good
  <2>7. ToCopy(d) => Good(d)' \/ Replacing(d)' \/ ToCopy(d)'
    <3>1. SUFFICES ASSUME NEW k \in Jobs, Dst(k) = d, Src(k) \notin filter,
                          pc[k] \in {"waiting", "listed", "checked", "rewriting"}
                   PROVE  Good(d)' \/ Replacing(d)' \/ ToCopy(d)'
      BY DEF ToCopy
    <3>2. CASE k # j
      BY <3>1, <3>2, <2>0, <2>2, <1>b DEF ToCopy
    <3>3. CASE k = j
      <4>1. \/ pc'[j] \in {"listed", "checked", "rewriting"}
            \/ Start(j) /\ pc'[j] = "done"
            \/ RewriteEnds(j) \/ RewriteRejected(j)
            \/ GetDownloadFile(j) /\ pc'[j] = "unlinked"
        BY <3>1, <3>3, <1>2, <2>1, <1>a, Going
      <4>2. CASE pc'[j] \in {"listed", "checked", "rewriting"}
        BY <4>2, <3>1, <3>3, <2>0, <1>b DEF ToCopy
      <4>3. CASE (Start(j) /\ pc'[j] = "done") \/ RewriteRejected(j)
        BY <4>3, <3>1, <3>3, <2>6
      <4>4. CASE RewriteEnds(j)
        BY <4>4, <3>1, <3>3, <1>2, <1>b, GoodStep
      <4>5. CASE GetDownloadFile(j) /\ pc'[j] = "unlinked"
        BY <4>5, <3>1, <3>3, <1>b DEF Replacing
      <4>. QED  BY <4>1, <4>2, <4>3, <4>4, <4>5
    <3>. QED  BY <3>2, <3>3
  <2>8. ASSUME \/ pc'[i] \in {"renamed", "copied", "moving"}
               \/ pc'[i] = "done" /\ Src(i) \notin filter
        PROVE  Good(d)' \/ Replacing(d)'
    <3>1. CASE pc'[i] = pc[i]
      <4>1. Good(d) \/ Replacing(d)
        BY <3>1, <2>8, <2>0, <2>1, <1>a DEF DoneInv
      <4>. QED  BY <4>1, <2>4, <2>5
    <3>2. CASE pc'[i] # pc[i]
      <4>1. i = j
        BY <3>2, <2>2
      <4>2. \/ Start(j) /\ pc'[j] = "done"
            \/ RewriteEnds(j) \/ RewriteRejected(j) \/ Rename(j)
            \/ pc[j] \in {"renamed", "copied", "moving"}
        BY <4>1, <2>8, <3>2, <1>2, <2>1, <2>3, <1>a, Going
      <4>3. CASE (Start(j) /\ pc'[j] = "done") \/ RewriteRejected(j)
        <5>1. CASE RewriteRejected(j)
          BY <5>1, <4>1, <2>6
        <5>2. CASE Start(j) /\ pc'[j] = "done"
          BY <5>2, <4>1, <2>6, <2>8
        <5>. QED  BY <4>3, <5>1, <5>2
      <4>4. CASE RewriteEnds(j) \/ Rename(j)
        BY <4>4, <4>1, <1>2, <1>b, GoodStep
      <4>5. CASE pc[j] \in {"renamed", "copied", "moving"}
        <5>1. Good(d) \/ Replacing(d)
          BY <4>1, <4>5, <2>0, <2>1, <1>a DEF DoneInv
        <5>. QED  BY <5>1, <2>4, <2>5
      <4>. QED  BY <4>2, <4>3, <4>4, <4>5
    <3>. QED  BY <3>1, <3>2
  <2>9. ASSUME Src(i) \in filter PROVE Good(d)' \/ Replacing(d)' \/ ToCopy(d)'
    <3>1. Good(d) \/ Replacing(d) \/ ToCopy(d)
      BY <2>9, <2>0, <2>1, <1>a DEF DoneInv
    <3>. QED  BY <3>1, <2>4, <2>5, <2>7
  <2>. QED  BY <2>0, <2>8, <2>9
<1>c. ASSUME UNCHANGED <<pc, running, failures, filter>>, dest'[d] = dest[d], d \notin intruded,
             \A k \in Jobs : /\ heldEver[Src(k)] \subseteq heldEver'[Src(k)]
                             /\ held[Src(k)] \subseteq held'[Src(k)]
      PROVE  /\ pc'[i] \in {"renamed", "copied", "moving"} => Good(d)' \/ Replacing(d)'
             /\ pc'[i] = "done" /\ Src(i) \notin filter' => Good(d)' \/ Replacing(d)'
             /\ Src(i) \in filter' => Good(d)' \/ Replacing(d)' \/ ToCopy(d)'
  <2>1. Good(d) => Good(d)'
    BY <1>b, <1>c DEF Good, Now
  <2>2. (Replacing(d) => Replacing(d)') /\ (ToCopy(d) => ToCopy(d)')
    BY <1>b, <1>c DEF Replacing, ToCopy
  <2>. QED  BY <1>a, <1>c, <2>1, <2>2 DEF DoneInv
<1>3. CASE Finish \/ Crash
  BY <1>3 DEF Finish, Crash
<1>4. CASE Change
  <2>1. /\ UNCHANGED <<pc, running, failures, filter>> /\ intruded \subseteq intruded'
        /\ \A s \in Sources : held[s] \subseteq held'[s] /\ heldEver[s] \subseteq heldEver'[s]
        /\ \A e \in Dests : dest'[e] # dest[e] => e \in intruded'
    BY <1>4, ChangeFrame
  <2>. QED  BY <2>1, <1>a, <1>c
<1>5. CASE UNCHANGED vars
  BY <1>5, <1>c DEF vars, files, job, process, history
<1>. QED  BY <1>1, <1>2, <1>3, <1>4, <1>5 DEF Next

LEMMA OkStep == Full /\ [Next]_vars => OkInv'
<1>. SUFFICES ASSUME Full, [Next]_vars, OwnRows, Unshared, exit' = "ok",
                     NEW i \in Jobs, NEW d \in Dests, d = Dst(i), d \notin intruded'
              PROVE  Good(d)'
  BY SameDelivery DEF OkInv
<1>a. TypeOK /\ \A k \in Jobs : Src(k) \in Sources
  BY JobsTyped DEF Full, Inv
<1>b. /\ Jobs' = Jobs /\ opts' = opts
      /\ \A k \in Jobs : Src(k)' = Src(k) /\ Dst(k)' = Dst(k)
  BY SameDelivery
<1>c. ASSUME filter' = filter, dest'[d] = dest[d],
             \A k \in Jobs : /\ heldEver[Src(k)] \subseteq heldEver'[Src(k)]
                             /\ held[Src(k)] \subseteq held'[Src(k)]
      PROVE  Good(d) => Good(d)'
  BY <1>b, <1>c DEF Good, Now
<1>1. CASE Begin
  BY <1>1 DEF Begin
<1>2. ASSUME NEW j \in Jobs, Copy(j) PROVE FALSE
  <2>1. running /\ (Fail(j) \/ exit' = exit)
    BY <1>2, <1>a, CopyCommandFrame
  <2>2. exit = "none"
    BY <2>1 DEF Full, ExitInv
  <2>. QED  BY <2>1, <2>2, <1>a, Failing
<1>3. CASE Finish
  <2>1. /\ failures = 0 /\ running /\ \A k \in Jobs : pc[k] = "done"
        /\ UNCHANGED <<filter, dest, held, heldEver, intruded>>
    BY <1>3, <1>a DEF Finish, TypeOK, files, history
  <2>2. ~Replacing(d) /\ ~ToCopy(d)
    BY <2>1 DEF Replacing, ToCopy
  <2>3. Good(d)
    BY <2>1, <2>2 DEF Full, DoneInv
  <2>. QED  BY <2>1, <2>3, <1>c
<1>4. CASE Crash
  BY <1>4 DEF Crash
<1>5. CASE Change
  <2>1. /\ UNCHANGED <<exit, filter>> /\ intruded \subseteq intruded'
        /\ \A s \in Sources : held[s] \subseteq held'[s] /\ heldEver[s] \subseteq heldEver'[s]
        /\ \A e \in Dests : dest'[e] # dest[e] => e \in intruded'
    BY <1>5, ChangeFrame
  <2>2. Good(d)
    BY <2>1 DEF Full, OkInv
  <2>. QED  BY <2>1, <2>2, <1>a, <1>c
<1>6. CASE UNCHANGED vars
  <2>1. UNCHANGED <<exit, filter, dest, held, heldEver, intruded>>
    BY <1>6 DEF vars, files, process, history
  <2>2. Good(d)
    BY <2>1 DEF Full, OkInv
  <2>. QED  BY <2>1, <2>2, <1>c
<1>. QED  BY <1>1, <1>2, <1>3, <1>4, <1>5, <1>6 DEF Next

-----------------------------------------------------------------------------
(* The theorems.                                                           *)

\* The invariant holds to begin with: no job is on its way.
LEMMA InvInit == Init => Inv
<1>. SUFFICES ASSUME Init PROVE Inv
  OBVIOUS
<1>1. TypeOK
  BY TypeInit
<1>2. pc = [j \in Jobs |-> "done"] /\ touched = {}
  BY DEF Init
<1>3. heldEver = [s \in Sources |-> {source[s]}]
  BY DEF Init
<1>4. OneWriter /\ ListedInv /\ PinnedInv /\ DirectionInv /\ CopiedInv
  BY <1>2 DEF OneWriter, ListedInv, PinnedInv, DirectionInv, CopiedInv, Writing
<1>5. SourcesInv /\ GoneInv
  BY <1>3 DEF SourcesInv, GoneInv
<1>6. TokensInv
  BY DEF TokensInv, Init, NoToken
<1>. QED
  BY <1>1, <1>4, <1>5, <1>6 DEF Inv

\* The invariant is inductive.
LEMMA InvStep == Inv /\ [Next]_vars => Inv'
<1>. SUFFICES ASSUME Inv, [Next]_vars PROVE Inv'
  OBVIOUS
<1>1. TypeOK' /\ OneWriter'
  BY TypeStep, OneWriterStep DEF Inv
<1>2. SourcesInv' /\ TokensInv' /\ ListedInv' /\ PinnedInv'
  BY SourcesStep, TokensStep, ListedStep, PinnedStep
<1>3. DirectionInv' /\ CopiedInv' /\ GoneInv'
  BY DirectionStep, CopiedStep, GoneStep
<1>. QED
  BY <1>1, <1>2, <1>3 DEF Inv

\* The inductive invariant holds in every reachable state.
LEMMA Invariance == Spec => []Inv
BY InvInit, InvStep, PTL DEF Spec

\* Every variable keeps its type in every run of cp and mv.
THEOREM TypesHold == Spec => []TypeOK
<1>1. Inv => TypeOK
  BY DEF Inv
<1>. QED
  BY <1>1, Invariance, PTL

\* open_files_map (copy_helper.py:3096-3099) gives a temporary file to one
\* download at a time, whatever the order of workers, failures and restarts.
THEOREM OneWriterHolds == Spec => []OneWriter
<1>1. Inv => OneWriter
  BY DEF Inv
<1>. QED
  BY <1>1, Invariance, PTL

\* mv loses nothing, for all numbers of sources, destinations, runs, failures
\* and crashes: what a source had is there or at one of its destinations.
THEOREM MoveLosesNothingHolds == Spec => []MoveLosesNothing
<1>1. ASSUME Inv
      PROVE  MoveLosesNothing
  <2>1. SUFFICES ASSUME Safe, NEW s \in Sources, Alone(s)
                 PROVE  heldEver[s] \subseteq
                            {source[s]} \cup {dest[Dst(j)] : j \in JobsOf(s)}
    BY DEF MoveLosesNothing
  <2>2. PICK c \in heldEver[s] : heldEver[s] = {c} /\ source[s] \in {c, Nothing}
    BY <1>1, <2>1 DEF Inv, SourcesInv, Alone
  <2>3. CASE source[s] = c
    BY <2>2, <2>3
  <2>4. CASE source[s] # c
    <3>1. source[s] = Nothing /\ heldEver[s] # {Nothing}
      BY <2>2, <2>4
    <3>2. PICK w \in JobsOf(s) : Has(w)
      BY <1>1, <2>1, <3>1 DEF Inv, GoneInv
    <3>3. Src(w) = s
      BY <3>2 DEF JobsOf
    <3>4. dest[Dst(w)] = c
      BY <2>2, <3>2, <3>3 DEF Has
    <3>. QED
      BY <2>2, <3>2, <3>4
  <2>. QED
    BY <2>3, <2>4
<1>. QED
  BY <1>1, Invariance, PTL

\* The larger invariant holds to begin with, and every step keeps it.
LEMMA FullInit == Init => Full
<1>. SUFFICES ASSUME Init PROVE Full
  OBVIOUS
<1>1. Inv
  BY InvInit
<1>2. /\ pc = [j \in Jobs |-> "done"] /\ ~running /\ exit = "none" /\ rows = {} /\ filter = {}
      /\ heldEver = [s \in Sources |-> {source[s]}] /\ held = heldEver /\ next = FirstNew
      /\ tokens = [k \in JobRecords |-> NoToken]
  BY DEF Init
<1>3. \A s \in Sources : source[s] \in Nat /\ source[s] < next
  <2>1. PICK i \in Initials : source = i.source
    BY DEF Init
  <2>2. i.source \in [Sources -> 0..FirstNew - 1] /\ FirstNew \in Nat
    BY InitialsAssumption
  <2>3. \A s \in Sources : source[s] \in 0..FirstNew - 1
    BY <2>1, <2>2
  <2>. QED  BY <2>2, <2>3, <1>2
<1>4. HeldInv
  BY <1>2, <1>3 DEF HeldInv
<1>5. FreshTokensInv
  <2>1. Nothing < next
    BY <1>2, InitialsAssumption DEF Nothing
  <2>. QED  BY <2>1, <1>2 DEF FreshTokensInv, NoToken
<1>6. FreshListedInv /\ FreshPinnedInv /\ ExitInv /\ NoRowsInv
  BY <1>2 DEF FreshListedInv, FreshPinnedInv, ExitInv, NoRowsInv
<1>7. TurnInv /\ OpenInv /\ MovedInv /\ RowedInv /\ EverInv /\ DoneInv /\ OkInv
  BY <1>2 DEF TurnInv, OpenInv, MovedInv, RowedInv, EverInv, DoneInv, OkInv
<1>. QED  BY <1>1, <1>4, <1>5, <1>6, <1>7 DEF Full

LEMMA FullStep == Full /\ [Next]_vars => Full'
<1>. SUFFICES ASSUME Full, [Next]_vars PROVE Full'
  OBVIOUS
<1>1. Inv'
  BY InvStep DEF Full
<1>2. HeldInv' /\ FreshTokensInv' /\ FreshListedInv' /\ FreshPinnedInv'
  BY HeldStep, FreshTokensStep, FreshListedStep
<1>3. ExitInv' /\ NoRowsInv' /\ TurnInv' /\ OpenInv'
  BY ExitStep, TurnStep, OpenStep
<1>4. MovedInv' /\ RowedInv' /\ EverInv' /\ DoneInv' /\ OkInv'
  BY MovedStep, RowedStep, EverStep, DoneStep, OkStep
<1>. QED  BY <1>1, <1>2, <1>3, <1>4 DEF Full

LEMMA FullInvariance == Spec => []Full
BY FullInit, FullStep, PTL DEF Spec

\* mv that succeeds has moved: when it returns 0, without -n and -L, no source
\* is left that nobody else wrote to, for any jobs, failures, crashes and runs.
THEOREM MoveLeavesNothingHolds == Spec => []MoveLeavesNothing
<1>1. ASSUME Full PROVE MoveLeavesNothing
  <2>1. exit = "ok" => \A j \in Jobs : pc[j] = "done"
    BY <1>1 DEF Full, ExitInv
  <2>. QED  BY <1>1, <2>1 DEF Full, MovedInv, MoveLeavesNothing
<1>. QED  BY <1>1, FullInvariance, PTL

\* The sources of a command with a manifest are named once.  (A source that
\* overlapping arguments name twice, with two destinations, is skipped after
\* a crash when its first copy has its row.)
NamedOnce ==
    \A c \in Commands : c.manifest =>
        \A i, j \in DOMAIN c.jobs : c.jobs[i].src = c.jobs[j].src => i = j

\* Success delivers: after exit status 0 every destination has what its source
\* held during the run, or when the manifest took the row, or something with
\* -n, whatever failed or was killed in the runs before.
THEOREM SuccessDeliversHolds ==
    ASSUME NamedOnce
    PROVE  Spec => []SuccessDelivers
<1>1. ASSUME Full PROVE SuccessDelivers
  <2>1. OwnRows
    BY <1>1 DEF NamedOnce, OwnRows, Full, Inv, TypeOK, Jobs, Src
  <2>2. SUFFICES ASSUME exit = "ok", Unshared, NEW j \in Jobs, Dst(j) \notin intruded
                 PROVE  IF opts.noClobber THEN dest[Dst(j)] # Nothing ELSE Delivered(j)
    BY DEF SuccessDelivers, Unshared
  <2>3. Dst(j) \in Dests
    BY <1>1, JobsTyped DEF Full, Inv
  <2>4. Good(Dst(j))
    BY <1>1, <2>1, <2>2, <2>3 DEF Full, OkInv
  <2>. QED  BY <2>4 DEF Good, Now, Delivered
<1>. QED  BY <1>1, FullInvariance, PTL
=============================================================================
