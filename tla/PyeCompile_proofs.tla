-------------------------- MODULE PyeCompile_proofs --------------------------
(* Proofs about PyeCompile for every number of versions, buffers and runs.  *)
EXTENDS PyeCompile, TLAPS

USE FaultsAssumption, BoundsAssumption, MarksAssumption
    DEF FaultsAssumption, BoundsAssumption, MarksAssumption

LEMMA VersionTypes ==
  Contents \subseteq Nat /\ Versions \subseteq Contents /\ 1 \in Versions
  BY DEF Contents, Versions, Stale

LEMMA CompleteType == ASSUME NEW v \in Contents \union {Hole} PROVE Complete(v) \in Built
  BY DEF Complete, Built

\* TypeOK alone is not inductive: a process that writes relies on the .pye
\* it has opened, which nothing removes, and on its place in it.
Writing == \A p \in Processes : pc[p] = "write" => pye # NoFile /\ buffer[p] <= Buffers

LEMMA TypeInvariant == Spec => [](TypeOK /\ Writing)
  <1> USE DEF TypeOK, Writing, Locations, Results
  <1>1. Init => TypeOK /\ Writing
    <2> SUFFICES ASSUME Init PROVE TypeOK /\ Writing
      OBVIOUS
    <2>1. Stale \in Contents
      BY DEF Contents
    <2>2. pye \in Built \union {NoFile}
      BY <2>1, CompleteType DEF Init
    <2>3. args \in [Processes -> Args]
      BY DEF Init, Args
    <2>4. QED
      BY <2>1, <2>2, <2>3, VersionTypes DEF Init
  <1>2. TypeOK /\ Writing /\ [Next]_vars => TypeOK' /\ Writing'
    <2> SUFFICES ASSUME TypeOK, Writing, [Next]_vars PROVE TypeOK' /\ Writing'
      OBVIOUS
    <2> USE DEF files, Goto, End, Fail
    <2>1. ASSUME NEW p \in Processes, NEW a \in Args, Begin(p, a) PROVE TypeOK' /\ Writing'
      BY <2>1, VersionTypes DEF Begin, Contents
    <2>2. ASSUME NEW p \in Processes, StatPyc(p) PROVE TypeOK' /\ Writing'
      BY <2>2 DEF StatPyc
    <2>3. ASSUME NEW p \in Processes, CheckPyc(p) PROVE TypeOK' /\ Writing'
      BY <2>3 DEF CheckPyc, PycDone
    <2>4. ASSUME NEW p \in Processes, Compile(p) PROVE TypeOK' /\ Writing'
      BY <2>4, VersionTypes DEF Compile, PycDone
    <2>5. ASSUME NEW p \in Processes, WritePyc(p) PROVE TypeOK' /\ Writing'
      <3>1. /\ pyc' \in Contents \union {NoFile}
            /\ same' \subseteq {"pyc", "pye"} /\ fresh' \subseteq {"py", "pyc", "pye"}
        <4>1. CASE pyc' = src[p] /\ Stamp("pyc")
          BY <4>1 DEF Stamp
        <4>2. CASE UNCHANGED <<pyc, same, fresh>>
          BY <4>2
        <4>3. QED
          BY <2>5, <4>1, <4>2 DEF WritePyc
      <3>2. pc' \in [Processes -> Locations] /\ result' \in [Processes -> Results]
        <4>1. PycDone(p) \/ Fail(p)
          BY <2>5 DEF WritePyc
        <4>2. QED
          BY <4>1 DEF PycDone
      <3>3. Writing'
        BY <2>5 DEF WritePyc, PycDone
      <3>4. QED
        BY <2>5, <3>1, <3>2, <3>3 DEF WritePyc
    <2>6. ASSUME NEW p \in Processes, CheckPye(p) PROVE TypeOK' /\ Writing'
      BY <2>6 DEF CheckPye, PyeDone
    <2>7. ASSUME NEW p \in Processes, OpenPyc(p) PROVE TypeOK' /\ Writing'
      BY <2>7 DEF OpenPyc
    <2>8. ASSUME NEW p \in Processes, TruncatePye(p) PROVE TypeOK' /\ Writing'
      <3>1. Truncated \in Built /\ Truncated # NoFile
        BY CompleteType DEF Truncated
      <3>2. /\ pye' \in Built \union {NoFile}
            /\ same' \subseteq {"pyc", "pye"} /\ fresh' \subseteq {"py", "pyc", "pye"}
        BY <2>8, <3>1 DEF TruncatePye, Stamp
      <3>3. /\ buffer' \in [Processes -> 1..Buffers + 1]
            /\ pc' \in [Processes -> Locations]
            /\ result' \in [Processes -> Results]
        BY <2>8 DEF TruncatePye
      <3>4. Writing'
        <4> SUFFICES ASSUME NEW q \in Processes, pc'[q] = "write"
                     PROVE  pye' # NoFile /\ buffer'[q] <= Buffers
          OBVIOUS
        <4>1. CASE q = p
          BY <2>8, <3>1, <4>1 DEF TruncatePye
        <4>2. CASE q # p
          BY <2>8, <3>1, <4>2 DEF TruncatePye
        <4>3. QED
          BY <4>1, <4>2
      <3>5. QED
        BY <2>8, <3>2, <3>3, <3>4 DEF TruncatePye
    <2>9. ASSUME NEW p \in Processes, WriteBuffer(p) PROVE TypeOK' /\ Writing'
      <3>1. pye \in Built /\ buffer[p] \in 1..Buffers
        BY <2>9 DEF WriteBuffer
      <3>2. pye' \in Built /\ pye' # NoFile
        <4>1. src[p] \in Contents
          OBVIOUS
        <4>2. pye' = pye \/ pye' = [pye EXCEPT ![buffer[p]] = src[p]]
          BY <2>9 DEF WriteBuffer
        <4>3. [pye EXCEPT ![buffer[p]] = src[p]] \in Built
          BY <3>1, <4>1 DEF Built
        <4>4. QED
          BY <3>1, <4>2, <4>3
      <3>3. /\ buffer' \in [Processes -> 1..Buffers + 1]
            /\ pc' \in [Processes -> Locations]
            /\ result' \in [Processes -> Results]
        BY <2>9, <3>1 DEF WriteBuffer, PyeDone
      <3>4. same' \subseteq {"pyc", "pye"} /\ fresh' \subseteq {"py", "pyc", "pye"}
        BY <2>9 DEF WriteBuffer, Stamp
      <3>5. TypeOK'
        BY <2>9, <3>2, <3>3, <3>4 DEF WriteBuffer
      <3>6. Writing'
        <4> TAKE q \in Processes
        <4>1. CASE q = p
          BY <2>9, <3>1, <3>2, <4>1 DEF WriteBuffer, PyeDone
        <4>2. CASE q # p
          BY <2>9, <3>2, <4>2 DEF WriteBuffer, PyeDone
        <4>3. QED
          BY <4>1, <4>2
      <3>7. QED
        BY <3>5, <3>6
    <2>10. ASSUME NEW p \in Processes, RemovePyc(p) PROVE TypeOK' /\ Writing'
      BY <2>10 DEF RemovePyc
    <2>11. ASSUME NEW p \in Processes, RemovePy(p) PROVE TypeOK' /\ Writing'
      BY <2>11 DEF RemovePy
    <2>12. ASSUME NEW p \in Processes, Kill(p) PROVE TypeOK' /\ Writing'
      BY <2>12 DEF Kill
    <2>13. CASE Edit
      BY <2>13 DEF Edit, Stamp, Versions
    <2>14. CASE Tick
      BY <2>14 DEF Tick
    <2>15. CASE UNCHANGED vars
      BY <2>15 DEF vars
    <2>16. QED
      BY <2>1, <2>2, <2>3, <2>4, <2>5, <2>6, <2>7, <2>8, <2>9, <2>10, <2>11, <2>12, <2>13,
         <2>14, <2>15 DEF Next, Step
  <1>3. QED
    BY <1>1, <1>2, PTL DEF Spec

\* Every variable keeps its type.
THEOREM TypeCorrect == Spec => []TypeOK
  BY TypeInvariant, PTL

-----------------------------------------------------------------------------
(* One process at a time, which may be killed anywhere, on sources without  *)
(* syntax errors and a disk whose time stamps tell any two writes apart,    *)
(* though it may be full.  The invariant says what each step has achieved   *)
(* for the source it was started on.  No time stamp equals the source's, so *)
(* that nothing an earlier run left behind is taken for this run's output.  *)

\* What a write of version v leaves of a buffer, where u went unnoticed.
Written(content, v, u) == content = v \/ ("write" \in u /\ content = Hole)

\* The .pye f has been made from version v.
Made(f, v, u) == f \in Built /\ \A b \in 1..Buffers : Written(f[b], v, u)

AloneInv(p) ==
  /\ same = {} /\ fresh = {}
  /\ pc[p] # "idle" => py \in Versions /\ wanted[p] = py
  /\ pc[p] \in {"writePyc", "truncate", "write"} => src[p] = py
  /\ pc[p] \in {"checkPye", "open", "truncate", "write"} => args[p].mode = "pye" /\ pyc = py
  /\ pc[p] = "write" => \A b \in 1..Buffers : IF b < buffer[p] THEN Written(pye[b], py, unnoticed)
                                                             ELSE pye[b] = Hole
  /\ pc[p] = "removePyc" => args[p].mode = "pye" /\ Made(pye, py, unnoticed)
  /\ pc[p] = "removePy" => IF args[p].mode = "pye" THEN Made(pye, py, unnoticed) ELSE pyc = py

Alone(p) == Processes = {p} /\ Faults \subseteq {"crash", "full"} /\ SyntaxErrors = {}

LEMMA MadeMeans ==
  ASSUME NEW f, NEW v, NEW u, Made(f, v, u)
  PROVE  \/ f = Complete(v)
         \/ "write" \in u /\ f # NoFile /\ \A b \in 1..Buffers : f[b] \in {v, Hole}
  BY DEF Made, Written, Built, Complete

\* A step of the run, with what OutputFresh and SourceKept ask of it.
LEMMA AloneStep ==
  ASSUME NEW p \in Processes, Alone(p), TypeOK, Writing, AloneInv(p), Step(p)
  PROVE  /\ AloneInv(p)'
         /\ pc'[p] = "idle" /\ result'[p] = "ok"
              => IF args[p].mode = "pye" THEN Made(pye', wanted[p], unnoticed')
                                         ELSE pyc' = wanted[p]
  <1> USE DEF Alone, TypeOK, AloneInv, Args, files, Goto, End, Fail
  <1>1. CASE StatPyc(p)
    BY <1>1 DEF StatPyc
  <1>2. CASE CheckPyc(p)
    BY <1>2 DEF CheckPyc, PycDone
  <1>3. CASE Compile(p)
    BY <1>3 DEF Compile, PycDone
  <1>4. CASE WritePyc(p)
    BY <1>4 DEF WritePyc, PycDone, Stamp
  <1>5. CASE CheckPye(p)
    BY <1>5 DEF CheckPye
  <1>6. CASE OpenPyc(p)
    BY <1>6 DEF OpenPyc
  <1>7. CASE TruncatePye(p)
    <2>1. \A b \in 1..Buffers : Truncated[b] = Hole /\ ~(b < 1)
      BY DEF Truncated, Complete
    <2>2. CASE Fail(p) /\ UNCHANGED <<pye, same, fresh, buffer>>
      BY <1>7, <2>2 DEF TruncatePye
    <2>3. CASE pye' = Truncated /\ Stamp("pye") /\ buffer' = [buffer EXCEPT ![p] = 1] /\ Goto(p, "write")
      <3>1. same' = {} /\ fresh' = {} /\ buffer'[p] = 1 /\ pc'[p] = "write"
        BY <2>3 DEF Stamp
      <3>2. QED
        BY <1>7, <2>1, <2>3, <3>1 DEF TruncatePye
    <2>4. QED
      BY <1>7, <2>2, <2>3 DEF TruncatePye
  <1>8. CASE WriteBuffer(p)
    <2>1. pye \in Built /\ buffer[p] \in 1..Buffers /\ src[p] = py
      BY <1>8 DEF WriteBuffer, Writing
    <2>2. same' = {} /\ fresh' = {}
      BY <1>8, <2>1 DEF WriteBuffer, Stamp
    <2>3. /\ pye' \in Built
          /\ \A b \in 1..Buffers : IF b < buffer[p] + 1 THEN Written(pye'[b], py, unnoticed')
                                                       ELSE pye'[b] = Hole
      <3>1. CASE pye' = [pye EXCEPT ![buffer[p]] = py] /\ unnoticed' = unnoticed
        BY <1>8, <2>1, <3>1 DEF WriteBuffer, Built, Written, Contents
      <3>2. CASE pye' = pye /\ unnoticed' = unnoticed \union {"write"}
        BY <1>8, <2>1, <3>2 DEF WriteBuffer, Written
      <3>3. QED
        BY <1>8, <2>1, <3>1, <3>2 DEF WriteBuffer
    <2>4. CASE buffer[p] < Buffers
      BY <1>8, <2>1, <2>2, <2>3, <2>4 DEF WriteBuffer
    <2>5. CASE buffer[p] = Buffers
      <3>1. Made(pye', py, unnoticed')
        BY <2>3, <2>5 DEF Made
      <3>2. QED
        BY <1>8, <2>1, <2>2, <2>5, <3>1 DEF WriteBuffer, PyeDone
    <2>6. QED
      BY <2>1, <2>4, <2>5
  <1>9. CASE RemovePyc(p)
    BY <1>9 DEF RemovePyc
  <1>10. CASE RemovePy(p)
    BY <1>10 DEF RemovePy
  <1>11. QED
    BY <1>1, <1>2, <1>3, <1>4, <1>5, <1>6, <1>7, <1>8, <1>9, <1>10 DEF Step

LEMMA AloneNext ==
  ASSUME NEW p \in Processes, Alone(p), TypeOK, Writing, AloneInv(p), [Next]_vars
  PROVE  AloneInv(p)'
  <1> USE DEF Alone, TypeOK, AloneInv, Args, files, Goto, End, Fail
  <1>1. CASE Step(p)
    BY <1>1, AloneStep
  <1>2. CASE Kill(p)
    BY <1>2 DEF Kill
  <1>3. ASSUME NEW a \in Args, Begin(p, a) PROVE AloneInv(p)'
    BY <1>3 DEF Begin
  <1>4. CASE Edit
    BY <1>4 DEF Edit, Stamp
  <1>5. CASE Tick
    BY <1>5 DEF Tick
  <1>6. CASE UNCHANGED vars
    BY <1>6 DEF vars
  <1>7. QED
    BY <1>1, <1>2, <1>3, <1>4, <1>5, <1>6 DEF Next

LEMMA AloneInvariant ==
  ASSUME NEW p \in Processes, Alone(p)
  PROVE  Spec => []AloneInv(p)
  <1>1. Init => AloneInv(p)
    BY DEF Init, AloneInv, Alone
  <1>2. TypeOK /\ Writing /\ AloneInv(p) /\ [Next]_vars => AloneInv(p)'
    BY AloneNext
  <1>3. QED
    BY <1>1, <1>2, TypeInvariant, PTL DEF Spec

\* pyecli run by itself never removes a source that is not completely in
\* the run's output, but for what the disk did not take of this run, even if
\* earlier runs were killed anywhere or had no room on the disk either.
THEOREM SourceIsKept ==
  ASSUME NEW p \in Processes, Alone(p)
  PROVE  Spec => SourceKept
  <1>1. TypeOK /\ AloneInv(p) => RemovalKeepsSource
    BY MadeMeans DEF AloneInv, Alone, RemovalKeepsSource, OutputFrom, TypeOK, Args
  <1>2. Spec => []AloneInv(p)
    BY AloneInvariant
  <1>3. QED
    BY <1>1, <1>2, TypeInvariant, PTL DEF SourceKept

LEMMA SuccessStep ==
  ASSUME NEW p \in Processes, Alone(p), TypeOK, Writing, AloneInv(p), Next,
         pc[p] # "idle", pc'[p] = "idle", result'[p] = "ok"
  PROVE  IF args[p].mode = "pye" THEN Made(pye', wanted[p], unnoticed') ELSE pyc' = wanted[p]
  <1>1. CASE Step(p)
    BY <1>1, AloneStep
  <1>2. CASE Kill(p)
    BY <1>2 DEF Kill, End, TypeOK
  <1>3. ASSUME NEW a \in Args, Begin(p, a) PROVE FALSE
    BY <1>3 DEF Begin
  <1>4. CASE Edit \/ Tick
    BY <1>4 DEF Edit, Tick
  <1>5. QED
    BY <1>1, <1>2, <1>3, <1>4 DEF Next, Alone

\* A run that ends well has made its output from the source it began with,
\* but for its own lost writes, and leaves nothing older in it.
THEOREM OutputIsFresh ==
  ASSUME NEW p \in Processes, Alone(p)
  PROVE  Spec => OutputFresh
  <1>1. TypeOK /\ Writing /\ AloneInv(p) /\ Next => SuccessIsFresh
    <2> SUFFICES ASSUME TypeOK, Writing, AloneInv(p), Next,
                        pc[p] # "idle", pc'[p] = "idle", result'[p] = "ok"
                 PROVE  OutputFrom(p, wanted[p])'
      BY DEF SuccessIsFresh, Alone
    <2>1. args'[p] = args[p] /\ wanted'[p] = wanted[p]
      BY DEF Next, Step, Alone, Begin, StatPyc, CheckPyc, Compile, WritePyc, CheckPye, OpenPyc,
             TruncatePye, WriteBuffer, RemovePyc, RemovePy, Kill, Edit, Tick
    <2>2. IF args[p].mode = "pye" THEN Made(pye', wanted[p], unnoticed')
                                  ELSE args[p].mode = "pyc" /\ pyc' = wanted[p]
      BY SuccessStep DEF TypeOK, Args
    <2>3. QED
      BY <2>1, <2>2, MadeMeans DEF OutputFrom
  <1>2. Spec => []AloneInv(p)
    BY AloneInvariant
  <1>3. QED
    BY <1>1, <1>2, TypeInvariant, PTL DEF Spec, OutputFresh

-----------------------------------------------------------------------------
(* Any number of processes on one file, none killed and no disk full, as   *)
(* long as no old .pyc is taken for that of the source. All that run at    *)
(* the same time make their .pye from the same version, because each       *)
(* compiles before it opens the .pyc, or finds that it is of this version. *)
(* Every buffer of the .pye holds that version, or somebody who will write *)
(* it is on the way.                                                       *)

SomebodyWrites == \E q \in Processes : pc[q] = "write"

WholePye == pye = NoFile \/ \E v \in Contents : pye = Complete(v)

OnTheWay == \A b \in 1..Buffers : pye[b] = version
              \/ \E q \in Processes : pc[q] = "write" /\ buffer[q] <= b

PyeInv == IF SomebodyWrites THEN OnTheWay ELSE WholePye

TogetherInv ==
  /\ py \in {NoFile, version}
  /\ \A q \in Processes :
       /\ pc[q] \in {"writePyc", "truncate", "write"} => src[q] = version
       /\ pc[q] \in {"checkPye", "open"} => pyc \in {NoFile, version}
  /\ PyeInv

Together == Faults \subseteq {"coarse"} /\ SyntaxErrors = {}

\* A step of a process that neither is nor gets to the writing of the .pye.
LEMMA PyeInvFrame ==
  ASSUME TypeOK, PyeInv, NEW p \in Processes,
         UNCHANGED <<pye, version, buffer>>, pc[p] # "write", pc'[p] # "write",
         \A q \in Processes \ {p} : pc'[q] = pc[q]
  PROVE  PyeInv'
  <1>1. \A q \in Processes : pc'[q] = "write" <=> pc[q] = "write"
    OBVIOUS
  <1>2. QED
    BY <1>1 DEF PyeInv, SomebodyWrites, WholePye, OnTheWay

LEMMA TogetherWrite ==
  ASSUME Together, TypeOK, Writing, TogetherInv, NEW p \in Processes, WriteBuffer(p)
  PROVE  TogetherInv'
  <1> USE DEF Together, TypeOK, TogetherInv, files, Goto, End, Fail
  <1>1. pye \in Built /\ buffer[p] \in 1..Buffers /\ src[p] = version /\ pc[p] = "write"
    BY DEF WriteBuffer, Writing
  <1>2. pye' = [pye EXCEPT ![buffer[p]] = version] /\ version' = version
    BY <1>1 DEF WriteBuffer
  <1>3. version \in Contents
    BY VersionTypes
  <1>4. pye' \in Built
    BY <1>1, <1>2, <1>3 DEF Built
  <1>5. \A q \in Processes \ {p} : pc'[q] = pc[q] /\ buffer'[q] = buffer[q]
    BY DEF WriteBuffer, PyeDone
  <1>6. buffer'[p] = buffer[p] + 1 /\ (buffer[p] < Buffers => pc'[p] = "write")
    BY <1>1 DEF WriteBuffer
  <1>7. OnTheWay'
    <2> SUFFICES ASSUME NEW b \in 1..Buffers
                 PROVE  pye'[b] = version \/ \E q \in Processes : pc'[q] = "write" /\ buffer'[q] <= b
      BY <1>2 DEF OnTheWay
    <2>1. pye[b] = version \/ \E q \in Processes : pc[q] = "write" /\ buffer[q] <= b
      BY <1>1 DEF PyeInv, SomebodyWrites, OnTheWay
    <2>2. CASE b = buffer[p]
      BY <1>1, <1>2, <2>2 DEF Built
    <2>3. CASE b # buffer[p] /\ pye[b] = version
      BY <1>1, <1>2, <2>3 DEF Built
    <2>4. ASSUME NEW q \in Processes \ {p}, pc[q] = "write", buffer[q] <= b
          PROVE  \E r \in Processes : pc'[r] = "write" /\ buffer'[r] <= b
      BY <1>5, <2>4
    <2>5. CASE b # buffer[p] /\ buffer[p] <= b
      BY <1>1, <1>6, <2>5
    <2>6. QED
      BY <2>1, <2>2, <2>3, <2>4, <2>5
  <1>8. PyeInv'
    <2>1. CASE ~SomebodyWrites'
      <3>1. \A b \in 1..Buffers : pye'[b] = version
        BY <1>2, <1>7, <2>1 DEF OnTheWay, SomebodyWrites
      <3>2. pye' = Complete(version)
        BY <1>4, <3>1 DEF Built, Complete
      <3>3. QED
        BY <1>3, <2>1, <3>2 DEF PyeInv, WholePye, Complete
    <2>2. QED
      BY <1>7, <2>1 DEF PyeInv
  <1>9. /\ pc'[p] \in {"write", "removePyc", "removePy", "idle"}
        /\ UNCHANGED <<py, pyc, src>>
    BY DEF WriteBuffer, PyeDone
  <1>10. QED
    BY <1>1, <1>2, <1>5, <1>8, <1>9

LEMMA TogetherStep ==
  ASSUME Together, TypeOK, Writing, TogetherInv, NEW p \in Processes, Step(p),
         "stamp" \notin unnoticed'
  PROVE  TogetherInv'
  <1> USE DEF Together, TypeOK, TogetherInv, files, Goto, End, Fail
  <1>1. CASE StatPyc(p) \/ CheckPyc(p)
    BY <1>1, PyeInvFrame DEF StatPyc, CheckPyc, PycDone
  <1>2. CASE Compile(p)
    BY <1>2, PyeInvFrame DEF Compile, PycDone
  <1>3. CASE WritePyc(p)
    BY <1>3, PyeInvFrame DEF WritePyc, PycDone, Stamp
  <1>4. CASE CheckPye(p) \/ OpenPyc(p)
    BY <1>4, PyeInvFrame DEF CheckPye, OpenPyc, PyeDone
  <1>5. CASE RemovePyc(p) \/ RemovePy(p)
    BY <1>5, PyeInvFrame DEF RemovePyc, RemovePy
  <1>6. CASE TruncatePye(p)
    <2>1. pc'[p] = "write" /\ buffer'[p] = 1 /\ \A q \in Processes \ {p} : pc'[q] = pc[q]
      BY <1>6 DEF TruncatePye
    <2>2. PyeInv'
      BY <2>1 DEF PyeInv, SomebodyWrites, OnTheWay
    <2>3. QED
      BY <1>6, <2>1, <2>2 DEF TruncatePye, Stamp
  <1>7. CASE WriteBuffer(p)
    BY <1>7, TogetherWrite
  <1>8. QED
    BY <1>1, <1>2, <1>3, <1>4, <1>5, <1>6, <1>7 DEF Step

LEMMA TogetherNext ==
  ASSUME Together, TypeOK, Writing, TogetherInv, [Next]_vars, "stamp" \notin unnoticed'
  PROVE  TogetherInv'
  <1> USE DEF Together, TypeOK, TogetherInv, files, Goto, End, Fail
  <1>1. ASSUME NEW p \in Processes, Step(p) PROVE TogetherInv'
    BY <1>1, TogetherStep
  <1>2. ASSUME NEW p \in Processes, Kill(p) PROVE FALSE
    BY <1>2 DEF Kill
  <1>3. ASSUME NEW p \in Processes, NEW a \in Args, Begin(p, a) PROVE TogetherInv'
    BY <1>3, PyeInvFrame DEF Begin
  <1>4. CASE Edit
    <2>1. \A q \in Processes : pc[q] = "idle" /\ pc'[q] = "idle"
      BY <1>4 DEF Edit
    <2>2. PyeInv'
      BY <1>4, <2>1 DEF Edit, PyeInv, SomebodyWrites, WholePye
    <2>3. QED
      BY <1>4, <2>1, <2>2 DEF Edit
  <1>5. CASE Tick
    BY <1>5 DEF Tick, PyeInv, SomebodyWrites, WholePye, OnTheWay
  <1>6. CASE UNCHANGED vars
    BY <1>6 DEF vars, PyeInv, SomebodyWrites, WholePye, OnTheWay
  <1>7. QED
    BY <1>1, <1>2, <1>3, <1>4, <1>5, <1>6 DEF Next

\* It is never forgotten that an old .pyc was taken for current.
LEMMA StampStays ==
  ASSUME [Next]_vars, "stamp" \notin unnoticed'
  PROVE  "stamp" \notin unnoticed
  BY DEF Next, Step, Begin, StatPyc, CheckPyc, Compile, WritePyc, CheckPye, OpenPyc, TruncatePye,
         WriteBuffer, RemovePyc, RemovePy, Kill, Edit, Tick, files, vars

\* Processes that compile one file at the same time, in any number, leave a
\* whole .pye of one version whenever none of them is writing it, as long as
\* no run is disturbed and no old .pyc has passed for that of the source.
THEOREM PyeIsWhole ==
  ASSUME Together
  PROVE  Spec => []PyeWhole
  <1> DEFINE Inv == "stamp" \in unnoticed \/ TogetherInv
  <1>1. Init => Inv
    BY DEF Init, TogetherInv, PyeInv, SomebodyWrites, WholePye, Contents
  <1>2. TypeOK /\ Writing /\ Inv /\ [Next]_vars => Inv'
    BY TogetherNext, StampStays
  <1>3. Inv => PyeWhole
    BY DEF TogetherInv, PyeInv, SomebodyWrites, WholePye, PyeWhole
  <1> HIDE DEF Inv
  <1>4. QED
    BY <1>1, <1>2, <1>3, TypeInvariant, PTL DEF Spec

-----------------------------------------------------------------------------
(* One process gets through.  A process fails only when another one has     *)
(* taken away a file it needs; whoever did that last has made its output    *)
(* and needs the file no more.                                              *)

\* Process q has not failed, and will not unless another one removes a file.
GetsThrough(q) ==
  /\ pc[q] = "idle" => result[q] \in {"none", "ok", "nothing"}
  /\ pc[q] # "idle" => py # NoFile
  /\ pc[q] \in {"checkPye", "open", "truncate", "write", "removePyc"} => pyc # NoFile
  /\ pc[q] = "checkPyc" /\ pycExists[q] => pyc # NoFile

Unharmed == Processes # {} /\ Faults \cap {"crash", "full"} = {} /\ SyntaxErrors = {}

\* Its own steps.
LEMMA GoesOn ==
  ASSUME Unharmed, TypeOK, NEW q \in Processes, GetsThrough(q), Step(q)
  PROVE  GetsThrough(q)'
  <1> USE DEF Unharmed, TypeOK, GetsThrough, files, Goto, End, Fail
  <1>1. CASE StatPyc(q)
    BY <1>1 DEF StatPyc
  <1>2. CASE CheckPyc(q)
    BY <1>2 DEF CheckPyc, PycDone
  <1>3. CASE Compile(q)
    BY <1>3 DEF Compile
  <1>4. CASE WritePyc(q)
    BY <1>4 DEF WritePyc, PycDone
  <1>5. CASE CheckPye(q)
    BY <1>5 DEF CheckPye, PyeDone
  <1>6. CASE OpenPyc(q)
    BY <1>6 DEF OpenPyc
  <1>7. CASE TruncatePye(q)
    BY <1>7 DEF TruncatePye
  <1>8. CASE WriteBuffer(q)
    BY <1>8 DEF WriteBuffer, PyeDone
  <1>9. CASE RemovePyc(q) \/ RemovePy(q)
    BY <1>9 DEF RemovePyc, RemovePy
  <1>10. QED
    BY <1>1, <1>2, <1>3, <1>4, <1>5, <1>6, <1>7, <1>8, <1>9 DEF Step

\* The steps of another process: the one that removes a file takes over.
LEMMA TakesOver ==
  ASSUME Unharmed, TypeOK, NEW q \in Processes, GetsThrough(q),
         NEW r \in Processes, r # q, Step(r)
  PROVE  GetsThrough(q)' \/ GetsThrough(r)'
  <1> USE DEF Unharmed, TypeOK, GetsThrough, files, Goto, End, Fail
  <1>1. pc'[q] = pc[q] /\ result'[q] = result[q] /\ pycExists'[q] = pycExists[q]
    BY DEF Step, StatPyc, CheckPyc, Compile, WritePyc, CheckPye, OpenPyc, TruncatePye,
           WriteBuffer, RemovePyc, RemovePy, PycDone, PyeDone
  <1>2. CASE RemovePyc(r)
    BY <1>1, <1>2 DEF RemovePyc
  <1>3. CASE RemovePy(r)
    BY <1>1, <1>3 DEF RemovePy
  <1>4. CASE WritePyc(r)
    BY <1>1, <1>4 DEF WritePyc
  <1>5. CASE ~(RemovePyc(r) \/ RemovePy(r) \/ WritePyc(r))
    <2>1. py' = py /\ pyc' = pyc
      BY <1>5 DEF Step, StatPyc, CheckPyc, Compile, CheckPye, OpenPyc, TruncatePye, WriteBuffer
    <2> QED
      BY <1>1, <2>1
  <1> QED
    BY <1>2, <1>3, <1>4, <1>5

LEMMA OneGetsThroughNext ==
  ASSUME Unharmed, TypeOK, NEW q \in Processes, GetsThrough(q), [Next]_vars
  PROVE  \E r \in Processes : GetsThrough(r)'
  <1>1. ASSUME NEW r \in Processes, Step(r) PROVE \E t \in Processes : GetsThrough(t)'
    BY <1>1, GoesOn, TakesOver
  <1>2. ASSUME NEW r \in Processes, Kill(r) PROVE FALSE
    BY <1>2 DEF Kill, Unharmed
  <1>3. ASSUME NEW r \in Processes, NEW a \in Args, Begin(r, a) PROVE GetsThrough(q)'
    <2>1. CASE r = q
      BY <1>3, <2>1 DEF Begin, files, Goto, End, TypeOK, GetsThrough
    <2>2. CASE r # q
      BY <1>3, <2>2 DEF Begin, files, Goto, End, TypeOK, GetsThrough
    <2> QED
      BY <2>1, <2>2
  <1>4. CASE Edit
    <2>1. py' # NoFile /\ UNCHANGED <<pyc, pc, pycExists, result>>
      BY <1>4, VersionTypes DEF Edit, Stamp, TypeOK, Versions, Contents
    <2> QED
      BY <2>1 DEF GetsThrough
  <1>5. CASE Tick \/ UNCHANGED vars
    BY <1>5 DEF Tick, vars, files, GetsThrough
  <1> QED
    BY <1>1, <1>2, <1>3, <1>4, <1>5 DEF Next

\* Of any number of processes on one file, none of them killed or refused by
\* the disk, at least one has done its work when all have ended, whatever was
\* written or edited meanwhile.
THEOREM OneGetsThrough ==
  ASSUME Unharmed
  PROVE  Spec => []OneSucceeds
  <1> DEFINE Inv == \E q \in Processes : GetsThrough(q)
  <1>1. Init => Inv
    BY DEF Init, Unharmed, GetsThrough
  <1>2. TypeOK /\ Inv /\ [Next]_vars => Inv'
    BY OneGetsThroughNext
  <1>3. Inv => OneSucceeds
    BY DEF GetsThrough, OneSucceeds
  <1> HIDE DEF Inv
  <1>4. QED
    BY <1>1, <1>2, <1>3, TypeInvariant, PTL DEF Spec
=============================================================================
