-------------------------- MODULE ConnectionProofs --------------------------
(***************************************************************************)
(* Proofs, for every set of files and processes and every bound, that the  *)
(* open ladder keeps the snapshot under the live connection complete and   *)
(* untouched, loses no other snapshot than those Connection names, and     *)
(* keeps what Shell promises the page.                                     *)
(***************************************************************************)
EXTENDS Connection, SequenceTheorems, TLAPS

USE DEF Environment, History, Complete

\* What is known of the open in progress at each of its steps.
OpInv ==
    /\ op.pc \in {"alloc", "rw", "ro", "snap"} /\ op.conn.path \in Paths
          => counter < MaxSnaps
    /\ op.pc \in {"ro", "snap", "copy", "copied", "snapopen"} => op.conn.path \in Paths
    /\ op.pc \in {"alloc", "rw", "ro", "snap", "sqlite_rw", "sqlite_ro"}
          => op.conn.tmp = NoName /\ ~op.conn.snap
    /\ op.pc \in {"copy", "copied", "snapopen"} => op.conn.tmp # NoName
    /\ op.pc \in {"connect", "swap"} => (op.conn.snap <=> op.conn.tmp # NoName)
    /\ op.pc \in {"copied", "snapopen"} \/ (op.pc \in {"connect", "swap"} /\ op.conn.snap)
          => Complete(op.conn.tmp)
    /\ op.pc \in {"connect", "swap"} /\ op.conn.snap => op.conn.ro
    /\ op.conn.tmp # NoName => op.conn.tmp \in DOMAIN tmp /\ op.conn.tmp = <<pid, counter>>

\* What is known of the active connection: its snapshot was taken by this process
\* under a number the counter has passed.
ConnInv ==
    /\ pid = Nil => conn = NoConn /\ op = NoOp
    /\ conn.tmp # NoName => conn.tmp[1] = pid /\ conn.tmp[2] \in 1..counter

\* The inductive invariant.
IInv ==
    /\ TypeOK /\ OpInv /\ ConnInv
    /\ SnapshotComplete /\ StraysExplained /\ CopiesDistinct

\* The name of the next snapshot is that of no file the process is using.
LEMMA FreshName ==
    ASSUME IInv, At("snap")
    PROVE  SnapshotName \in Names /\ SnapshotName \notin TempOf(conn)
PROOF
  <1>1. op.conn.path \in Paths /\ counter < MaxSnaps /\ pid \in Pids /\ counter \in Nat
    BY ConstantsAssumption DEF IInv, OpInv, TypeOK, At
  <1>2. SnapshotName \in Names
    BY <1>1, ConstantsAssumption DEF SnapshotName, Names
  <1>3. conn.tmp # NoName => conn.tmp[2] <= counter
    BY <1>1 DEF IInv, ConnInv
  <1>4. SnapshotName[2] = counter + 1
    BY DEF SnapshotName
  <1>5. SnapshotName # conn.tmp \/ conn.tmp = NoName
    BY <1>1, <1>3, <1>4
  <1> QED BY <1>2, <1>5 DEF TempOf

\* Initially nothing is open and the temp directory is empty.
LEMMA InitInv == Init => IInv
PROOF
  <1> SUFFICES ASSUME Init PROVE IInv
    OBVIOUS
  <1>1. TypeOK
    BY ConstantsAssumption DEF Init, TypeOK, NoOp, NoReply, NoConn
  <1>2. OpInv /\ ConnInv
    BY DEF Init, OpInv, ConnInv, NoOp, NoConn, Steps
  <1>3. SnapshotComplete /\ StraysExplained /\ CopiesDistinct
    BY DEF Init, SnapshotComplete, StraysExplained, CopiesDistinct, NoOp, NoConn, TempOf
  <1> QED BY <1>1, <1>2, <1>3 DEF IInv

\* A request that arrives touches neither the connection nor the temp directory.
LEMMA RequestStep ==
    ASSUME IInv,
           \/ \E p \in Paths, engine \in Engines \cup {"none"} : Open(p, engine)
           \/ \E engine \in Engines : NewMemory(engine)
    PROVE  IInv'
PROOF
  <1>1. PICK p \in Targets, engine \in Engines :
            Begin(p, engine) /\ (p \in Paths => counter < MaxSnaps)
    <2>1. CASE \E p \in Paths, engine \in Engines \cup {"none"} : Open(p, engine)
      <3>1. PICK p \in Paths, engine \in Engines \cup {"none"} : Open(p, engine)
        BY <2>1
      <3>2. EngineOf(p, engine) \in Engines /\ p \in Targets
        BY DEF EngineOf, Engines, Targets
      <3>3. Begin(p, EngineOf(p, engine)) /\ counter < MaxSnaps
        BY <3>1 DEF Open
      <3> QED BY <3>2, <3>3
    <2>2. CASE \E engine \in Engines : NewMemory(engine)
      BY <2>2, ConstantsAssumption DEF NewMemory, Targets
    <2> QED BY <2>1, <2>2
  <1>2. At("idle") /\ UNCHANGED <<lock, ver, tmp, pid, counter, conn, abandoned, leaked, cut>>
    BY DEF Open, NewMemory
  <1>3. op = NoOp
    BY <1>2 DEF IInv, TypeOK, At, Steps
  <1>4. op' \in [pc : {"alloc", "sqlite_rw"}, conn : Conns] /\ op'.conn.tmp = NoName
        /\ ~op'.conn.snap
    BY <1>1, ConstantsAssumption DEF Begin, Conns, IInv, TypeOK, Targets
  <1>5. TypeOK'
    BY <1>1, <1>2, <1>4 DEF IInv, TypeOK, Begin, Steps, NoReply, Codes
  <1>6. OpInv'
    BY <1>1, <1>2, <1>4 DEF OpInv, Begin
  <1>7. ConnInv'
    BY <1>2 DEF IInv, ConnInv, At
  <1>8. SnapshotComplete' /\ StraysExplained' /\ CopiesDistinct'
    BY <1>2, <1>3, <1>4 DEF IInv, SnapshotComplete, StraysExplained, CopiesDistinct,
                            Owned, TempOf, NoOp, NoConn
  <1> QED BY <1>5, <1>6, <1>7, <1>8 DEF IInv

\* A process starts with no connection.
LEMMA LaunchStep ==
    ASSUME IInv, NEW id \in Pids, Launch(id)
    PROVE  IInv'
PROOF
  <1>1. conn = NoConn /\ op = NoOp /\ conn' = NoConn
    BY DEF Launch, IInv, ConnInv
  <1>2. UNCHANGED <<lock, ver, tmp, abandoned, leaked, cut>> /\ pid' = id /\ counter' = 0
    BY DEF Launch
  <1>3. CASE UNCHANGED <<op, reply>>
    <2>1. TypeOK'
      BY <1>1, <1>2, <1>3, ConstantsAssumption DEF IInv, TypeOK
    <2>2. OpInv' /\ ConnInv'
      BY <1>1, <1>2, <1>3, ConstantsAssumption DEF OpInv, ConnInv, NoOp, NoConn
    <2>3. SnapshotComplete' /\ StraysExplained' /\ CopiesDistinct'
      BY <1>1, <1>2, <1>3 DEF IInv, SnapshotComplete, StraysExplained, CopiesDistinct, Owned
    <2> QED BY <2>1, <2>2, <2>3 DEF IInv
  <1>4. CASE MaxSnaps > 0 /\ \E p \in Paths : Begin(p, EngineOf(p, "none"))
    <2>1. PICK p \in Paths, engine \in Engines : Begin(p, engine)
      <3>1. PICK p \in Paths : Begin(p, EngineOf(p, "none"))
        BY <1>4
      <3>2. EngineOf(p, "none") \in Engines
        BY DEF EngineOf, Engines
      <3> QED BY <3>1, <3>2
    <2>2. op' \in [pc : {"alloc", "sqlite_rw"}, conn : Conns] /\ op'.conn.tmp = NoName
          /\ ~op'.conn.snap
      BY <2>1, ConstantsAssumption DEF Begin, Conns, IInv, TypeOK, Targets
    <2>3. TypeOK'
      BY <1>1, <1>2, <2>1, <2>2, ConstantsAssumption
      DEF IInv, TypeOK, Begin, Steps, NoReply, Codes
    <2>4. OpInv'
      BY <1>2, <1>4, <2>1, <2>2 DEF OpInv, Begin
    <2>5. ConnInv'
      BY <1>1, <1>2, ConstantsAssumption DEF ConnInv, NoConn
    <2>6. SnapshotComplete' /\ StraysExplained' /\ CopiesDistinct'
      BY <1>1, <1>2, <2>2 DEF IInv, SnapshotComplete, StraysExplained, CopiesDistinct,
                              Owned, TempOf, NoOp, NoConn
    <2> QED BY <2>3, <2>4, <2>5, <2>6 DEF IInv
  <1> QED BY <1>3, <1>4 DEF Launch

-----------------------------------------------------------------------------
(* Updating one field of a connection leaves the others as they were. *)

LEMMA ReadOnlyConn ==
    ASSUME NEW c \in Conns, NEW ro \in BOOLEAN
    PROVE  /\ [c EXCEPT !.ro = ro] \in Conns
           /\ [c EXCEPT !.ro = ro].path = c.path
           /\ [c EXCEPT !.ro = ro].snap = c.snap
           /\ [c EXCEPT !.ro = ro].tmp = c.tmp
PROOF
  BY DEF Conns

LEMMA CopyingConn ==
    ASSUME NEW c \in Conns, NEW n \in Names
    PROVE  /\ [c EXCEPT !.tmp = n] \in Conns
           /\ [c EXCEPT !.tmp = n].path = c.path
           /\ [c EXCEPT !.tmp = n].snap = c.snap
           /\ [c EXCEPT !.tmp = n].tmp = n
PROOF
  BY DEF Conns

LEMMA SnapshotConn ==
    ASSUME NEW c \in Conns
    PROVE  /\ [c EXCEPT !.ro = TRUE, !.snap = TRUE] \in Conns
           /\ [c EXCEPT !.ro = TRUE, !.snap = TRUE].ro
           /\ [c EXCEPT !.ro = TRUE, !.snap = TRUE].path = c.path
           /\ [c EXCEPT !.ro = TRUE, !.snap = TRUE].snap
           /\ [c EXCEPT !.ro = TRUE, !.snap = TRUE].tmp = c.tmp
PROOF
  BY DEF Conns

-----------------------------------------------------------------------------
(* The two ways a step of the ladder ends *)

\* A step that leaves the snapshots alone and moves on to `next`.
LEMMA AdvanceStep ==
    ASSUME IInv, NEW next \in Steps, NEW c \in Conns,
           op' = [pc |-> next, conn |-> c], c.tmp = op.conn.tmp, pid # Nil,
           UNCHANGED <<lock, ver, tmp, pid, counter, conn, reply, abandoned, leaked, cut>>,
           OpInv'
    PROVE  IInv'
PROOF
  <1>1. TypeOK'
    BY DEF IInv, TypeOK
  <1>2. ConnInv'
    BY DEF IInv, ConnInv
  <1>3. SnapshotComplete' /\ StraysExplained' /\ CopiesDistinct'
    BY DEF IInv, SnapshotComplete, StraysExplained, CopiesDistinct, Owned, TempOf
  <1> QED BY <1>1, <1>2, <1>3 DEF IInv

\* Removing files leaves the others as they were.
LEMMA UnlinkKeeps ==
    ASSUME NEW names
    PROVE  /\ DOMAIN Unlink(tmp, names) = DOMAIN tmp \ names
           /\ \A n \in DOMAIN tmp \ names : Unlink(tmp, names)[n] = tmp[n]
PROOF
  BY DEF Unlink

\* A step that gives up either removes the copy it made, if any, or is the failing
\* duckdb_connect, which loses it.
LEMMA FailStep ==
    ASSUME IInv, NEW code \in Codes, Fail(code),
           pid # Nil, UNCHANGED <<lock, ver, pid, conn, abandoned, cut>>,
           counter' \in counter..MaxSnaps,
           \/ tmp' = Unlink(tmp, TempOf(op.conn)) /\ leaked' = leaked
           \/ tmp' = tmp /\ leaked' = leaked \cup TempOf(op.conn)
    PROVE  IInv'
PROOF
  <1>1. op' = NoOp /\ reply' = [ok |-> FALSE, code |-> code, conn |-> NoConn]
    BY DEF Fail
  <1>2. /\ DOMAIN tmp' \subseteq DOMAIN tmp
        /\ \A n \in DOMAIN tmp' : tmp'[n] = tmp[n]
        /\ DOMAIN tmp \subseteq DOMAIN tmp' \cup TempOf(op.conn)
        /\ DOMAIN tmp' \subseteq (DOMAIN tmp \ TempOf(op.conn)) \cup leaked'
        /\ leaked \subseteq leaked' /\ leaked' \subseteq leaked \cup TempOf(op.conn)
    <2>1. CASE tmp' = Unlink(tmp, TempOf(op.conn)) /\ leaked' = leaked
      <3>1. /\ DOMAIN tmp' = DOMAIN tmp \ TempOf(op.conn)
            /\ \A n \in DOMAIN tmp \ TempOf(op.conn) : tmp'[n] = tmp[n]
        BY <2>1, UnlinkKeeps
      <3> QED BY <2>1, <3>1
    <2>2. CASE tmp' = tmp /\ leaked' = leaked \cup TempOf(op.conn)
      BY <2>2
    <2> QED BY <2>1, <2>2
  <1>3. TempOf(op.conn) \subseteq Names
    BY DEF IInv, TypeOK, TempOf, NoOp, NoConn, Conns
  <1>4. TypeOK'
    BY <1>1, <1>2, <1>3, ConstantsAssumption DEF IInv, TypeOK
  <1>5. OpInv' /\ ConnInv'
    BY <1>1, ConstantsAssumption DEF IInv, TypeOK, OpInv, ConnInv, NoOp, NoConn
  <1>6. SnapshotComplete'
    BY <1>1, <1>2 DEF IInv, SnapshotComplete, CopiesDistinct, TempOf
  <1>7. TempOf(op'.conn) = {}
    BY <1>1 DEF TempOf, NoOp, NoConn
  <1>8. StraysExplained' /\ CopiesDistinct'
    BY <1>2, <1>7 DEF IInv, StraysExplained, CopiesDistinct, Owned, TempOf
  <1> QED BY <1>4, <1>5, <1>6, <1>8 DEF IInv

-----------------------------------------------------------------------------
(* The steps of the ladder *)

\* In the middle of an open the connection under construction is well typed.
LEMMA Building ==
    ASSUME IInv, NEW step \in Steps, At(step)
    PROVE  op.conn \in Conns /\ pid # Nil /\ counter \in counter..MaxSnaps
PROOF
  <1>1. op # NoOp
    BY DEF At, NoOp, Steps
  <1> QED BY <1>1, ConstantsAssumption DEF IInv, TypeOK, At

LEMMA AllocStep == ASSUME IInv, Alloc PROVE IInv'
PROOF
  <1> USE DEF Alloc
  <1>1. op.conn \in Conns /\ pid # Nil /\ counter \in counter..MaxSnaps
    BY Building DEF Steps
  <1>2. CASE Goto("rw")
    <2>1. op' = [pc |-> "rw", conn |-> op.conn] /\ UNCHANGED reply
      BY <1>2 DEF Goto
    <2>2. OpInv'
      BY <2>1 DEF IInv, OpInv, At
    <2> QED BY <1>1, <1>2, <2>1, <2>2, AdvanceStep DEF IInv, TypeOK, Steps
  <1>3. CASE Fail("DB_ERR_OOM")
    <2>1. TempOf(op.conn) = {}
      BY DEF IInv, OpInv, TempOf, At
    <2> QED BY <1>1, <1>3, <2>1, FailStep DEF Codes
  <1> QED BY <1>2, <1>3

LEMMA OpenReadWriteStep == ASSUME IInv, OpenReadWrite PROVE IInv'
PROOF
  <1> USE DEF OpenReadWrite
  <1>1. op.conn \in Conns /\ pid # Nil /\ counter \in counter..MaxSnaps
    BY Building DEF Steps
  <1>2. op.conn.tmp = NoName /\ ~op.conn.snap
    BY <1>1 DEF IInv, OpInv, At, Conns
  <1>3. CASE (op.conn.path \in Paths => ~lock[op.conn.path]) /\ Goto("connect")
    <2>1. op' = [pc |-> "connect", conn |-> op.conn] /\ UNCHANGED reply
      BY <1>3 DEF Goto
    <2>2. OpInv'
      BY <1>2, <2>1 DEF IInv, OpInv, At
    <2> QED BY <1>1, <1>3, <2>1, <2>2, AdvanceStep DEF IInv, TypeOK, Steps
  <1>4. CASE op.conn.path \in Paths /\ Goto("ro")
    <2>1. op' = [pc |-> "ro", conn |-> op.conn] /\ UNCHANGED reply
      BY <1>4 DEF Goto
    <2>2. OpInv'
      BY <1>4, <2>1 DEF IInv, OpInv, At
    <2> QED BY <1>1, <2>1, <2>2, AdvanceStep DEF Steps
  <1>5. CASE op.conn.path = InMemory /\ Fail("DB_ERR_DUCKDB")
    <2>1. TempOf(op.conn) = {}
      BY <1>2 DEF TempOf
    <2> QED BY <1>1, <1>5, <2>1, FailStep DEF Codes
  <1> QED BY <1>3, <1>4, <1>5

LEMMA OpenReadOnlyStep == ASSUME IInv, OpenReadOnly PROVE IInv'
PROOF
  <1> USE DEF OpenReadOnly
  <1>1. op.conn \in Conns /\ pid # Nil /\ counter \in counter..MaxSnaps
    BY Building DEF Steps
  <1>2. op.conn.tmp = NoName /\ ~op.conn.snap /\ op.conn.path \in Paths /\ counter < MaxSnaps
    BY <1>1 DEF IInv, OpInv, At
  <1>3. CASE ~lock[op.conn.path]
             /\ op' = [pc |-> "connect", conn |-> [op.conn EXCEPT !.ro = TRUE]]
             /\ UNCHANGED reply
    <2>1. PICK c \in Conns : /\ c = [op.conn EXCEPT !.ro = TRUE]
                             /\ c.tmp = NoName /\ ~c.snap
      BY <1>1, <1>2, ReadOnlyConn, ZenonT(60)
    <2>2. OpInv'
      BY <1>2, <1>3, <2>1 DEF OpInv
    <2> QED BY <1>1, <1>2, <1>3, <2>1, <2>2, AdvanceStep DEF IInv, TypeOK, Steps
  <1>4. CASE Goto("snap")
    <2>1. op' = [pc |-> "snap", conn |-> op.conn] /\ UNCHANGED reply
      BY <1>4 DEF Goto
    <2>2. OpInv'
      BY <1>2, <2>1 DEF IInv, OpInv, At
    <2> QED BY <1>1, <2>1, <2>2, AdvanceStep DEF Steps
  <1> QED BY <1>3, <1>4

\* Creating the snapshot file under the fresh name.
LEMMA CreateSnapshotStep == ASSUME IInv, CreateSnapshot PROVE IInv'
PROOF
  <1>1. op.conn \in Conns /\ pid # Nil /\ pid \in Pids
    BY Building DEF Steps, IInv, TypeOK, At, CreateSnapshot
  <1>2. /\ op.conn.tmp = NoName /\ ~op.conn.snap /\ op.conn.path \in Paths
        /\ counter \in Nat /\ counter + 1 \in counter..MaxSnaps /\ counter' = counter + 1
        /\ UNCHANGED <<lock, ver, pid, conn>>
    BY <1>1, ConstantsAssumption DEF IInv, OpInv, At, TypeOK, CreateSnapshot
  <1>3. CASE Fail("DB_ERR_DUCKDB") /\ UNCHANGED <<tmp, History>>
    <2>1. TempOf(op.conn) = {}
      BY <1>2 DEF TempOf
    <2> QED BY <1>1, <1>2, <1>3, <2>1, FailStep DEF Codes
  <1>4. CASE /\ tmp' = Truncate(tmp, SnapshotName)
             /\ op' = [pc |-> "copy", conn |-> [op.conn EXCEPT !.tmp = SnapshotName]]
             /\ abandoned' = abandoned \ {SnapshotName}
             /\ leaked' = leaked \ {SnapshotName}
             /\ cut' = cut \ {SnapshotName}
             /\ UNCHANGED reply
    <2>1. SnapshotName \in Names /\ SnapshotName \notin TempOf(conn) /\ SnapshotName # NoName
      BY FreshName, ConstantsAssumption DEF Names, NoName, CreateSnapshot
    <2>2. PICK c \in Conns : /\ c = [op.conn EXCEPT !.tmp = SnapshotName]
                             /\ c.tmp = SnapshotName /\ c.path \in Paths
      BY <1>1, <1>2, <2>1, CopyingConn
    <2>3. op' = [pc |-> "copy", conn |-> c]
      BY <1>4, <2>2
    <2>11. /\ abandoned' = abandoned \ {SnapshotName}
           /\ leaked' = leaked \ {SnapshotName}
           /\ cut' = cut \ {SnapshotName}
           /\ UNCHANGED reply
      BY <1>4
    <2>4. /\ DOMAIN tmp' = DOMAIN tmp \cup {SnapshotName}
          /\ tmp'[SnapshotName] = << >>
          /\ \A n \in DOMAIN tmp \ {SnapshotName} : tmp'[n] = tmp[n]
      BY <1>4 DEF Truncate
    <2>5. << >> \in Seq(0..MaxVer)
      OBVIOUS
    <2>6. TypeOK'
      <3>1. /\ DOMAIN tmp' \subseteq Names
            /\ \A n \in DOMAIN tmp' : tmp'[n] \in Seq(0..MaxVer)
        BY <2>1, <2>4, <2>5 DEF IInv, TypeOK
      <3>2. op' \in [pc : Steps, conn : Conns] \cup {NoOp}
        BY <2>3 DEF Steps
      <3>3. counter' \in 0..MaxSnaps
        BY <1>2, ConstantsAssumption
      <3> QED BY <1>2, <2>11, <3>1, <3>2, <3>3 DEF IInv, TypeOK
    <2>7. OpInv'
      <3>1. SnapshotName = <<pid', counter'>>
        BY <1>2 DEF SnapshotName
      <3> QED BY <2>2, <2>3, <2>4, <2>1, <3>1 DEF OpInv
    <2>8. ConnInv'
      BY <1>1, <1>2 DEF IInv, ConnInv
    <2>9. SnapshotComplete'
      BY <1>2, <2>1, <2>4, <2>11 DEF IInv, SnapshotComplete, TempOf
    <2>10. StraysExplained' /\ CopiesDistinct'
      BY <1>2, <2>1, <2>2, <2>3, <2>4, <2>11
      DEF IInv, StraysExplained, CopiesDistinct, Owned, TempOf
    <2> QED BY <2>6, <2>7, <2>8, <2>9, <2>10 DEF IInv
  <1> QED BY <1>3, <1>4 DEF CreateSnapshot

\* A sequence without its last element.
LEMMA FrontInSeq ==
    ASSUME NEW S, NEW s \in Seq(S)
    PROVE  SubSeq(s, 1, Len(s) - 1) \in Seq(S)
PROOF
  <1>1. Len(s) \in Nat /\ \A i \in 1..Len(s) : s[i] \in S
    BY LenProperties, ElementOfSeq
  <1>2. 1 \in Int /\ Len(s) - 1 \in Int /\ \A i \in 1..(Len(s) - 1) : s[i] \in S
    BY <1>1
  <1> QED BY <1>2, SubSeqProperties

\* One turn of the copy loop writes to the new snapshot only.
LEMMA CopyChunkStep == ASSUME IInv, CopyChunk PROVE IInv'
PROOF
  <1>1. op.conn \in Conns /\ pid # Nil /\ counter \in counter..MaxSnaps
    BY Building DEF CopyChunk, Steps
  <1>2. op.pc = "copy" /\ UNCHANGED <<lock, ver, pid, counter, conn, abandoned, leaked>>
    BY DEF CopyChunk, At
  <1>3. /\ op.conn.tmp # NoName /\ op.conn.path \in Paths
        /\ op.conn.tmp \in DOMAIN tmp /\ op.conn.tmp = <<pid, counter>>
        /\ op.conn.tmp \in Names
    BY <1>2 DEF IInv, OpInv, TypeOK
  <1> DEFINE n == op.conn.tmp
             v == ver[op.conn.path]
             written == /\ tmp' = WriteChunk(tmp, n, v)
                        /\ UNCHANGED <<op, reply, cut>>
             lost == /\ Goto("copied")
                     /\ tmp' = LoseTail(tmp, n) /\ cut' = cut \cup {n}
  <1>4. CASE written \/ lost
    <2>1. PICK copy \in Seq(0..MaxVer) :
             /\ DOMAIN tmp' = DOMAIN tmp /\ tmp'[n] = copy
             /\ \A m \in DOMAIN tmp \ {n} : tmp'[m] = tmp[m]
      <3>1. v \in 0..MaxVer /\ tmp[n] \in Seq(0..MaxVer)
        BY <1>3 DEF IInv, TypeOK
      <3>2. CASE written
        <4>1. Append(tmp[n], v) \in Seq(0..MaxVer)
          BY <3>1
        <4> QED BY <1>3, <3>2, <4>1 DEF WriteChunk
      <3>3. CASE lost
        <4>1. SubSeq(tmp[n], 1, Len(tmp[n]) - 1) \in Seq(0..MaxVer)
          BY <3>1, FrontInSeq
        <4> QED BY <1>3, <3>3, <4>1 DEF LoseTail
      <3> QED BY <1>4, <3>2, <3>3
    <2>2. /\ op' = op \/ op' = [pc |-> "copied", conn |-> op.conn]
          /\ op'.conn = op.conn /\ UNCHANGED reply /\ cut \subseteq cut'
          /\ cut' \subseteq cut \cup {n}
          /\ op'.pc = "copy" \/ (op'.pc = "copied" /\ n \in cut')
      BY <1>2, <1>4 DEF Goto
    <2>3. cut' \in SUBSET Names /\ cut \in SUBSET Names /\ {abandoned, leaked} \subseteq SUBSET Names
      BY <1>3, <2>2 DEF IInv, TypeOK
    <2>4. TypeOK'
      <3>1. op' \in [pc : Steps, conn : Conns] \cup {NoOp}
        BY <1>1, <2>2 DEF IInv, TypeOK, Steps
      <3>2. DOMAIN tmp' \subseteq Names /\ \A m \in DOMAIN tmp' : tmp'[m] \in Seq(0..MaxVer)
        BY <2>1 DEF IInv, TypeOK
      <3> HIDE DEF n
      <3> QED BY <1>2, <2>2, <2>3, <3>1, <3>2 DEF IInv, TypeOK
    <2>5. n # conn.tmp
      BY <1>3 DEF IInv, CopiesDistinct, TempOf
    <2>6. OpInv' /\ ConnInv'
      <3>1. ConnInv'
        BY <1>2, <2>2 DEF IInv, ConnInv, NoOp
      <3>2. /\ op'.conn.tmp # NoName /\ op'.conn.path \in Paths
            /\ op'.conn.tmp \in DOMAIN tmp' /\ op'.conn.tmp = <<pid', counter'>>
        BY <1>2, <1>3, <2>1, <2>2
      <3>3. CASE op'.pc = "copy"
        BY <3>1, <3>2, <3>3 DEF OpInv
      <3>4. CASE op'.pc = "copied" /\ n \in cut'
        BY <2>2, <3>1, <3>2, <3>4 DEF OpInv
      <3> QED BY <2>2, <3>3, <3>4
    <2>7. SnapshotComplete'
      BY <1>2, <2>1, <2>2, <2>5 DEF IInv, SnapshotComplete
    <2>8. StraysExplained' /\ CopiesDistinct'
      BY <1>2, <2>1, <2>2 DEF IInv, StraysExplained, CopiesDistinct, Owned, TempOf
    <2> QED BY <2>4, <2>6, <2>7, <2>8 DEF IInv
  <1>5. CASE AtEof /\ Goto("copied") /\ UNCHANGED <<tmp, cut>>
    <2>1. op' = [pc |-> "copied", conn |-> op.conn] /\ UNCHANGED reply
      BY <1>5 DEF Goto
    <2>2. OpInv'
      BY <1>2, <1>3, <1>5, <2>1 DEF OpInv, AtEof
    <2> QED BY <1>1, <1>2, <1>5, <2>1, <2>2, AdvanceStep DEF IInv, TypeOK, Steps
  <1>6. CASE DropSnapshot("DB_ERR_DUCKDB") /\ UNCHANGED cut
    BY <1>1, <1>2, <1>6, FailStep DEF DropSnapshot, Codes
  <1> QED BY <1>4, <1>5, <1>6 DEF CopyChunk

LEMMA ReturnSnapshotStep == ASSUME IInv, ReturnSnapshot PROVE IInv'
PROOF
  <1>1. op.conn \in Conns /\ pid # Nil /\ counter \in counter..MaxSnaps
    BY Building DEF ReturnSnapshot, Steps
  <1>2. op.pc = "copied" /\ UNCHANGED <<lock, ver, pid, counter, conn, abandoned, leaked, cut>>
    BY DEF ReturnSnapshot, At
  <1>3. CASE Goto("snapopen") /\ UNCHANGED tmp
    <2>1. op' = [pc |-> "snapopen", conn |-> op.conn] /\ UNCHANGED reply
      BY <1>3 DEF Goto
    <2>2. OpInv'
      BY <1>2, <1>3, <2>1 DEF IInv, OpInv
    <2> QED BY <1>1, <1>2, <1>3, <2>1, <2>2, AdvanceStep DEF IInv, TypeOK, Steps
  <1>4. CASE DropSnapshot("DB_ERR_DUCKDB")
    BY <1>1, <1>2, <1>4, FailStep DEF DropSnapshot, Codes
  <1> QED BY <1>3, <1>4 DEF ReturnSnapshot

LEMMA OpenSnapshotStep == ASSUME IInv, OpenSnapshot PROVE IInv'
PROOF
  <1>1. op.conn \in Conns /\ pid # Nil /\ counter \in counter..MaxSnaps
    BY Building DEF OpenSnapshot, Steps
  <1>2. op.pc = "snapopen" /\ UNCHANGED <<lock, ver, pid, counter, conn, abandoned, leaked, cut>>
    BY DEF OpenSnapshot, At
  <1>3. CASE /\ op' = [pc |-> "connect",
                       conn |-> [op.conn EXCEPT !.ro = TRUE, !.snap = TRUE]]
             /\ UNCHANGED <<tmp, reply>>
    <2>1. PICK c \in Conns : /\ c = [op.conn EXCEPT !.ro = TRUE, !.snap = TRUE]
                             /\ c.ro /\ c.snap /\ c.tmp = op.conn.tmp
      BY <1>1, SnapshotConn
    <2>2. op' = [pc |-> "connect", conn |-> c] /\ UNCHANGED <<tmp, reply>>
      BY <1>3, <2>1
    <2>3. c.tmp # NoName /\ c.tmp \in DOMAIN tmp /\ c.tmp = <<pid, counter>>
          /\ Complete(c.tmp)
      BY <1>2, <2>1 DEF IInv, OpInv
    <2>4. OpInv'
      BY <1>2, <2>1, <2>2, <2>3 DEF OpInv
    <2> QED BY <1>1, <1>2, <2>1, <2>2, <2>4, AdvanceStep DEF IInv, TypeOK, Steps
  <1>4. CASE DropSnapshot("DB_ERR_DUCKDB")
    BY <1>1, <1>2, <1>4, FailStep DEF DropSnapshot, Codes
  <1> QED BY <1>3, <1>4 DEF OpenSnapshot

LEMMA ConnectStep == ASSUME IInv, Connect PROVE IInv'
PROOF
  <1>1. op.conn \in Conns /\ pid # Nil /\ counter \in counter..MaxSnaps
    BY Building DEF Connect, Steps
  <1>2. op.pc = "connect" /\ UNCHANGED <<lock, ver, tmp, pid, counter, conn, abandoned, cut>>
    BY DEF Connect, At
  <1>3. CASE Goto("swap") /\ UNCHANGED leaked
    <2>1. op' = [pc |-> "swap", conn |-> op.conn] /\ UNCHANGED reply
      BY <1>3 DEF Goto
    <2>2. OpInv'
      BY <1>2, <2>1 DEF IInv, OpInv
    <2> QED BY <1>1, <1>2, <1>3, <2>1, <2>2, AdvanceStep DEF IInv, TypeOK, Steps
  <1>4. CASE Fail("DB_ERR_DUCKDB") /\ leaked' = leaked \cup TempOf(op.conn)
    BY <1>1, <1>2, <1>4, FailStep DEF Codes
  <1> QED BY <1>3, <1>4 DEF Connect

LEMMA SqliteStep == ASSUME IInv, SqliteReadWrite \/ SqliteReadOnly PROVE IInv'
PROOF
  <1>1. op.conn \in Conns /\ pid # Nil /\ counter \in counter..MaxSnaps
    BY Building DEF SqliteReadWrite, SqliteReadOnly, Steps
  <1>2. /\ op.pc \in {"sqlite_rw", "sqlite_ro"}
        /\ UNCHANGED <<lock, ver, tmp, pid, counter, conn, abandoned, leaked, cut>>
    BY DEF SqliteReadWrite, SqliteReadOnly, At
  <1>3. op.conn.tmp = NoName /\ ~op.conn.snap /\ TempOf(op.conn) = {}
    BY <1>2 DEF IInv, OpInv, TempOf
  <1>4. CASE \E ro \in BOOLEAN :
                /\ op' = [pc |-> "swap", conn |-> [op.conn EXCEPT !.ro = ro]]
                /\ UNCHANGED reply
    <2>1. PICK ro \in BOOLEAN :
             /\ op' = [pc |-> "swap", conn |-> [op.conn EXCEPT !.ro = ro]]
             /\ UNCHANGED reply
      BY <1>4
    <2>2. PICK c \in Conns : /\ c = [op.conn EXCEPT !.ro = ro]
                             /\ c.tmp = NoName /\ ~c.snap
      BY <1>1, <1>3, ReadOnlyConn, ZenonT(60)
    <2>3. op' = [pc |-> "swap", conn |-> c] /\ UNCHANGED reply
      BY <2>1, <2>2
    <2>4. OpInv'
      BY <2>2, <2>3 DEF OpInv
    <2> QED BY <1>1, <1>2, <1>3, <2>2, <2>3, <2>4, AdvanceStep DEF IInv, TypeOK, Steps
  <1>5. CASE \E code \in SqliteErrors : Fail(code)
    BY <1>1, <1>2, <1>3, <1>5, FailStep DEF SqliteErrors, Codes
  <1>6. CASE op.conn.path \in Paths /\ Goto("sqlite_ro")
    <2>1. op' = [pc |-> "sqlite_ro", conn |-> op.conn] /\ UNCHANGED reply
      BY <1>6 DEF Goto
    <2>2. OpInv'
      BY <1>3, <2>1 DEF OpInv
    <2> QED BY <1>1, <1>2, <2>1, <2>2, AdvanceStep DEF Steps
  <1>7. SqliteReadWrite => \/ \E ro \in BOOLEAN :
                                /\ op' = [pc |-> "swap", conn |-> [op.conn EXCEPT !.ro = ro]]
                                /\ UNCHANGED reply
                           \/ \E code \in SqliteErrors : Fail(code)
                           \/ op.conn.path \in Paths /\ Goto("sqlite_ro")
    BY Zenon DEF SqliteReadWrite
  <1>8. SqliteReadOnly => \/ \E ro \in BOOLEAN :
                                /\ op' = [pc |-> "swap", conn |-> [op.conn EXCEPT !.ro = ro]]
                                /\ UNCHANGED reply
                          \/ \E code \in SqliteErrors : Fail(code)
    BY Zenon DEF SqliteReadOnly
  <1> QED BY <1>4, <1>5, <1>6, <1>7, <1>8

\* The swap removes the snapshot of the connection it closes, and only that one.
LEMMA SwapStep == ASSUME IInv, Swap PROVE IInv'
PROOF
  <1>1. op.conn \in Conns /\ pid # Nil
    BY Building DEF Swap, Steps
  <1>2. /\ op.pc = "swap" /\ UNCHANGED <<lock, ver, pid, counter, abandoned, leaked, cut>>
        /\ conn' = op.conn /\ op' = NoOp
        /\ reply' = [ok |-> TRUE, code |-> "none", conn |-> op.conn]
        /\ tmp' = Unlink(tmp, TempOf(conn))
    BY DEF Swap, At
  <1>3. /\ DOMAIN tmp' = DOMAIN tmp \ TempOf(conn)
        /\ \A n \in DOMAIN tmp \ TempOf(conn) : tmp'[n] = tmp[n]
    BY <1>2, UnlinkKeeps
  <1>4. TypeOK'
    BY <1>1, <1>2, <1>3 DEF IInv, TypeOK
  <1>5. OpInv'
    BY <1>2 DEF OpInv, NoOp, NoConn
  <1>6. ConnInv'
    <2>1. op.conn.tmp # NoName => op.conn.tmp = <<pid, counter>>
      BY DEF IInv, OpInv
    <2>2. op.conn.tmp # NoName => counter \in 1..counter
      BY <1>1, <2>1, ConstantsAssumption DEF Conns, Names
    <2> QED BY <1>1, <1>2, <2>1, <2>2 DEF ConnInv
  <1>7. op.conn.tmp # NoName => op.conn.tmp \in DOMAIN tmp'
    BY <1>3 DEF IInv, OpInv, CopiesDistinct, TempOf
  <1>8. SnapshotComplete'
    BY <1>2, <1>3, <1>7 DEF IInv, OpInv, SnapshotComplete
  <1>9. StraysExplained' /\ CopiesDistinct'
    BY <1>2, <1>3 DEF IInv, StraysExplained, CopiesDistinct, Owned, TempOf, NoOp, NoConn
  <1> QED BY <1>4, <1>5, <1>6, <1>8, <1>9 DEF IInv

\* A process that ends closes its connection or abandons what it owns.
LEMMA EndStep == ASSUME IInv, CloseWindow \/ Terminate PROVE IInv'
PROOF
  <1>1. /\ UNCHANGED <<lock, ver, counter, leaked, cut>>
        /\ pid' = Nil /\ conn' = NoConn /\ reply' = NoReply
    BY DEF CloseWindow, Terminate
  <1>2. op' = NoOp
    BY DEF CloseWindow, Terminate, At, IInv, TypeOK, Steps
  <1>3. /\ DOMAIN tmp' \subseteq DOMAIN tmp
        /\ \A n \in DOMAIN tmp' : tmp'[n] = tmp[n]
        /\ DOMAIN tmp' \subseteq abandoned' \cup leaked'
        /\ abandoned' \subseteq abandoned \cup Owned
    <2>1. CASE CloseWindow
      <3>1. tmp' = Unlink(tmp, TempOf(conn)) /\ abandoned' = abandoned
        BY <2>1 DEF CloseWindow
      <3>2. TempOf(op.conn) = {}
        BY <2>1 DEF CloseWindow, At, IInv, TypeOK, Steps, TempOf, NoOp, NoConn
      <3>3. /\ DOMAIN tmp' = DOMAIN tmp \ TempOf(conn)
            /\ \A n \in DOMAIN tmp \ TempOf(conn) : tmp'[n] = tmp[n]
        BY <3>1, UnlinkKeeps
      <3> QED BY <1>1, <3>1, <3>2, <3>3 DEF IInv, StraysExplained, Owned
    <2>2. CASE Terminate
      BY <1>1, <2>2 DEF Terminate, IInv, StraysExplained
    <2> QED BY <2>1, <2>2
  <1>4. Owned \subseteq Names
    BY DEF IInv, TypeOK, Owned, TempOf, NoOp, NoConn, Conns
  <1>5. TypeOK'
    BY <1>1, <1>2, <1>3, <1>4 DEF IInv, TypeOK, NoReply
  <1>6. OpInv' /\ ConnInv'
    BY <1>1, <1>2 DEF OpInv, ConnInv, NoOp, NoConn
  <1>7. SnapshotComplete' /\ StraysExplained' /\ CopiesDistinct'
    BY <1>1, <1>2, <1>3
    DEF SnapshotComplete, StraysExplained, CopiesDistinct, Owned, TempOf, NoOp, NoConn
  <1> QED BY <1>5, <1>6, <1>7 DEF IInv

\* Another process changes neither our data nor the temp directory.
LEMMA OtherStep ==
    ASSUME IInv, NEW p \in Paths, OtherLocks(p) \/ OtherCommits(p) \/ OtherUnlocks(p)
    PROVE  IInv'
PROOF
  <1>1. UNCHANGED <<tmp, pid, counter, conn, op, reply, abandoned, leaked, cut>>
    BY DEF OtherLocks, OtherCommits, OtherUnlocks
  <1>2. lock' \in [Paths -> BOOLEAN] /\ ver' \in [Paths -> 0..MaxVer]
    <2>1. CASE OtherCommits(p)
      <3>1. ver[p] + 1 \in 0..MaxVer
        BY <2>1, ConstantsAssumption DEF OtherCommits, IInv, TypeOK
      <3> QED BY <2>1, <3>1 DEF OtherCommits, IInv, TypeOK
    <2>2. CASE OtherLocks(p) \/ OtherUnlocks(p)
      BY <2>2 DEF OtherLocks, OtherUnlocks, IInv, TypeOK
    <2> QED BY <2>1, <2>2
  <1>3. TypeOK'
    BY <1>1, <1>2 DEF IInv, TypeOK
  <1>4. OpInv' /\ ConnInv'
    BY <1>1 DEF IInv, OpInv, ConnInv
  <1>5. SnapshotComplete' /\ StraysExplained' /\ CopiesDistinct'
    BY <1>1 DEF IInv, SnapshotComplete, StraysExplained, CopiesDistinct, Owned
  <1> QED BY <1>3, <1>4, <1>5 DEF IInv

LEMMA StutterStep == ASSUME IInv, UNCHANGED vars PROVE IInv'
PROOF
  <1>1. UNCHANGED <<lock, ver, tmp, pid, counter, conn, op, reply, abandoned, leaked, cut>>
    BY DEF vars
  <1> QED BY <1>1 DEF IInv, TypeOK, OpInv, ConnInv, SnapshotComplete,
                      StraysExplained, CopiesDistinct, Owned

-----------------------------------------------------------------------------
(* The theorems *)

\* Every step of the program and of its environment preserves the invariant.
THEOREM Inductive == Spec => []IInv
PROOF
  <1>1. ASSUME IInv, [Next]_vars PROVE IInv'
    <2>1. CASE Serve
      BY <1>1, <2>1, AllocStep, OpenReadWriteStep, OpenReadOnlyStep, CreateSnapshotStep,
         CopyChunkStep, ReturnSnapshotStep, OpenSnapshotStep, ConnectStep, SqliteStep,
         SwapStep DEF Serve
    <2> QED BY <1>1, <2>1, RequestStep, LaunchStep, EndStep, OtherStep, StutterStep DEF Next
  <1> QED BY <1>1, InitInv, PTL DEF Spec

\* Every value the program keeps has its declared type.
THEOREM TypeCorrect == Spec => []TypeOK
PROOF
  <1>1. IInv => TypeOK
    BY DEF IInv
  <1> QED BY <1>1, Inductive, PTL

\* The snapshot the user looks at is complete, read-only and still on disk,
\* whatever fails and whoever locks, commits or crashes.
THEOREM SnapshotStaysComplete == Spec => []SnapshotComplete
PROOF
  <1>1. IInv => SnapshotComplete
    BY DEF IInv
  <1> QED BY <1>1, Inductive, PTL

\* A copy in progress is never written over the snapshot being read.
THEOREM CopiesStayDistinct == Spec => []CopiesDistinct
PROOF
  <1>1. IInv => CopiesDistinct
    BY DEF IInv
  <1> QED BY <1>1, Inductive, PTL

\* No path of the ladder but a failing duckdb_connect, and no end of the process
\* but one that skips db_close, leaves a snapshot behind.
THEOREM StraysAreExplained == Spec => []StraysExplained
PROOF
  <1>1. IInv => StraysExplained
    BY DEF IInv
  <1> QED BY <1>1, Inductive, PTL

\* What is written or removed is never the snapshot under the live connection.
LEMMA SnapshotKept ==
    ASSUME IInv, Next, conn' = conn, conn.snap
    PROVE  conn.tmp \in DOMAIN tmp' /\ tmp'[conn.tmp] = tmp[conn.tmp]
PROOF
  <1>1. conn.tmp # NoName /\ conn.tmp \in DOMAIN tmp
    BY ConstantsAssumption DEF IInv, SnapshotComplete, TypeOK, Names, NoName
  <1>2. conn.tmp \notin TempOf(op.conn)
    BY <1>1 DEF IInv, CopiesDistinct, TempOf
  <1>3. CASE tmp' = tmp
    BY <1>1, <1>3
  <1>4. CASE tmp' = Unlink(tmp, TempOf(op.conn))
    BY <1>1, <1>2, <1>4, UnlinkKeeps
  <1>5. CASE CreateSnapshot /\ tmp' = Truncate(tmp, SnapshotName)
    <2>1. conn.tmp # SnapshotName
      BY <1>1, <1>5, FreshName DEF CreateSnapshot, TempOf
    <2> QED BY <1>1, <1>5, <2>1 DEF Truncate
  <1>6. CASE /\ \/ tmp' = WriteChunk(tmp, op.conn.tmp, ver[op.conn.path])
                \/ tmp' = LoseTail(tmp, op.conn.tmp)
             /\ op.conn.tmp # NoName
    <2>1. conn.tmp # op.conn.tmp
      BY <1>2, <1>6 DEF TempOf
    <2> QED BY <1>1, <1>6, <2>1 DEF WriteChunk, LoseTail
  <1>7. CASE Swap \/ CloseWindow
    BY <1>1, <1>2, <1>7 DEF Swap, CloseWindow, TempOf, NoConn
  <1>8. CASE Serve
    <2>1. CASE CopyChunk
      <3>1. op.conn.tmp # NoName
        BY <2>1 DEF CopyChunk, At, IInv, OpInv
      <3> QED BY <1>3, <1>4, <1>6, <2>1, <3>1 DEF CopyChunk, DropSnapshot
    <2>2. CASE CreateSnapshot
      <3>1. tmp' = tmp \/ tmp' = Truncate(tmp, SnapshotName)
        BY <2>2 DEF CreateSnapshot
      <3> QED BY <1>3, <1>5, <2>2, <3>1
    <2>3. CASE ReturnSnapshot \/ OpenSnapshot
      <3>1. tmp' = tmp \/ tmp' = Unlink(tmp, TempOf(op.conn))
        BY <2>3 DEF ReturnSnapshot, OpenSnapshot, DropSnapshot
      <3> QED BY <1>3, <1>4, <3>1
    <2>4. CASE \/ Alloc \/ OpenReadWrite \/ OpenReadOnly
               \/ Connect \/ SqliteReadWrite \/ SqliteReadOnly
      <3>1. tmp' = tmp
        BY <2>4 DEF Alloc, OpenReadWrite, OpenReadOnly, Connect,
                    SqliteReadWrite, SqliteReadOnly
      <3> QED BY <1>3, <3>1
    <2> QED BY <1>7, <1>8, <2>1, <2>2, <2>3, <2>4 DEF Serve
  <1>9. CASE ~(Serve \/ CloseWindow)
    <2>1. tmp' = tmp
      BY <1>9 DEF Next, Open, NewMemory, Launch, Terminate,
                        OtherLocks, OtherCommits, OtherUnlocks
    <2> QED BY <1>3, <2>1
  <1> QED BY <1>7, <1>8, <1>9

\* No step of the program, and in particular no new copy of the same locked file,
\* changes the snapshot under the live connection.
THEOREM SnapshotStaysUntouched == Spec => SnapshotUntouched
PROOF
  <1>1. IInv /\ [Next]_vars =>
          [conn' = conn /\ conn.snap =>
              conn.tmp \in DOMAIN tmp' /\ tmp'[conn.tmp] = tmp[conn.tmp]]_vars
    BY SnapshotKept
  <1> QED BY <1>1, Inductive, PTL DEF Spec, SnapshotUntouched

-----------------------------------------------------------------------------
(* What a reply says *)

-----------------------------------------------------------------------------
(* The promise of Shell *)

\* What the answer to an open rests on: how far each database may fall back.
GrantInv ==
    /\ pid = Nil => reply = NoReply
    /\ op.conn.path = InMemory => ~op.conn.ro
    /\ op.conn.snap => op.conn.ro
    /\ op.pc \in {"sqlite_rw", "sqlite_ro"} => op.conn.engine = "sqlite" /\ ~op.conn.snap
    /\ op.pc = "sqlite_ro" => op.conn.path \in Paths
    /\ op.pc \in Steps \ {"sqlite_rw", "sqlite_ro", "swap"} => op.conn.engine = "duckdb"
    /\ op.pc = "swap" /\ op.conn.snap => op.conn.engine = "duckdb"

\* A step of the ladder that goes on to another, and one that gives up.
GoesOn ==
    /\ op.pc \in Steps /\ op'.pc \in Steps
    /\ op'.conn.engine = op.conn.engine /\ op'.conn.path = op.conn.path
    /\ UNCHANGED <<pid, conn, reply>>
GivesUp ==
    /\ op.pc \in Steps /\ op' = NoOp
    /\ ~reply'.ok /\ reply'.code # "none" /\ reply'.conn = NoConn
    /\ UNCHANGED <<pid, conn>>

\* While a request is served there is a process, and a connection being built.
LEMMA ServedConn ==
    ASSUME IInv, op.pc \in Steps
    PROVE  op.conn \in Conns /\ pid # Nil
PROOF
  <1>1. op # NoOp
    BY DEF NoOp, Steps
  <1>2. pid # Nil
    BY <1>1 DEF IInv, ConnInv
  <1> QED BY <1>1, <1>2 DEF IInv, TypeOK

\* Every failure is an error reply and the end of the request.
LEMMA FailGivesUp ==
    ASSUME op.pc \in Steps, NEW code \in Codes, Fail(code),
           UNCHANGED <<pid, conn>>, pid # Nil, InMemory # Nil
    PROVE  GivesUp /\ GrantInv'
PROOF
  <1>1. op' = NoOp /\ reply' = [ok |-> FALSE, code |-> code, conn |-> NoConn]
    BY DEF Fail
  <1>2. code # "none"
    BY DEF Codes
  <1>3. GivesUp
    BY <1>1, <1>2 DEF GivesUp
  <1>4. GrantInv'
    BY <1>1 DEF GrantInv, NoOp, NoConn, Steps
  <1> QED BY <1>3, <1>4

\* The same with the connection as it is built so far.
LEMMA GotoGoesOn ==
    ASSUME op.pc \in Steps, NEW step \in Steps, Goto(step), UNCHANGED <<pid, conn>>
    PROVE  GoesOn /\ op' = [pc |-> step, conn |-> op.conn] /\ UNCHANGED reply
PROOF
  BY DEF Goto, GoesOn

\* Updating a field leaves the engine as it was.
LEMMA EngineKept ==
    ASSUME NEW c \in Conns
    PROVE  /\ \A ro \in BOOLEAN :
                 /\ [c EXCEPT !.ro = ro].engine = c.engine
                 /\ [c EXCEPT !.ro = ro].ro = ro
           /\ \A n \in Names : /\ [c EXCEPT !.tmp = n].engine = c.engine
                               /\ [c EXCEPT !.tmp = n].ro = c.ro
           /\ [c EXCEPT !.ro = TRUE, !.snap = TRUE].engine = c.engine
PROOF
  BY DEF Conns

\* Steps of the DuckDB ladder that leave the connection being built alone.
LEMMA DuckServes ==
    ASSUME IInv, GrantInv, Alloc \/ OpenReadWrite \/ ReturnSnapshot \/ Connect \/ CopyChunk
    PROVE  (GoesOn \/ GivesUp) /\ GrantInv'
PROOF
  <1>1. /\ op.pc \in {"alloc", "rw", "copied", "connect", "copy"} /\ op.pc \in Steps
        /\ pid # Nil /\ InMemory # Nil /\ op.conn \in Conns
    BY ServedConn, ConstantsAssumption
    DEF Alloc, OpenReadWrite, ReturnSnapshot, Connect, CopyChunk, At, Steps
  <1>2. UNCHANGED <<pid, conn>>
    BY DEF Alloc, OpenReadWrite, ReturnSnapshot, Connect, CopyChunk
  <1>3. \/ \E step \in {"rw", "connect", "ro", "copied", "snapopen", "swap"} : Goto(step)
        \/ \E code \in Codes : Fail(code)
        \/ UNCHANGED <<op, reply>>
    BY DEF Alloc, OpenReadWrite, ReturnSnapshot, Connect, CopyChunk, DropSnapshot, Codes
  <1>4. CASE UNCHANGED <<op, reply>>
    BY <1>1, <1>2, <1>4 DEF GoesOn, GrantInv
  <1>5. CASE \E code \in Codes : Fail(code)
    BY <1>1, <1>2, <1>5, FailGivesUp
  <1>6. CASE \E step \in {"rw", "connect", "ro", "copied", "snapopen", "swap"} : Goto(step)
    <2>1. PICK step \in {"rw", "connect", "ro", "copied", "snapopen", "swap"} : Goto(step)
      BY <1>6
    <2>2. step \in Steps /\ step \notin {"sqlite_rw", "sqlite_ro"}
      BY DEF Steps
    <2>3. GoesOn /\ op' = [pc |-> step, conn |-> op.conn] /\ UNCHANGED reply
      BY <1>1, <1>2, <2>1, <2>2, GotoGoesOn
    <2>4. op.conn.engine = "duckdb"
      BY <1>1 DEF GrantInv
    <2>5. GrantInv'
      BY <1>1, <1>2, <2>2, <2>3, <2>4 DEF GrantInv
    <2> QED BY <2>3, <2>5
  <1> QED BY <1>3, <1>4, <1>5, <1>6

\* Steps that move to a read-only connection or to a copy: never for an in-memory database.
LEMMA DuckFallsBack ==
    ASSUME IInv, GrantInv, OpenReadOnly \/ CreateSnapshot \/ OpenSnapshot
    PROVE  (GoesOn \/ GivesUp) /\ GrantInv'
PROOF
  <1>1. /\ op.pc \in {"ro", "snap", "snapopen"} /\ op.pc \in Steps
        /\ pid # Nil /\ InMemory # Nil /\ op.conn \in Conns
    BY ServedConn, ConstantsAssumption
    DEF OpenReadOnly, CreateSnapshot, OpenSnapshot, At, Steps
  <1>2. UNCHANGED <<pid, conn>>
    BY DEF OpenReadOnly, CreateSnapshot, OpenSnapshot
  <1>3. op.conn.engine = "duckdb" /\ op.conn.path \in Paths /\ op.conn.path # InMemory
    BY <1>1, ConstantsAssumption DEF GrantInv, IInv, OpInv
  <1>4. CASE \E code \in Codes : Fail(code)
    BY <1>1, <1>2, <1>4, FailGivesUp
  <1>5. CASE OpenReadOnly
    <2>1. CASE Goto("snap")
      <3>1. "snap" \in Steps
        BY DEF Steps
      <3>2. GoesOn /\ op' = [pc |-> "snap", conn |-> op.conn] /\ UNCHANGED reply
        BY <1>1, <1>2, <2>1, <3>1, GotoGoesOn
      <3>3. GrantInv'
        BY <1>1, <1>2, <1>3, <3>2 DEF GrantInv
      <3> QED BY <3>2, <3>3
    <2>2. CASE op' = [pc |-> "connect", conn |-> [op.conn EXCEPT !.ro = TRUE]]
               /\ UNCHANGED reply
      <3>1. /\ op'.pc = "connect" /\ op'.conn.engine = "duckdb"
            /\ op'.conn.path = op.conn.path /\ op'.conn.ro
        <4> DEFINE c == [op.conn EXCEPT !.ro = TRUE]
        <4>1. op' = [pc |-> "connect", conn |-> c]
          BY <2>2
        <4>2. c.engine = op.conn.engine
          BY <1>1, EngineKept
        <4>3. c.path = op.conn.path /\ c.ro
          BY <1>1, ReadOnlyConn
        <4> HIDE DEF c
        <4> QED BY <1>3, <4>1, <4>2, <4>3
      <3>2. GoesOn
        <4>1. reply' = reply /\ "connect" \in Steps
          BY <2>2 DEF Steps
        <4> QED BY <1>1, <1>2, <1>3, <3>1, <4>1 DEF GoesOn
      <3>3. GrantInv'
        <4>1. pid' # Nil
          BY <1>1, <1>2
        <4> QED BY <1>3, <3>1, <4>1 DEF GrantInv
      <3> QED BY <3>2, <3>3
    <2> QED BY <1>5, <2>1, <2>2 DEF OpenReadOnly
  <1>6. CASE OpenSnapshot
    <2>1. CASE op' = [pc |-> "connect", conn |-> [op.conn EXCEPT !.ro = TRUE, !.snap = TRUE]]
               /\ UNCHANGED reply
      <3>1. /\ op'.pc = "connect" /\ op'.conn.engine = "duckdb"
            /\ op'.conn.path = op.conn.path /\ op'.conn.ro
        <4> DEFINE c == [op.conn EXCEPT !.ro = TRUE, !.snap = TRUE]
        <4>1. op' = [pc |-> "connect", conn |-> c]
          BY <2>1
        <4>2. c.engine = op.conn.engine
          BY <1>1, EngineKept
        <4>3. c.path = op.conn.path /\ c.ro
          BY <1>1, SnapshotConn
        <4> HIDE DEF c
        <4> QED BY <1>3, <4>1, <4>2, <4>3
      <3>2. GoesOn
        <4>1. reply' = reply /\ "connect" \in Steps
          BY <2>1 DEF Steps
        <4> QED BY <1>1, <1>2, <1>3, <3>1, <4>1 DEF GoesOn
      <3>3. GrantInv'
        <4>1. pid' # Nil
          BY <1>1, <1>2
        <4> QED BY <1>3, <3>1, <4>1 DEF GrantInv
      <3> QED BY <3>2, <3>3
    <2>2. CASE DropSnapshot("DB_ERR_DUCKDB")
      <3>1. "DB_ERR_DUCKDB" \in Codes /\ Fail("DB_ERR_DUCKDB")
        BY <2>2 DEF DropSnapshot, Codes
      <3> QED BY <1>4, <3>1
    <2> QED BY <1>6, <2>1, <2>2 DEF OpenSnapshot
  <1>7. CASE CreateSnapshot
    <2>1. CASE op' = [pc |-> "copy", conn |-> [op.conn EXCEPT !.tmp = SnapshotName]]
               /\ UNCHANGED reply
      <3>1. SnapshotName \in Names
        BY <1>7, FreshName DEF CreateSnapshot
      <3>2. /\ op'.pc = "copy" /\ op'.conn.engine = "duckdb"
            /\ op'.conn.path = op.conn.path /\ op'.conn.ro = op.conn.ro
            /\ op'.conn.snap = op.conn.snap
        <4> DEFINE c == [op.conn EXCEPT !.tmp = SnapshotName]
        <4>1. op' = [pc |-> "copy", conn |-> c]
          BY <2>1
        <4>2. c.engine = op.conn.engine /\ c.ro = op.conn.ro
          BY <1>1, <3>1, EngineKept
        <4>3. c.path = op.conn.path /\ c.snap = op.conn.snap
          BY <1>1, <3>1, CopyingConn
        <4> HIDE DEF c
        <4> QED BY <1>3, <4>1, <4>2, <4>3
      <3>3. GoesOn
        <4>1. reply' = reply /\ "copy" \in Steps
          BY <2>1 DEF Steps
        <4> QED BY <1>1, <1>2, <1>3, <3>2, <4>1 DEF GoesOn
      <3>4. GrantInv'
        <4>1. pid' # Nil
          BY <1>1, <1>2
        <4> QED BY <1>3, <3>2, <4>1 DEF GrantInv
      <3> QED BY <3>3, <3>4
    <2>2. CASE Fail("DB_ERR_DUCKDB")
      <3>1. "DB_ERR_DUCKDB" \in Codes
        BY DEF Codes
      <3> QED BY <1>4, <2>2, <3>1
    <2> QED BY <1>7, <2>1, <2>2 DEF CreateSnapshot
  <1> QED BY <1>5, <1>6, <1>7

\* Steps of the SQLite ladder: no copy, and an in-memory database has no second try.
LEMMA SqliteServes ==
    ASSUME IInv, GrantInv, SqliteReadWrite \/ SqliteReadOnly
    PROVE  (GoesOn \/ GivesUp) /\ GrantInv'
PROOF
  <1>1. /\ op.pc \in {"sqlite_rw", "sqlite_ro"} /\ op.pc \in Steps
        /\ pid # Nil /\ InMemory # Nil /\ op.conn \in Conns
    BY ServedConn, ConstantsAssumption DEF SqliteReadWrite, SqliteReadOnly, At, Steps
  <1>2. UNCHANGED <<pid, conn>>
    BY DEF SqliteReadWrite, SqliteReadOnly
  <1>3. op.conn.engine = "sqlite" /\ ~op.conn.snap
    BY <1>1 DEF GrantInv
  <1>4. \/ \E ro \in BOOLEAN : /\ op.conn.path = InMemory => ~ro
                               /\ op' = [pc |-> "swap", conn |-> [op.conn EXCEPT !.ro = ro]]
                               /\ UNCHANGED reply
        \/ op.conn.path # InMemory /\ Goto("sqlite_ro")
        \/ \E code \in Codes : Fail(code)
    <2>1. SqliteErrors \subseteq Codes
      BY DEF SqliteErrors, Codes
    <2>2. CASE SqliteReadWrite
      <3>1. op.conn.path \in Paths => op.conn.path # InMemory
        BY ConstantsAssumption
      <3> QED BY <2>1, <2>2, <3>1, Zenon DEF SqliteReadWrite
    <2>3. CASE SqliteReadOnly
      <3>1. op.conn.path # InMemory
        BY <2>3, ConstantsAssumption DEF SqliteReadOnly, At, GrantInv
      <3> QED BY <2>1, <2>3, <3>1 DEF SqliteReadOnly
    <2> QED BY <2>2, <2>3
  <1>5. CASE \E code \in Codes : Fail(code)
    BY <1>1, <1>2, <1>5, FailGivesUp
  <1>6. CASE op.conn.path # InMemory /\ Goto("sqlite_ro")
    <2>1. "sqlite_ro" \in Steps
      BY DEF Steps
    <2>2. GoesOn /\ op' = [pc |-> "sqlite_ro", conn |-> op.conn] /\ UNCHANGED reply
      BY <1>1, <1>2, <1>6, <2>1, GotoGoesOn
    <2>3. op.conn.path \in Paths
      BY <1>1, <1>6 DEF Conns, Targets
    <2>4. GrantInv'
      BY <1>1, <1>2, <1>3, <1>6, <2>2, <2>3 DEF GrantInv
    <2> QED BY <2>2, <2>4
  <1>7. ASSUME NEW ro \in BOOLEAN, op.conn.path = InMemory => ~ro, UNCHANGED reply,
               op' = [pc |-> "swap", conn |-> [op.conn EXCEPT !.ro = ro]]
        PROVE  GoesOn /\ GrantInv'
    <2>1. /\ op'.pc = "swap" /\ op'.conn.engine = "sqlite" /\ op'.conn.path = op.conn.path
          /\ op'.conn.ro = ro /\ ~op'.conn.snap
      <3>1. /\ [op.conn EXCEPT !.ro = ro].engine = op.conn.engine
            /\ [op.conn EXCEPT !.ro = ro].ro = ro
        BY <1>1, EngineKept
      <3>2. /\ [op.conn EXCEPT !.ro = ro].path = op.conn.path
            /\ [op.conn EXCEPT !.ro = ro].snap = op.conn.snap
        BY <1>1, ReadOnlyConn
      <3> QED BY <1>3, <1>7, <3>1, <3>2
    <2>2. GoesOn
      BY <1>1, <1>2, <1>3, <1>7, <2>1 DEF GoesOn, Steps
    <2>3. GrantInv'
      BY <1>1, <1>2, <1>7, <2>1 DEF GrantInv
    <2> QED BY <2>2, <2>3
  <1> QED BY <1>4, <1>5, <1>6, <1>7

-----------------------------------------------------------------------------
(* Seen by the page *)

Asked == [engine |-> op.conn.engine, path |-> op.conn.path]
Answered(r) ==
    [kind |-> IF r.ok THEN "ok" ELSE IF r.code = "none" THEN "none" ELSE "error",
     conn |-> Described(r.conn)]

\* A request is being served exactly while the ladder is at one of its steps.
LEMMA AskedSomething ==
    ASSUME IInv
    PROVE  op.pc \in Steps <=> Asked # Promise!NoRequest
PROOF
  <1>1. CASE op = NoOp
    BY <1>1 DEF NoOp, NoConn, Asked, Promise!NoRequest, Steps
  <1>2. CASE op # NoOp
    <2>1. op.pc \in Steps /\ op.conn.engine \in Engines
      BY <1>2 DEF IInv, TypeOK, Conns
    <2>2. Asked.engine # Promise!NoRequest.engine
      BY <2>1 DEF Asked, Promise!NoRequest, Engines
    <2> QED BY <2>1, <2>2
  <1> QED BY <1>1, <1>2

\* The page sees nothing of a step that goes on ...
LEMMA GoesOnStutters == ASSUME GoesOn PROVE UNCHANGED Promise!vars
PROOF
  BY DEF GoesOn, Promise!vars, Described

\* ... a refusal in one that gives up ...
LEMMA GivesUpRefuses == ASSUME IInv, GivesUp PROVE Promise!Refuse
PROOF
  <1>1. Asked # Promise!NoRequest
    BY AskedSomething DEF GivesUp
  <1>2. Asked' = Promise!NoRequest
    BY DEF GivesUp, Asked, NoOp, NoConn, Promise!NoRequest
  <1>3. Answered(reply') = Promise!Answer("error", Promise!NoConn)
    BY DEF GivesUp, Answered, Described, NoConn, Promise!Answer, Promise!NoConn
  <1>4. (pid # Nil)' = (pid # Nil) /\ Described(conn)' = Described(conn)
    BY DEF GivesUp, Described
  <1> QED BY <1>1, <1>2, <1>3, <1>4 DEF Promise!Refuse, Asked, Answered

\* ... and the connection it asked for, in a mode it has, in the swap.
LEMMA SwapGrants ==
    ASSUME IInv, GrantInv, Swap
    PROVE  (\E c \in Promise!Grants(Asked) : Promise!Grant(c)) /\ GrantInv'
PROOF
  <1>1. op.pc = "swap" /\ op.pc \in Steps /\ pid # Nil /\ op.conn \in Conns
    BY ServedConn DEF Swap, At, Steps
  <1>2. /\ conn' = op.conn /\ op' = NoOp /\ pid' = pid
        /\ reply' = [ok |-> TRUE, code |-> "none", conn |-> op.conn]
    BY DEF Swap
  <1> DEFINE c == Described(op.conn)
  <1>3. c \in Promise!Grants(Asked)
    <2>1. /\ c = [engine |-> op.conn.engine, path |-> op.conn.path, ro |-> op.conn.ro,
                  snap |-> op.conn.snap]
          /\ op.conn.ro \in BOOLEAN /\ op.conn.snap \in BOOLEAN
      BY <1>1 DEF Described, Conns
    <2>2. /\ op.conn.snap => op.conn.ro /\ op.conn.engine = "duckdb"
          /\ op.conn.path = InMemory => ~op.conn.ro
      BY <1>1 DEF GrantInv
    <2> QED BY <2>1, <2>2 DEF Promise!Grants, Asked
  <1>4. Asked # Promise!NoRequest
    BY <1>1, AskedSomething
  <1>5. Asked' = Promise!NoRequest
    BY <1>2 DEF Asked, NoOp, NoConn, Promise!NoRequest
  <1>6. Answered(reply') = Promise!Answer("ok", c)
    BY <1>2 DEF Answered, Promise!Answer
  <1>7. (pid # Nil)' = (pid # Nil) /\ Described(conn)' = c
    BY <1>2 DEF Described
  <1>8. Promise!Grant(c)
    BY <1>4, <1>5, <1>6, <1>7 DEF Promise!Grant, Asked, Answered
  <1>9. GrantInv'
    BY <1>1, <1>2, ConstantsAssumption DEF GrantInv, NoOp, NoConn, Steps
  <1> QED BY <1>3, <1>8, <1>9

\* What a request looks like when it arrives.
LEMMA BeginAsks ==
    ASSUME IInv, NEW p \in Targets, NEW engine \in Engines, Begin(p, engine), pid' # Nil,
           conn' = conn
    PROVE  /\ Asked' = [engine |-> engine, path |-> p]
           /\ Answered(reply') = Promise!NoAnswer /\ GrantInv'
PROOF
  <1>1. Asked' = [engine |-> engine, path |-> p]
    BY DEF Asked, Begin
  <1>2. Answered(reply') = Promise!NoAnswer
    BY DEF Begin, Answered, NoReply, Described, NoConn,
           Promise!NoAnswer, Promise!Answer, Promise!NoConn
  <1>3. /\ op'.pc = IF engine = "duckdb" THEN "alloc" ELSE "sqlite_rw"
        /\ op'.conn.engine = engine /\ op'.conn.path = p /\ ~op'.conn.ro /\ ~op'.conn.snap
    BY DEF Begin
  <1>4. GrantInv'
    BY <1>3 DEF GrantInv, Engines, Steps
  <1> QED BY <1>1, <1>2, <1>4

\* app.open and app.new_memory are requests.
LEMMA OpenAsks ==
    ASSUME IInv, GrantInv,
           \/ \E p \in Paths, engine \in Engines \cup {"none"} : Open(p, engine)
           \/ \E engine \in Engines : NewMemory(engine)
    PROVE  (\E r \in Promise!Requests : Promise!Ask(r)) /\ GrantInv'
PROOF
  <1>1. PICK p \in Targets, engine \in Engines : Begin(p, engine)
    <2>1. CASE \E p \in Paths, engine \in Engines \cup {"none"} : Open(p, engine)
      <3>1. PICK p \in Paths, engine \in Engines \cup {"none"} : Open(p, engine)
        BY <2>1
      <3>2. EngineOf(p, engine) \in Engines /\ p \in Targets
        BY DEF EngineOf, Engines, Targets
      <3> QED BY <3>1, <3>2 DEF Open
    <2>2. CASE \E engine \in Engines : NewMemory(engine)
      BY <2>2 DEF NewMemory, Targets
    <2> QED BY <2>1, <2>2
  <1>2. At("idle") /\ UNCHANGED <<pid, conn>>
    BY DEF Open, NewMemory
  <1>3. pid # Nil /\ op.pc \notin Steps
    BY <1>2 DEF At, Steps
  <1>4. Asked = Promise!NoRequest
    BY <1>3, AskedSomething
  <1> DEFINE r == [engine |-> engine, path |-> p]
  <1>5. Asked' = r /\ Answered(reply') = Promise!NoAnswer /\ GrantInv'
    BY <1>1, <1>2, <1>3, BeginAsks
  <1>6. r \in Promise!Requests
    BY DEF Promise!Requests, Promise!Engines, Engines, Targets
  <1>7. (pid # Nil)' = (pid # Nil) /\ Described(conn)' = Described(conn)
    BY <1>2 DEF Described
  <1>8. Promise!Ask(r)
    BY <1>3, <1>4, <1>5, <1>7 DEF Promise!Ask, Asked, Answered
  <1> QED BY <1>5, <1>6, <1>8

\* A start of the program, with a file on the command line or without.
LEMMA LaunchStarts ==
    ASSUME IInv, GrantInv, NEW id \in Pids, Launch(id)
    PROVE  (\E r \in Promise!OfFile \cup {Promise!NoRequest} : Promise!Start(r)) /\ GrantInv'
PROOF
  <1>1. pid = Nil /\ pid' = id /\ conn' = conn /\ id # Nil
    BY ConstantsAssumption DEF Launch
  <1>2. op = NoOp /\ reply = NoReply
    BY <1>1 DEF IInv, ConnInv, GrantInv
  <1>3. (pid # Nil)' = TRUE /\ (pid # Nil) = FALSE /\ Described(conn)' = Described(conn)
    BY <1>1 DEF Described
  <1>4. CASE UNCHANGED <<op, reply>>
    <2>1. Asked' = Promise!NoRequest
      BY <1>2, <1>4 DEF Asked, NoOp, NoConn, Promise!NoRequest
    <2>2. Promise!Start(Promise!NoRequest)
      BY <1>3, <1>4, <2>1 DEF Promise!Start, Asked
    <2>3. GrantInv'
      BY <1>1, <1>4 DEF GrantInv
    <2> QED BY <2>2, <2>3
  <1>5. CASE \E p \in Paths : Begin(p, EngineOf(p, "none"))
    <2>1. PICK p \in Paths : Begin(p, EngineOf(p, "none"))
      BY <1>5
    <2> DEFINE r == [engine |-> EngineOf(p, "none"), path |-> p]
    <2>2. EngineOf(p, "none") \in Engines /\ p \in Targets
      BY DEF EngineOf, Engines, Targets
    <2>3. Asked' = r /\ Answered(reply') = Promise!NoAnswer /\ GrantInv'
      BY <1>1, <2>1, <2>2, BeginAsks
    <2>4. Answered(reply) = Promise!NoAnswer
      BY <1>2 DEF Answered, NoReply, Described, NoConn,
                  Promise!NoAnswer, Promise!Answer, Promise!NoConn
    <2>5. r \in Promise!OfFile
      BY <2>2 DEF Promise!OfFile, Promise!Engines, Engines
    <2>6. Promise!Start(r)
      BY <1>3, <2>3, <2>4 DEF Promise!Start, Asked, Answered
    <2> QED BY <2>3, <2>5, <2>6
  <1> QED BY <1>4, <1>5 DEF Launch

\* Both ends of the process take connection and request with them.
LEMMA EndStops ==
    ASSUME IInv, GrantInv, CloseWindow \/ Terminate
    PROVE  Promise!Stop /\ GrantInv'
PROOF
  <1>1. pid # Nil /\ pid' = Nil /\ conn' = NoConn /\ reply' = NoReply
    BY DEF CloseWindow, Terminate, At
  <1>2. op' = NoOp
    BY <1>1 DEF CloseWindow, Terminate, At, IInv, TypeOK, Steps
  <1>3. Asked' = Promise!NoRequest
    BY <1>2 DEF Asked, NoOp, NoConn, Promise!NoRequest
  <1>4. Answered(reply') = Promise!NoAnswer /\ Described(conn)' = Promise!NoConn
    BY <1>1 DEF Answered, NoReply, Described, NoConn,
                Promise!NoAnswer, Promise!Answer, Promise!NoConn
  <1>5. (pid # Nil) = TRUE /\ (pid # Nil)' = FALSE
    BY <1>1
  <1>6. Promise!Stop
    BY <1>3, <1>4, <1>5 DEF Promise!Stop, Asked, Answered
  <1>7. GrantInv'
    BY <1>1, <1>2, ConstantsAssumption DEF GrantInv, NoOp, NoConn, Steps
  <1> QED BY <1>6, <1>7

\* The open ladder, the swap and the ends of the process keep the shell's promise, whatever
\* fails and whoever locks, commits or crashes: each open has one answer, and the
\* connection is what the answer says or what it was.
THEOREM Implements == Spec => KeepsPromise
PROOF
  <1>1. ASSUME Init PROVE Promise!Init /\ GrantInv
    <2>1. pid = Nil /\ conn = NoConn /\ op = NoOp /\ reply = NoReply
      BY <1>1 DEF Init
    <2>2. GrantInv
      BY <2>1, ConstantsAssumption DEF GrantInv, NoOp, NoConn, Steps
    <2>3. Asked = Promise!NoRequest
      BY <2>1 DEF Asked, NoOp, NoConn, Promise!NoRequest
    <2>4. Answered(reply) = Promise!NoAnswer /\ Described(conn) = Promise!NoConn
      BY <2>1 DEF Answered, NoReply, Described, NoConn,
                  Promise!NoAnswer, Promise!Answer, Promise!NoConn
    <2>5. (pid # Nil) = FALSE
      BY <2>1
    <2> QED BY <2>2, <2>3, <2>4, <2>5 DEF Promise!Init, Asked, Answered
  <1>2. ASSUME IInv, GrantInv, [Next]_vars
        PROVE  GrantInv' /\ [Promise!Next]_(Promise!vars)
    <2>1. CASE Serve
      <3>1. CASE Swap
        <4>1. Promise!Next
          BY <1>2, <3>1, SwapGrants DEF Promise!Next, Asked
        <4> QED BY <1>2, <3>1, <4>1, SwapGrants
      <3>2. CASE ~Swap
        <4>1. (GoesOn \/ GivesUp) /\ GrantInv'
          BY <1>2, <2>1, <3>2, DuckServes, DuckFallsBack, SqliteServes DEF Serve
        <4> QED BY <1>2, <4>1, GoesOnStutters, GivesUpRefuses DEF Promise!Next
      <3> QED BY <3>1, <3>2
    <2>2. CASE \/ \E p \in Paths, engine \in Engines \cup {"none"} : Open(p, engine)
               \/ \E engine \in Engines : NewMemory(engine)
      BY <1>2, <2>2, OpenAsks DEF Promise!Next
    <2>3. CASE \E id \in Pids : Launch(id)
      BY <1>2, <2>3, LaunchStarts DEF Promise!Next
    <2>4. CASE CloseWindow \/ Terminate
      BY <1>2, <2>4, EndStops DEF Promise!Next
    <2>5. CASE UNCHANGED <<pid, conn, op, reply>>
      BY <1>2, <2>5 DEF GrantInv, Promise!vars, Described
    <2>6. CASE \/ \E p \in Paths : OtherLocks(p) \/ OtherCommits(p) \/ OtherUnlocks(p)
               \/ UNCHANGED vars
      BY <2>5, <2>6 DEF OtherLocks, OtherCommits, OtherUnlocks, vars
    <2> QED BY <1>2, <2>1, <2>2, <2>3, <2>4, <2>6 DEF Next
  <1> QED BY <1>1, <1>2, Inductive, PTL DEF Spec, KeepsPromise, Promise!Spec

-----------------------------------------------------------------------------
(* How old a snapshot is *)

\* A connection is not older than its file, and its copy lies between the two.
Aged(c) ==
    /\ c.path \in Paths => c.since <= ver[c.path]
    /\ c.tmp # NoName => c.path \in Paths /\ InOrder(tmp[c.tmp], c.since, ver[c.path])

\* The second inductive invariant.
AgeInv == Aged(conn) /\ Aged(op.conn)

\* A copy stays in order when a buffer read now is appended, when its tail is lost, and
\* when the file grows newer.
LEMMA AppendInOrder ==
    ASSUME NEW s \in Seq(Nat), NEW lo \in Nat, NEW hi \in Nat, lo <= hi, InOrder(s, lo, hi)
    PROVE  InOrder(Append(s, hi), lo, hi)
PROOF
  <1>1. /\ Len(s) \in Nat /\ DOMAIN s = 1..Len(s)
        /\ DOMAIN Append(s, hi) = 1..(Len(s) + 1)
        /\ Append(s, hi)[Len(s) + 1] = hi
        /\ \A i \in 1..Len(s) : Append(s, hi)[i] = s[i]
    BY AppendProperties, LenProperties
  <1>2. \A i \in 1..Len(s) : s[i] \in lo..hi
    BY <1>1 DEF InOrder
  <1>3. ASSUME NEW i \in 1..(Len(s) + 1), NEW j \in 1..(Len(s) + 1)
        PROVE  /\ Append(s, hi)[i] \in lo..hi
               /\ i <= j => Append(s, hi)[i] <= Append(s, hi)[j]
    <2>1. CASE j \in 1..Len(s) /\ i \in 1..Len(s)
      BY <1>1, <2>1 DEF InOrder
    <2>2. CASE j = Len(s) + 1 \/ i = Len(s) + 1
      <3>1. Append(s, hi)[i] \in lo..hi
        BY <1>1, <1>2
      <3>2. i <= j => Append(s, hi)[j] = hi
        BY <1>1, <2>2
      <3> QED BY <3>1, <3>2
    <2> QED BY <1>1, <2>1, <2>2
  <1> QED BY <1>1, <1>3 DEF InOrder

LEMMA FrontInOrder ==
    ASSUME NEW s \in Seq(Nat), NEW lo \in Nat, NEW hi \in Nat, InOrder(s, lo, hi)
    PROVE  InOrder(SubSeq(s, 1, Len(s) - 1), lo, hi)
PROOF
  <1>1. /\ Len(s) \in Nat /\ DOMAIN s = 1..Len(s)
        /\ \A i \in 1..Len(s) : s[i] \in Nat
    BY LenProperties, ElementOfSeq
  <1>2. 1 \in Int /\ Len(s) - 1 \in Int /\ \A i \in 1..(Len(s) - 1) : s[i] \in Nat
    BY <1>1
  <1> DEFINE f == SubSeq(s, 1, Len(s) - 1)
  <1>3. /\ f \in Seq(Nat)
        /\ Len(f) = IF 1 <= Len(s) - 1 THEN Len(s) - 1 - 1 + 1 ELSE 0
        /\ \A i \in 1..(Len(s) - 1 - 1 + 1) : f[i] = s[1 + i - 1]
    BY <1>2, SubSeqProperties
  <1>4. DOMAIN f = 1..Len(f) /\ Len(f) \in Nat
    BY <1>3, LenProperties
  <1>5. \A i \in DOMAIN f : i \in DOMAIN s /\ f[i] = s[i]
    BY <1>1, <1>3, <1>4
  <1> QED BY <1>5 DEF InOrder

LEMMA GrowsInOrder ==
    ASSUME NEW s, NEW lo \in Nat, NEW hi \in Nat, NEW newer \in Nat, hi <= newer,
           InOrder(s, lo, hi)
    PROVE  InOrder(s, lo, newer)
PROOF
  BY DEF InOrder

\* A connection whose copy no step touches stays as old as it was.
LEMMA AgedKept ==
    ASSUME NEW c, c.since \in Nat, Aged(c),
           ver \in [Paths -> Nat], ver' \in [Paths -> Nat],
           \A p \in Paths : ver[p] <= ver'[p],
           c.tmp # NoName => tmp'[c.tmp] = tmp[c.tmp]
    PROVE  Aged(c)'
PROOF
  <1>1. CASE c.path \in Paths
    <2>1. ver[c.path] \in Nat /\ ver'[c.path] \in Nat /\ ver[c.path] <= ver'[c.path]
      BY <1>1
    <2>2. c.since <= ver'[c.path]
      BY <1>1, <2>1 DEF Aged
    <2>3. c.tmp # NoName => InOrder(tmp'[c.tmp], c.since, ver'[c.path])
      BY <2>1, GrowsInOrder DEF Aged
    <2> QED BY <2>2, <2>3 DEF Aged
  <1>2. CASE c.path \notin Paths
    BY <1>2 DEF Aged
  <1> QED BY <1>1, <1>2

\* No step makes a file older.
LEMMA VersionsGrow ==
    ASSUME IInv, IInv', [Next]_vars
    PROVE  /\ ver \in [Paths -> Nat] /\ ver' \in [Paths -> Nat]
           /\ \A p \in Paths : ver[p] <= ver'[p]
PROOF
  <1>1. ver \in [Paths -> Nat] /\ ver' \in [Paths -> Nat]
    BY ConstantsAssumption DEF IInv, TypeOK
  <1>2. CASE \E p \in Paths : OtherCommits(p)
    BY <1>1, <1>2 DEF OtherCommits
  <1>3. CASE ~\E p \in Paths : OtherCommits(p)
    <2>1. ver' = ver
      BY <1>3
      DEF Next, Serve, Open, NewMemory, Launch, Alloc, OpenReadWrite, OpenReadOnly,
          CreateSnapshot, CopyChunk, ReturnSnapshot, OpenSnapshot, Connect, SqliteReadWrite,
          SqliteReadOnly, Swap, CloseWindow, Terminate, OtherLocks, OtherUnlocks, vars
    <2> QED BY <1>1, <2>1
  <1> QED BY <1>1, <1>2, <1>3

\* The copy under construction: a step moves it on, appends what the file holds now,
\* drops it, or starts it from nothing.
LEMMA BuildingAged ==
    ASSUME IInv, IInv', [Next]_vars, AgeInv
    PROVE  Aged(op.conn)'
PROOF
  <1>1. /\ ver \in [Paths -> Nat] /\ ver' \in [Paths -> Nat]
        /\ \A p \in Paths : ver[p] <= ver'[p]
    BY VersionsGrow
  <1>2. PICK c : c = op.conn
    OBVIOUS
  <1>3. c.since \in Nat
    <2>1. op.conn \in Conns \/ op.conn = NoConn
      BY DEF IInv, TypeOK, NoOp
    <2> QED BY <1>2, <2>1 DEF Conns, NoConn
  <1>4. Aged(c) /\ NoConn.path \notin Paths /\ NoConn.tmp = NoName
    BY <1>2, ConstantsAssumption DEF AgeInv, NoConn
  <1>5. ASSUME op'.conn.tmp = c.tmp, op'.conn.path = c.path, op'.conn.since = c.since,
               c.tmp # NoName => tmp'[c.tmp] = tmp[c.tmp]
        PROVE  Aged(op.conn)'
    <2>1. Aged(c)'
      BY <1>1, <1>3, <1>4, <1>5, AgedKept
    <2> QED BY <1>5, <2>1 DEF Aged
  <1>6. CASE op' = NoOp
    BY <1>4, <1>6 DEF Aged, NoOp
  <1>7. CASE tmp' = tmp /\ op'.conn.tmp = c.tmp /\ op'.conn.path = c.path
             /\ op'.conn.since = c.since
    BY <1>5, <1>7
  <1>8. CASE \E p \in Targets, engine \in Engines : Begin(p, engine) /\ UNCHANGED ver
    <2>1. PICK p \in Targets, engine \in Engines : Begin(p, engine) /\ UNCHANGED ver
      BY <1>8
    <2>2. op'.conn.path = p /\ op'.conn.tmp = NoName
          /\ op'.conn.since = IF p = InMemory THEN 0 ELSE ver[p]
      BY <2>1 DEF Begin
    <2>3. p \in Paths => op'.conn.since = ver'[p] /\ ver'[p] \in Nat
      BY <1>1, <2>1, <2>2, ConstantsAssumption
    <2> QED BY <2>2, <2>3 DEF Aged
  <1>9. CASE CreateSnapshot /\ op' # NoOp
    <2>1. /\ tmp' = Truncate(tmp, SnapshotName) /\ UNCHANGED ver
          /\ op' = [pc |-> "copy", conn |-> [op.conn EXCEPT !.tmp = SnapshotName]]
      BY <1>9 DEF CreateSnapshot, Fail
    <2>2. op.conn \in Conns /\ op.conn.path \in Paths /\ SnapshotName \in Names
      BY <1>9, Building, FreshName DEF CreateSnapshot, At, IInv, OpInv, Steps
    <2>3. op'.conn.tmp = SnapshotName /\ op'.conn.path = c.path /\ op'.conn.since = c.since
      BY <1>2, <2>1, <2>2 DEF Conns
    <2>4. tmp'[SnapshotName] = << >>
      BY <2>1 DEF Truncate
    <2>5. \A lo, hi : InOrder(<< >>, lo, hi)
      BY DEF InOrder
    <2>6. c.since <= ver'[c.path]
      BY <1>2, <1>4, <2>1, <2>2 DEF Aged
    <2> QED BY <1>2, <2>2, <2>3, <2>4, <2>5, <2>6 DEF Aged
  <1>10. CASE CopyChunk /\ op' # NoOp
    <2> DEFINE n == op.conn.tmp
               v == ver[op.conn.path]
    <2>1. /\ n # NoName /\ c.path \in Paths /\ n \in DOMAIN tmp
          /\ tmp[n] \in Seq(Nat) /\ v \in Nat
      <3>1. n # NoName /\ c.path \in Paths /\ n \in DOMAIN tmp
        BY <1>2, <1>10 DEF CopyChunk, At, IInv, OpInv
      <3>2. tmp[n] \in Seq(0..MaxVer) /\ 0..MaxVer \subseteq Nat
        BY <3>1, ConstantsAssumption DEF IInv, TypeOK
      <3>3. tmp[n] \in Seq(Nat)
        BY <3>2, SeqMonotonic
      <3> QED BY <1>1, <1>2, <3>1, <3>3
    <2>2. op'.conn = op.conn /\ UNCHANGED ver
      BY <1>10 DEF CopyChunk, Goto, DropSnapshot, Fail
    <2>3. c.since <= v /\ InOrder(tmp[n], c.since, v)
      BY <1>2, <1>4, <2>1 DEF Aged
    <2>4. \/ tmp'[n] = tmp[n]
          \/ tmp'[n] = Append(tmp[n], v)
          \/ tmp'[n] = SubSeq(tmp[n], 1, Len(tmp[n]) - 1)
      BY <1>10, <2>1 DEF CopyChunk, DropSnapshot, Fail, WriteChunk, LoseTail
    <2>5. InOrder(tmp'[n], c.since, v)
      <3>1. InOrder(Append(tmp[n], v), c.since, v)
        BY <1>3, <2>1, <2>3, AppendInOrder
      <3>2. InOrder(SubSeq(tmp[n], 1, Len(tmp[n]) - 1), c.since, v)
        BY <1>3, <2>1, <2>3, FrontInOrder
      <3> QED BY <2>3, <2>4, <3>1, <3>2
    <2> QED BY <1>2, <2>1, <2>2, <2>3, <2>5 DEF Aged
  <1>11. CASE OpenReadOnly \/ OpenSnapshot \/ SqliteReadWrite \/ SqliteReadOnly
    <2>1. op.conn \in Conns
      BY <1>11, Building DEF OpenReadOnly, OpenSnapshot, SqliteReadWrite, SqliteReadOnly, Steps
    <2>2. \A ro \in BOOLEAN : LET k == [op.conn EXCEPT !.ro = ro]
                              IN  k.tmp = c.tmp /\ k.path = c.path /\ k.since = c.since
      BY <1>2, <2>1 DEF Conns
    <2>3. LET k == [op.conn EXCEPT !.ro = TRUE, !.snap = TRUE]
          IN  k.tmp = c.tmp /\ k.path = c.path /\ k.since = c.since
      BY <1>2, <2>1 DEF Conns
    <2>4. op' = NoOp \/ (tmp' = tmp /\ op'.conn.tmp = c.tmp /\ op'.conn.path = c.path
                                    /\ op'.conn.since = c.since)
      <3>1. CASE OpenReadOnly \/ OpenSnapshot
        <4>1. \/ op' = NoOp
              \/ /\ tmp' = tmp
                 /\ \/ op'.conn = op.conn
                    \/ op'.conn = [op.conn EXCEPT !.ro = TRUE]
                    \/ op'.conn = [op.conn EXCEPT !.ro = TRUE, !.snap = TRUE]
          <5>1. CASE OpenReadOnly
            <6>1. tmp' = tmp
              BY <5>1 DEF OpenReadOnly
            <6>2. \/ op' = [pc |-> "connect", conn |-> [op.conn EXCEPT !.ro = TRUE]]
                  \/ op' = [pc |-> "snap", conn |-> op.conn]
              BY <5>1 DEF OpenReadOnly, Goto
            <6>3. op'.conn = op.conn \/ op'.conn = [op.conn EXCEPT !.ro = TRUE]
              <7>1. \A k : op' = [pc |-> "snap", conn |-> k] => op'.conn = k
                OBVIOUS
              <7>2. \A k : op' = [pc |-> "connect", conn |-> k] => op'.conn = k
                OBVIOUS
              <7> QED BY <6>2, <7>1, <7>2, Zenon
            <6> QED BY <6>1, <6>3, Zenon
          <5>2. CASE OpenSnapshot
            BY <5>2 DEF OpenSnapshot, DropSnapshot, Fail
          <5> QED BY <3>1, <5>1, <5>2
        <4> QED BY <1>2, <2>2, <2>3, <4>1
      <3>2. CASE SqliteReadWrite \/ SqliteReadOnly
        <4>1. tmp' = tmp
          BY <3>2 DEF SqliteReadWrite, SqliteReadOnly
        <4>2. \A code : /\ Fail(code) => op' = NoOp
                        /\ Goto("sqlite_ro") => op'.conn = op.conn
          BY DEF Fail, Goto
        <4>3. \A ro : op' = [pc |-> "swap", conn |-> [op.conn EXCEPT !.ro = ro]]
                        => op'.conn = [op.conn EXCEPT !.ro = ro]
          OBVIOUS
        <4>4. \/ op' = NoOp
              \/ op'.conn = op.conn
              \/ \E ro \in BOOLEAN : op'.conn = [op.conn EXCEPT !.ro = ro]
              \/ op'.conn = [op.conn EXCEPT !.ro = TRUE]
          BY <3>2, <4>2, <4>3, Zenon DEF SqliteReadWrite, SqliteReadOnly
        <4> QED BY <1>2, <2>2, <4>1, <4>4
      <3> QED BY <1>11, <3>1, <3>2
    <2> QED BY <1>6, <1>7, <2>4
  <1>12. CASE Alloc \/ OpenReadWrite \/ ReturnSnapshot \/ Connect \/ Swap
    <2>1. op' = NoOp \/ (tmp' = tmp /\ op'.conn = op.conn)
      BY <1>12
        DEF Alloc, OpenReadWrite, ReturnSnapshot, Connect, Swap, Goto, DropSnapshot, Fail
    <2> QED BY <1>2, <1>6, <1>7, <2>1
  <1>13. CASE CloseWindow \/ Terminate
    <2>1. op' = NoOp
      BY <1>13 DEF CloseWindow, Terminate, At, IInv, TypeOK, Steps
    <2> QED BY <1>6, <2>1
  <1>14. CASE \/ \E p \in Paths : OtherLocks(p) \/ OtherCommits(p) \/ OtherUnlocks(p)
              \/ UNCHANGED vars
    BY <1>2, <1>7, <1>14 DEF OtherLocks, OtherCommits, OtherUnlocks, vars
  <1>15. CASE \/ \E p \in Paths, engine \in Engines \cup {"none"} : Open(p, engine)
              \/ \E engine \in Engines : NewMemory(engine)
              \/ \E id \in Pids : Launch(id)
    <2>1. \A p, engine : EngineOf(p, engine) \in Engines \/ engine \notin Engines \cup {"none"}
      BY DEF EngineOf, Engines
    <2>2. \/ \E p \in Targets, engine \in Engines : Begin(p, engine) /\ UNCHANGED ver
          \/ tmp' = tmp /\ op' = op
      BY <1>15, <2>1 DEF Open, NewMemory, Launch, Targets
    <2> QED BY <1>2, <1>7, <1>8, <2>2
  <1> QED BY <1>6, <1>9, <1>10, <1>11, <1>12, <1>13, <1>14, <1>15 DEF Next, Serve

\* The active connection keeps its copy, or is the one just built.
LEMMA ActiveAged ==
    ASSUME IInv, IInv', [Next]_vars, AgeInv
    PROVE  Aged(conn)'
PROOF
  <1>1. /\ ver \in [Paths -> Nat] /\ ver' \in [Paths -> Nat]
        /\ \A p \in Paths : ver[p] <= ver'[p]
    BY VersionsGrow
  <1>2. CASE conn' = conn
    <2>1. PICK c : c = conn
      OBVIOUS
    <2>2. c.since \in Nat
      <3>1. conn \in Conns \/ conn = NoConn
        BY DEF IInv, TypeOK
      <3> QED BY <2>1, <3>1 DEF Conns, NoConn
    <2>3. c.tmp # NoName => tmp'[c.tmp] = tmp[c.tmp]
      <3>1. CASE Next
        BY <1>2, <2>1, <3>1, SnapshotKept DEF IInv, SnapshotComplete
      <3> QED BY <3>1 DEF vars
    <2>4. Aged(c)'
      BY <1>1, <2>1, <2>2, <2>3, AgedKept DEF AgeInv
    <2> QED BY <1>2, <2>1, <2>4 DEF Aged
  <1>3. CASE Swap
    <2>1. PICK c : c = op.conn
      OBVIOUS
    <2>2. c.since \in Nat
      BY <1>3, <2>1, Building DEF Swap, Steps, Conns
    <2>3. conn' = c /\ tmp' = Unlink(tmp, TempOf(conn))
      BY <1>3, <2>1 DEF Swap
    <2>4. c.tmp # NoName => tmp'[c.tmp] = tmp[c.tmp]
      <3> SUFFICES ASSUME c.tmp # NoName PROVE tmp'[c.tmp] = tmp[c.tmp]
        OBVIOUS
      <3>1. c.tmp \in DOMAIN tmp
        BY <2>1 DEF IInv, OpInv
      <3>2. c.tmp \notin TempOf(conn)
        BY <2>1 DEF IInv, CopiesDistinct, TempOf
      <3> QED BY <2>3, <3>1, <3>2, UnlinkKeeps
    <2>5. Aged(c)'
      BY <1>1, <2>1, <2>2, <2>4, AgedKept DEF AgeInv
    <2> QED BY <2>3, <2>5 DEF Aged
  <1>4. CASE conn' = NoConn
    BY <1>4, ConstantsAssumption DEF Aged, NoConn
  <1>5. conn' = conn \/ Swap \/ conn' = NoConn
    BY DEF Next, Serve, Open, NewMemory, Launch, Alloc, OpenReadWrite, OpenReadOnly,
           CreateSnapshot, CopyChunk, ReturnSnapshot, OpenSnapshot, Connect, CloseWindow,
           Terminate, SqliteReadWrite, SqliteReadOnly, OtherLocks, OtherCommits,
           OtherUnlocks, vars
  <1> QED BY <1>2, <1>3, <1>4, <1>5

\* Whenever the file changes during the copy, the snapshot holds nothing older than its
\* request and nothing out of order.
THEOREM SnapshotStaysFresh == Spec => []SnapshotFresh
PROOF
  <1>1. Init => AgeInv
    BY ConstantsAssumption DEF Init, AgeInv, Aged, NoOp, NoConn
  <1>2. IInv /\ IInv' /\ [Next]_vars /\ AgeInv => AgeInv'
    BY BuildingAged, ActiveAged DEF AgeInv
  <1>3. IInv /\ AgeInv => SnapshotFresh
    BY ConstantsAssumption
    DEF IInv, SnapshotComplete, AgeInv, Aged, SnapshotFresh, TypeOK, Names, NoName
  <1> QED BY <1>1, <1>2, <1>3, Inductive, PTL DEF Spec
=============================================================================
