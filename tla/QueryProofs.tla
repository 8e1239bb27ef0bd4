---------------------------- MODULE QueryProofs -----------------------------
(***************************************************************************)
(* Proofs, for every text, result, cap on rows and initial room, that      *)
(* stores stay inside the array, that replies are exact, and that freeing  *)
(* a result frees what was stored in it.                                   *)
(***************************************************************************)
EXTENDS Query, TLAPS

\* The array has room for the row in progress, and for a row once it was allocated.
RoomInv ==
    /\ n_rows <= st.total /\ n_rows <= MaxRows
    /\ n_rows * st.cols <= cap
    /\ cap = 0 \/ cap >= st.cols
    /\ pc = "cell" => n_rows < st.total /\ n_rows < MaxRows /\ (n_rows + 1) * st.cols <= cap

\* It holds the cells copied so far, and Junk after them.
CellsInv ==
    /\ \A k \in Upto(cap) : values[k] = Junk <=> k >= Index
    /\ \A row \in Upto(n_rows), c \in Upto(st.cols) :
          values[row * st.cols + c] = Cell(st.rows[row][c])
    /\ \A c \in Upto(col) : values[n_rows * st.cols + c] = Cell(st.rows[n_rows][c])

\* A result is complete when it is serialized, and knows whether it was cut.
EndInv ==
    /\ truncated => pc = "json" /\ st.total > MaxRows /\ n_rows = MaxRows
    /\ pc = "json" /\ ~truncated => n_rows = st.total

\* While a request is served there is no reply and nothing was freed.
PhaseInv ==
    /\ pc # "idle" => reply = NoReply /\ ~wild /\ script \in Scripts
    /\ pc \notin {"idle", "query"} => engine # "none"

\* The inductive invariant.
IInv ==
    /\ TypeOK /\ PhaseInv
    /\ InResult => RoomInv /\ CellsInv /\ EndInv
    /\ ReplyExact /\ NoLeak /\ FreesStored

-----------------------------------------------------------------------------
(* Arithmetic of the array *)

LEMMA ProductGrows ==
    ASSUME NEW a \in Nat, NEW b \in Nat, NEW m \in Nat, a <= b
    PROVE  a * m <= b * m /\ a * m \in Nat
PROOF
  <1>1. PICK d \in Nat : b = a + d
    <2>1. b - a \in Nat /\ b = a + (b - a)
      OBVIOUS
    <2> QED
      BY <2>1
  <1>2. d * m \in Nat /\ a * m \in Nat
    OBVIOUS
  <1>3. b * m = a * m + d * m
    BY <1>1
  <1> QED
    BY <1>2, <1>3

\* The cells of a row end where the next row begins.
LEMMA CellBeforeRow ==
    ASSUME NEW n \in Nat, NEW m \in Nat, NEW row \in Upto(n), NEW c \in Upto(m)
    PROVE  row * m + c < n * m /\ row * m + c \in Nat
PROOF
  <1>1. row \in Nat /\ c \in Nat /\ row + 1 <= n /\ c + 1 <= m
    BY DEF Upto
  <1>2. (row + 1) * m <= n * m
    BY <1>1, ProductGrows
  <1>3. (row + 1) * m = row * m + m /\ row * m \in Nat /\ n * m \in Nat
    BY <1>1
  <1> QED
    BY <1>1, <1>2, <1>3

\* The next row ends as many cells later.
LEMMA RowAfter ==
    ASSUME NEW n \in Nat, NEW m \in Nat
    PROVE  (n + 1) * m = n * m + m
PROOF OBVIOUS

\* Growing makes room for the next row.
LEMMA GrowthSuffices ==
    ASSUME NEW n \in Nat, NEW m \in Nat, NEW c \in Nat, NEW f \in Nat \ {0},
           n * m <= c, c = 0 \/ c >= m, ~((n + 1) * m <= c)
    PROVE  /\ c = 0 => m > 0 /\ n = 0 /\ (n + 1) * m <= m * f /\ m * f \in Nat /\ m * f >= m
           /\ c # 0 => (n + 1) * m <= c * 2
PROOF
  <1>1. (n + 1) * m = n * m + m /\ n * m \in Nat /\ (n + 1) * m \in Nat
    OBVIOUS
  <1>2. CASE c = 0
    <2>1. n * m = 0 /\ m > 0
      BY <1>1, <1>2
    <2>2. n = 0
      <3>1. SUFFICES ASSUME n # 0 PROVE FALSE
        OBVIOUS
      <3>2. 1 * m <= n * m
        BY <3>1, ProductGrows
      <3> QED
        BY <3>2, <2>1
    <2>3. 1 * m <= f * m /\ f * m \in Nat
      BY ProductGrows
    <2>4. f * m = m * f
      OBVIOUS
    <2> QED
      BY <1>1, <1>2, <2>1, <2>2, <2>3, <2>4
  <1>3. CASE c # 0
    BY <1>1, <1>3
  <1> QED
    BY <1>2, <1>3

-----------------------------------------------------------------------------
(* Types *)

LEMMA StatementType == ASSUME TypeOK PROVE IsStatement(st)
PROOF
  <1>1. CASE st = NoStatement
    <2>1. Upto(0) = {}
      BY DEF Upto
    <2>2. [row \in {} |-> Null] \in [Upto(0) -> [Upto(0) -> Values]]
      BY <2>1
    <2> QED
      BY <1>1, <2>2 DEF IsStatement, NoStatement
  <1>2. CASE \E k \in DOMAIN script : st = script[k]
    <2>1. script # << >>
      BY <1>2
    <2>2. script \in Scripts
      BY <2>1 DEF TypeOK
    <2> QED
      BY <1>2, <2>2, ConstantsAssumption
  <1> QED
    BY <1>1, <1>2 DEF TypeOK

\* What is stored for a cell is a value, and is not Junk.
LEMMA CellType ==
    ASSUME TypeOK, NEW row \in Upto(st.total), NEW c \in Upto(st.cols)
    PROVE  Cell(st.rows[row][c]) \in Values /\ Cell(st.rows[row][c]) # Junk
PROOF
  <1>1. st.rows \in [Upto(st.total) -> [Upto(st.cols) -> Values]]
    BY StatementType DEF IsStatement
  <1>2. st.rows[row][c] \in Values
    BY <1>1
  <1> QED
    BY <1>2, ConstantsAssumption DEF Cell, Values

LEMMA InitInv == Init => IInv
PROOF
  <1> SUFFICES ASSUME Init PROVE IInv
    OBVIOUS
  <1>1. Upto(0) = {} /\ Len(script) = 0 /\ NoStatement.cols = 0
    BY DEF Init, Upto, NoStatement
  <1>2. values \in [Upto(cap) -> Values \cup {Junk}]
    BY <1>1 DEF Init
  <1>3. col \in 0..st.cols /\ inEffect \in 0..Len(script) /\ requests \in 0..MaxRequests
    BY <1>1, ConstantsAssumption DEF Init
  <1>4. TypeOK
    BY <1>2, <1>3, Zenon DEF Init, TypeOK, InResult, NoReply
  <1> QED
    BY <1>4 DEF Init, IInv, PhaseInv, InResult, ReplyExact, NoReply, NoLeak, FreesStored

\* Freeing a result: nothing leaks when every stored text is in the rows it frees,
\* and only what was stored is freed when these are all of it.
LEMMA FreeStep ==
    ASSUME IInv, NEW n \in Nat, Free(n), InResult
    PROVE  /\ Index <= n * st.cols => ~leaked'
           /\ n * st.cols <= Index => ~wild'
           /\ leaked' \in BOOLEAN /\ wild' \in BOOLEAN
           /\ values' \in [Upto(0) -> Values \cup {Junk}]
           /\ cap' = 0 /\ n_rows' = 0 /\ col' = 0 /\ truncated' = FALSE
PROOF
  <1>1. /\ st.cols \in Nat /\ n_rows \in Nat /\ col \in Nat
        /\ n * st.cols \in Nat /\ Index \in Nat
    <2>1. st.cols \in Nat
      BY StatementType DEF IInv, IsStatement
    <2>2. n_rows \in Nat /\ col \in Nat
      BY <2>1 DEF IInv, TypeOK
    <2>3. n * st.cols \in Nat /\ n_rows * st.cols \in Nat
      BY <2>1, <2>2
    <2> QED
      BY <2>1, <2>2, <2>3 DEF Index
  <1>2. DOMAIN values = Upto(cap) /\ \A k \in Upto(cap) : k \in Int
    BY DEF IInv, TypeOK, Upto
  <1>3. \A k \in Upto(cap) : values[k] = Junk <=> k >= Index
    BY DEF IInv, CellsInv
  <1>4. ~leaked /\ ~wild
    BY DEF IInv, NoLeak, PhaseInv, InResult
  <1>5. ASSUME Index <= n * st.cols PROVE ~leaked'
    <2>1. \A k \in DOMAIN values : k >= n * st.cols => values[k] = Junk
      BY <1>1, <1>2, <1>3, <1>5
    <2> QED
      BY <2>1, <1>4, ConstantsAssumption DEF Free
  <1>6. ASSUME n * st.cols <= Index PROVE ~wild'
    <2>1. \A k \in DOMAIN values : k < n * st.cols => values[k] # Junk
      BY <1>1, <1>2, <1>3, <1>6
    <2> QED
      BY <2>1, <1>4 DEF Free
  <1>7. values' \in [Upto(0) -> Values \cup {Junk}]
    BY DEF Free, Upto
  <1>8. cap' = 0 /\ n_rows' = 0 /\ col' = 0 /\ truncated' = FALSE
        /\ leaked' \in BOOLEAN /\ wild' \in BOOLEAN
    BY DEF Free
  <1> QED
    BY <1>5, <1>6, <1>7, <1>8

-----------------------------------------------------------------------------
(* Every action preserves the invariant *)

LEMMA RunInv ==
    ASSUME IInv, NEW s \in Scripts, NEW kind \in {"none", "sqlite", "duckdb"}, Run(s, kind)
    PROVE  IInv'
PROOF
  <1>1. /\ engine' = kind /\ script' = s /\ st' = NoStatement /\ inEffect' = 0
        /\ reply' = NoReply /\ pc' = "query" /\ leaked' = FALSE /\ wild' = FALSE
        /\ requests' = requests + 1 /\ requests < MaxRequests /\ pc = "idle"
        /\ UNCHANGED <<n_rows, truncated, values, cap, col>>
    BY DEF Run, At
  <1>2. /\ n_rows = 0 /\ cap = 0 /\ truncated = FALSE /\ col = 0
        /\ values \in [Upto(0) -> Values \cup {Junk}]
    BY <1>1 DEF IInv, TypeOK, InResult
  <1>3. inEffect' \in 0..Len(script') /\ requests' \in 0..MaxRequests /\ col' \in 0..st'.cols
    BY <1>1, <1>2, ConstantsAssumption DEF IInv, TypeOK, NoStatement
  <1>4. TypeOK'
    BY <1>1, <1>2, <1>3 DEF TypeOK, InResult, NoReply
  <1> QED
    BY <1>1, <1>4 DEF IInv, PhaseInv, InResult, ReplyExact, NoReply, NoLeak, FreesStored

\* What the steps before a result exists leave alone.
LEMMA BeforeResultInv ==
    ASSUME IInv, ~InResult, ~InResult', pc # "idle", Keep \/ UNCHANGED <<engine, script, requests>>,
           KeepResult, inEffect' \in 0..Len(script), st'.cols \in Nat,
           st' \in {NoStatement} \cup {script[k] : k \in DOMAIN script},
           \/ pc' = "idle" /\ \E code \in {"invalid", "sql", "oom"} : reply' = Error(code)
           \/ pc' = "alloc" /\ engine # "none" /\ UNCHANGED reply
    PROVE  IInv'
PROOF
  <1>1. /\ UNCHANGED <<engine, script, requests>>
        /\ UNCHANGED <<n_rows, truncated, values, cap, col, leaked, wild>>
    BY DEF Keep, KeepResult
  <1>2. n_rows = 0 /\ cap = 0 /\ truncated = FALSE /\ col = 0
    BY DEF IInv, TypeOK, InResult
  <1>3. reply = NoReply /\ ~wild /\ script \in Scripts /\ ~leaked
    BY DEF IInv, PhaseInv, NoLeak
  <1>4. reply'.kind \in {"none", "error"} /\ (reply'.kind = "none" \/ pc' = "idle")
    BY <1>3 DEF Error, NoReply
  <1>5. TypeOK'
    BY <1>1, <1>2, <1>4 DEF IInv, TypeOK, InResult
  <1>6. ReplyExact'
    BY <1>4 DEF ReplyExact
  <1> QED
    BY <1>1, <1>3, <1>5, <1>6 DEF IInv, PhaseInv, InResult, NoLeak, FreesStored

LEMMA QueryInv == ASSUME IInv, NotOpen \/ Prepare \/ Execute PROVE IInv'
PROOF
  <1>1. pc = "query" /\ KeepResult /\ UNCHANGED <<engine, script, requests>>
    BY DEF NotOpen, Prepare, Execute, At, Keep
  <1>2. script \in Scripts
    BY <1>1 DEF IInv, PhaseInv
  <1>3. /\ Len(script) \in Nat \ {0} /\ DOMAIN script = 1..Len(script)
        /\ \A k \in DOMAIN script : IsStatement(script[k])
    BY <1>2, ConstantsAssumption
  <1>4. 1 \in DOMAIN script /\ Len(script) \in DOMAIN script
    BY <1>3
  <1>5. inEffect \in 0..Len(script)
    BY DEF IInv, TypeOK
  <1>6. inEffect' \in 0..Len(script)
    <2>1. ASSUME NEW k \in DOMAIN script PROVE k - 1 \in 0..Len(script)
      BY <1>3
    <2> QED
      BY <1>3, <1>5, <2>1 DEF NotOpen, Prepare, Execute, Bad
  <1>7. st \in {NoStatement} \cup {script[k] : k \in DOMAIN script} /\ st.cols \in Nat
    BY StatementType DEF IInv, TypeOK, IsStatement
  <1>8. /\ st' \in {NoStatement} \cup {script[k] : k \in DOMAIN script}
        /\ st'.cols \in Nat
    BY <1>3, <1>4, <1>7 DEF NotOpen, Prepare, Execute, Keep, IsStatement
  <1>9. \/ pc' = "idle" /\ \E code \in {"invalid", "sql", "oom"} : reply' = Error(code)
        \/ pc' = "alloc" /\ engine # "none" /\ UNCHANGED reply
    BY DEF NotOpen, Prepare, Execute, Replies
  <1> QED
    BY <1>1, <1>6, <1>8, <1>9, BeforeResultInv DEF InResult

LEMMA AllocInv == ASSUME IInv, Alloc PROVE IInv'
PROOF
  <1>1. pc = "alloc" /\ Keep /\ KeepResult /\ UNCHANGED inEffect
    BY DEF Alloc, At
  <1>2. UNCHANGED <<engine, script, st, requests, inEffect, n_rows, truncated, values, cap, col,
                    leaked, wild>>
    BY <1>1 DEF Keep, KeepResult
  <1>3. st.cols \in Nat /\ st.total \in Nat
    BY StatementType DEF IInv, IsStatement
  <1>4. CASE Replies(Error("oom"))
    <2>1. st' \in {NoStatement} \cup {script[k] : k \in DOMAIN script} /\ st'.cols \in Nat
          /\ inEffect' \in 0..Len(script)
      BY <1>2, <1>3 DEF IInv, TypeOK
    <2>2. pc' = "idle" /\ \E code \in {"invalid", "sql", "oom"} : reply' = Error(code)
      BY <1>4 DEF Replies
    <2> QED
      BY <1>1, <2>1, <2>2, BeforeResultInv DEF InResult
  <1>5. CASE pc' = "row" /\ UNCHANGED reply
    <2>1. /\ n_rows = 0 /\ cap = 0 /\ truncated = FALSE /\ col = 0
          /\ reply = NoReply /\ ~wild /\ ~leaked /\ script \in Scripts
      BY <1>1 DEF IInv, TypeOK, InResult, PhaseInv, NoLeak
    <2>2. engine # "none"
      BY <1>1 DEF IInv, PhaseInv
    <2>3. TypeOK'
      <3>1. TypeOK /\ col' \in 0..st'.cols /\ reply'.kind = "none"
        BY <1>2, <1>3, <1>5, <2>1 DEF IInv, NoReply
      <3> QED
        BY <1>2, <1>5, <2>1, <3>1 DEF TypeOK, InResult
    <2>4. RoomInv'
      BY <1>2, <1>3, <1>5, <2>1, ConstantsAssumption DEF RoomInv
    <2>5. CellsInv'
      BY <1>2, <1>3, <2>1 DEF CellsInv, Upto, Index
    <2>6. EndInv'
      BY <1>2, <1>5, <2>1 DEF EndInv
    <2> QED
      BY <1>2, <1>5, <2>1, <2>2, <2>3, <2>4, <2>5, <2>6
      DEF IInv, PhaseInv, InResult, ReplyExact, NoReply, NoLeak, FreesStored
  <1> QED
    BY <1>4, <1>5 DEF Alloc

\* What holds while a result is built.
LEMMA InResultFacts ==
    ASSUME IInv, InResult
    PROVE  /\ st.cols \in Nat /\ st.total \in Nat /\ n_rows \in Nat /\ cap \in Nat
           /\ col \in Nat /\ col <= st.cols /\ n_rows * st.cols \in Nat /\ Index \in Nat
           /\ script \in Scripts /\ Len(script) \in Nat \ {0} /\ engine # "none"
           /\ reply = NoReply /\ ~wild /\ ~leaked /\ inEffect \in 0..Len(script)
           /\ TypeOK /\ RoomInv /\ CellsInv /\ EndInv
PROOF
  <1>1. st.cols \in Nat /\ st.total \in Nat
    BY StatementType DEF IInv, IsStatement
  <1>2. n_rows \in Nat /\ col \in Nat /\ col <= st.cols /\ cap \in Nat /\ TypeOK
        /\ inEffect \in 0..Len(script)
    BY <1>1 DEF IInv, TypeOK
  <1>3. n_rows * st.cols \in Nat
    BY <1>1, <1>2
  <1>4. Index \in Nat
    BY <1>2, <1>3 DEF Index
  <1>5. script \in Scripts /\ engine # "none" /\ reply = NoReply /\ ~wild /\ ~leaked
    BY DEF IInv, PhaseInv, InResult, NoLeak
  <1>6. Len(script) \in Nat \ {0}
    BY <1>5, ConstantsAssumption
  <1> QED
    BY <1>1, <1>2, <1>3, <1>4, <1>5, <1>6 DEF IInv

\* A result that is given up: what was stored is freed, and the reply says why.
LEMMA GiveUpInv ==
    ASSUME IInv, InResult, NEW n \in Nat, Free(n), Index <= n * st.cols,
           NEW code \in {"sql", "oom"}, Replies(Error(code)), Keep,
           code = "oom" \/ n * st.cols <= Index, inEffect' \in 0..Len(script)
    PROVE  IInv'
PROOF
  <1>1. /\ ~leaked' /\ {leaked', wild'} \subseteq BOOLEAN /\ (wild' => code = "oom")
        /\ values' \in [Upto(0) -> Values \cup {Junk}]
        /\ cap' = 0 /\ n_rows' = 0 /\ col' = 0 /\ truncated' = FALSE
    BY FreeStep
  <1>2. /\ UNCHANGED <<engine, script, st, requests>> /\ pc' = "idle"
        /\ reply' = Error(code) /\ reply'.kind = "error"
    BY DEF Keep, Replies, Error
  <1>3. st.cols \in Nat
    BY InResultFacts
  <1>4. col' \in 0..st'.cols
    BY <1>1, <1>2, <1>3
  <1>5. TypeOK'
    BY <1>1, <1>2, <1>4 DEF IInv, TypeOK, InResult
  <1> QED
    BY <1>1, <1>2, <1>5 DEF IInv, PhaseInv, InResult, ReplyExact, NoLeak, FreesStored

\* What a step inside a result has to show.
LEMMA StayInv ==
    ASSUME IInv, InResult, InResult', UNCHANGED <<engine, script, st, requests, reply, leaked, wild>>,
           inEffect' \in 0..Len(script), n_rows' \in Nat, truncated' \in BOOLEAN, cap' \in Nat,
           values' \in [Upto(cap') -> Values \cup {Junk}], col' \in 0..st.cols,
           pc' # "cell" => col' = 0, RoomInv', CellsInv', EndInv'
    PROVE  IInv'
PROOF
  <1>1. reply = NoReply /\ ~wild /\ ~leaked /\ script \in Scripts /\ engine # "none"
    BY InResultFacts
  <1>2. TypeOK'
    BY <1>1 DEF IInv, TypeOK, InResult, NoReply
  <1> QED
    BY <1>1, <1>2 DEF IInv, PhaseInv, InResult, ReplyExact, NoReply, NoLeak, FreesStored

LEMMA SteppedType == ASSUME IInv, InResult, Stepped PROVE inEffect' \in 0..Len(script)
PROOF
  <1>1. Len(script) \in Nat \ {0} /\ inEffect \in 0..Len(script)
    BY InResultFacts
  <1> QED
    BY <1>1 DEF Stepped

LEMMA NextRowInv == ASSUME IInv, NextRow PROVE IInv'
PROOF
  <1>1. InResult /\ pc = "row" /\ n_rows < st.total /\ n_rows < MaxRows
    BY DEF NextRow, At, InResult
  <1>2. inEffect' \in 0..Len(script)
    BY <1>1, SteppedType DEF NextRow
  <1>3. /\ st.cols \in Nat /\ st.total \in Nat /\ n_rows \in Nat /\ cap \in Nat
        /\ n_rows * st.cols \in Nat /\ RoomInv /\ CellsInv /\ EndInv
    BY <1>1, InResultFacts
  <1>4. col = 0 /\ truncated \in BOOLEAN /\ values \in [Upto(cap) -> Values \cup {Junk}]
        /\ ~truncated /\ Index = n_rows * st.cols
    BY <1>1, <1>3 DEF IInv, TypeOK, EndInv, Index
  <1>5. UNCHANGED <<engine, script, st, requests>> /\ Keep
    BY DEF NextRow, Keep
  <1>6. CASE Free(n_rows) /\ Replies(Error("oom"))
    BY <1>1, <1>2, <1>3, <1>4, <1>5, <1>6, GiveUpInv
  <1>7. CASE /\ Fits(n_rows + 1) /\ pc' = "cell"
             /\ UNCHANGED <<values, cap, n_rows, truncated, col, leaked, wild, reply>>
    <2>1. RoomInv'
      BY <1>1, <1>3, <1>5, <1>7 DEF RoomInv, Fits
    <2>2. CellsInv'
      BY <1>3, <1>4, <1>5, <1>7 DEF CellsInv, Index
    <2>3. EndInv'
      BY <1>4, <1>7 DEF EndInv
    <2> QED
      BY <1>1, <1>2, <1>3, <1>4, <1>5, <1>7, <2>1, <2>2, <2>3, StayInv DEF InResult
  <1>8. CASE /\ ~Fits(n_rows + 1) /\ Grow /\ pc' = "cell"
             /\ UNCHANGED <<n_rows, truncated, col, leaked, wild, reply>>
    <2> DEFINE new == IF cap = 0 THEN (IF st.cols > 0 THEN st.cols ELSE 1) * FirstRows
                                 ELSE cap * 2
    <2>1. cap' = new /\ values' = [k \in Upto(new) |-> IF k < cap THEN values[k] ELSE Junk]
      BY <1>8 DEF Grow
    <2>2. /\ n_rows * st.cols <= cap /\ (cap = 0 \/ cap >= st.cols)
          /\ ~((n_rows + 1) * st.cols <= cap) /\ FirstRows \in Nat \ {0}
      BY <1>3, <1>8, ConstantsAssumption DEF RoomInv, Fits
    <2>3. /\ cap = 0 => /\ st.cols > 0 /\ (n_rows + 1) * st.cols <= st.cols * FirstRows
                        /\ st.cols * FirstRows \in Nat /\ st.cols * FirstRows >= st.cols
          /\ cap # 0 => (n_rows + 1) * st.cols <= cap * 2
      BY <1>3, <2>2, GrowthSuffices
    <2>4. new \in Nat /\ new >= st.cols /\ (n_rows + 1) * st.cols <= new /\ cap <= new
      BY <1>3, <2>2, <2>3
    <2> HIDE DEF new
    <2>5. values' \in [Upto(cap') -> Values \cup {Junk}]
      BY <1>3, <1>4, <2>1, <2>4 DEF Upto
    <2>6. RoomInv'
      <3>1. n_rows * st.cols <= new
        BY <1>3, <2>2, <2>4
      <3> QED
        BY <1>1, <1>3, <1>5, <1>8, <2>1, <2>4, <3>1 DEF RoomInv
    <2>7. CellsInv'
      <3>1. Index' = Index /\ UNCHANGED <<st, n_rows, col>> /\ Index <= cap
        BY <1>3, <1>4, <1>5, <1>8, <2>2 DEF Index
      <3>2. ASSUME NEW k \in Upto(cap') PROVE values'[k] = Junk <=> k >= Index
        <4>1. k \in Int /\ values'[k] = (IF k < cap THEN values[k] ELSE Junk)
          BY <2>1 DEF Upto
        <4>2. CASE k < cap
          BY <1>3, <2>1, <2>4, <4>1, <4>2 DEF CellsInv, Upto
        <4>3. CASE ~(k < cap)
          BY <1>3, <1>4, <3>1, <4>1, <4>3
        <4> QED
          BY <4>2, <4>3
      <3>3. ASSUME NEW row \in Upto(n_rows), NEW c \in Upto(st.cols)
            PROVE  values'[row * st.cols + c] = Cell(st.rows[row][c])
        <4>1. row * st.cols + c < n_rows * st.cols /\ row * st.cols + c \in Nat
          BY <1>3, CellBeforeRow
        <4>2. row * st.cols + c < cap /\ row * st.cols + c \in Upto(new)
          BY <1>3, <2>2, <2>4, <4>1 DEF Upto
        <4>3. values'[row * st.cols + c] = values[row * st.cols + c]
          BY <2>1, <4>2
        <4> QED
          BY <1>3, <4>3 DEF CellsInv
      <3>4. Upto(col) = {}
        BY <1>4 DEF Upto
      <3> QED
        BY <3>1, <3>2, <3>3, <3>4 DEF CellsInv
    <2>8. EndInv'
      BY <1>4, <1>8 DEF EndInv
    <2>9. cap' \in Nat
      BY <2>1, <2>4
    <2> QED
      BY <1>1, <1>2, <1>3, <1>4, <1>5, <1>8, <2>5, <2>6, <2>7, <2>8, <2>9, StayInv DEF InResult
  <1> QED
    BY <1>6, <1>7, <1>8 DEF NextRow

\* Moving on with the result as it is.
LEMMA MoveInv ==
    ASSUME IInv, TooMany \/ NoMoreRows
    PROVE  IInv'
PROOF
  <1>1. InResult /\ InResult' /\ pc = "row" /\ pc' = "json"
    BY DEF TooMany, NoMoreRows, At, InResult
  <1>2. UNCHANGED <<engine, script, st, requests, reply, leaked, wild, n_rows, values, cap, col>>
    BY DEF TooMany, NoMoreRows, Keep, KeepResult
  <1>3. inEffect' \in 0..Len(script)
    BY <1>1, SteppedType DEF TooMany, NoMoreRows
  <1>4. n_rows \in Nat /\ cap \in Nat /\ st.total \in Nat /\ RoomInv /\ CellsInv /\ EndInv
    BY <1>1, InResultFacts
  <1>5. col = 0 /\ col \in 0..st.cols /\ values \in [Upto(cap) -> Values \cup {Junk}]
        /\ truncated \in BOOLEAN
    BY <1>1 DEF IInv, TypeOK
  <1>6. RoomInv' /\ CellsInv'
    BY <1>1, <1>2, <1>4 DEF RoomInv, CellsInv, Index
  <1>7. EndInv' /\ truncated' \in BOOLEAN
    <2>1. CASE TooMany
      <3>1. n_rows = MaxRows /\ st.total > MaxRows /\ truncated' = TRUE
        BY <1>4, <2>1, ConstantsAssumption DEF TooMany, RoomInv
      <3> QED
        BY <1>1, <1>2, <3>1 DEF EndInv
    <2>2. CASE NoMoreRows
      <3>1. n_rows = st.total /\ truncated' = truncated /\ ~truncated
        BY <1>1, <1>4, <2>2 DEF NoMoreRows, KeepResult, EndInv
      <3> QED
        BY <1>2, <1>5, <3>1 DEF EndInv
    <2> QED
      BY <2>1, <2>2
  <1> QED
    BY <1>1, <1>2, <1>3, <1>4, <1>5, <1>6, <1>7, StayInv

LEMMA CopyCellInv == ASSUME IInv, CopyCell PROVE IInv'
PROOF
  <1>1. /\ InResult /\ InResult' /\ pc = "cell" /\ pc' = "cell" /\ col < st.cols
        /\ col' = col + 1 /\ values' = [values EXCEPT ![Index] = Cell(st.rows[n_rows][col])]
        /\ UNCHANGED <<engine, script, st, requests, inEffect, n_rows, truncated, cap, reply,
                       leaked, wild>>
    BY DEF CopyCell, At, InResult, Keep
  <1>2. /\ st.cols \in Nat /\ st.total \in Nat /\ n_rows \in Nat /\ cap \in Nat /\ col \in Nat
        /\ n_rows * st.cols \in Nat /\ Index \in Nat /\ inEffect \in 0..Len(script)
        /\ TypeOK /\ RoomInv /\ CellsInv /\ EndInv
    BY <1>1, InResultFacts
  <1>3. truncated \in BOOLEAN /\ values \in [Upto(cap) -> Values \cup {Junk}]
    BY <1>2 DEF TypeOK
  <1> DEFINE base == n_rows * st.cols
  <1>a. Index = base + col /\ Index' = base + (col + 1) /\ base \in Nat
    BY <1>1, <1>2 DEF Index
  <1>b. base + st.cols <= cap
    BY <1>1, <1>2, RowAfter DEF RoomInv
  <1> HIDE DEF base
  <1>4. Index < cap /\ Index \in Upto(cap) /\ Index' = Index + 1
    <2>1. /\ base \in Nat /\ col \in Nat /\ st.cols \in Nat /\ cap \in Nat /\ col < st.cols
          /\ Index = base + col /\ Index' = base + (col + 1) /\ base + st.cols <= cap
      BY <1>1, <1>2, <1>a, <1>b
    <2>2. Index < cap /\ Index \in Nat
      BY <2>1
    <2>3. Index' = Index + 1
      BY <2>1
    <2> QED
      BY <2>1, <2>2, <2>3 DEF Upto
  <1>5. Cell(st.rows[n_rows][col]) \in Values /\ Cell(st.rows[n_rows][col]) # Junk
    <2>1. n_rows \in Upto(st.total) /\ col \in Upto(st.cols)
      BY <1>1, <1>2 DEF RoomInv, Upto
    <2> QED
      BY <1>2, <2>1, CellType
  <1>6. /\ values'[Index] = Cell(st.rows[n_rows][col])
        /\ \A k \in Upto(cap) : k # Index => values'[k] = values[k]
        /\ values' \in [Upto(cap) -> Values \cup {Junk}]
    BY <1>1, <1>3, <1>4, <1>5
  <1>7. CellsInv'
    <2>1. ASSUME NEW k \in Upto(cap) PROVE values'[k] = Junk <=> k >= Index + 1
      <3>1. k \in Int /\ (values[k] = Junk <=> k >= Index)
        BY <1>2 DEF CellsInv, Upto
      <3> QED
        BY <1>2, <1>5, <1>6, <3>1
    <2>2. ASSUME NEW row \in Upto(n_rows), NEW c \in Upto(st.cols)
          PROVE  values'[row * st.cols + c] = Cell(st.rows[row][c])
      <3>1. row * st.cols + c < base /\ row * st.cols + c \in Nat
        BY <1>2, CellBeforeRow DEF base
      <3>2. ASSUME NEW k \in Nat, k < base PROVE k \in Upto(cap) /\ k # Index
        BY <1>2, <1>a, <1>b, <3>2 DEF Upto
      <3>3. row * st.cols + c \in Upto(cap) /\ row * st.cols + c # Index
        BY <3>1, <3>2
      <3>4. values'[row * st.cols + c] = values[row * st.cols + c]
        BY <1>6, <3>3
      <3> QED
        BY <1>2, <3>4 DEF CellsInv
    <2>3. ASSUME NEW c \in Upto(col + 1)
          PROVE  values'[base + c] = Cell(st.rows[n_rows][c])
      <3>1. CASE c = col
        BY <1>6, <1>a, <3>1
      <3>2. CASE c # col
        <4>1. c \in Upto(col) /\ c \in Nat /\ c < col
          BY <1>2, <3>2 DEF Upto
        <4>2. base + c \in Upto(cap) /\ base + c # Index
          BY <1>1, <1>2, <1>a, <1>b, <4>1 DEF Upto
        <4>3. values'[base + c] = values[base + c]
          BY <1>6, <4>2
        <4> QED
          BY <1>2, <4>1, <4>3 DEF CellsInv, base
      <3> QED
        BY <3>1, <3>2
    <2> QED
      BY <1>1, <1>4, <2>1, <2>2, <2>3 DEF CellsInv, base
  <1>8. RoomInv' /\ EndInv'
    BY <1>1, <1>2 DEF RoomInv, EndInv
  <1>9. col' \in 0..st.cols
    BY <1>1, <1>2
  <1> QED
    BY <1>1, <1>2, <1>3, <1>6, <1>7, <1>8, <1>9, StayInv

LEMMA CellFailsInv == ASSUME IInv, CellFails PROVE IInv'
PROOF
  <1>1. InResult /\ pc = "cell" /\ col < st.cols /\ Free(n_rows + 1) /\ Keep
        /\ Replies(Error("oom")) /\ UNCHANGED inEffect
    BY DEF CellFails, At, InResult
  <1>2. /\ st.cols \in Nat /\ n_rows \in Nat /\ col \in Nat /\ n_rows * st.cols \in Nat
        /\ inEffect \in 0..Len(script)
    BY <1>1, InResultFacts
  <1>3. (n_rows + 1) * st.cols = n_rows * st.cols + st.cols
    BY <1>2, RowAfter
  <1>4. Index <= (n_rows + 1) * st.cols /\ n_rows + 1 \in Nat
    BY <1>1, <1>2, <1>3 DEF Index
  <1> QED
    BY <1>1, <1>2, <1>4, GiveUpInv

LEMMA StepFailsInv == ASSUME IInv, StepFails PROVE IInv'
PROOF
  <1>1. InResult /\ pc = "row" /\ Free(n_rows) /\ Keep /\ Replies(Error("sql")) /\ inEffect' = 0
    BY DEF StepFails, At, InResult
  <1>2. /\ n_rows \in Nat /\ n_rows * st.cols \in Nat /\ Len(script) \in Nat \ {0}
    BY <1>1, InResultFacts
  <1>3. Index = n_rows * st.cols
    BY <1>1, <1>2 DEF IInv, TypeOK, Index
  <1>4. inEffect' \in 0..Len(script) /\ Index <= n_rows * st.cols /\ n_rows * st.cols <= Index
    BY <1>1, <1>2, <1>3
  <1> QED
    BY <1>1, <1>2, <1>4, GiveUpInv

LEMMA RowDoneInv == ASSUME IInv, RowDone PROVE IInv'
PROOF
  <1>1. /\ InResult /\ InResult' /\ pc = "cell" /\ pc' = "row" /\ col = st.cols
        /\ n_rows' = n_rows + 1 /\ col' = 0
        /\ UNCHANGED <<engine, script, st, requests, inEffect, truncated, values, cap, reply,
                       leaked, wild>>
    BY DEF RowDone, At, InResult, Keep
  <1>2. /\ st.cols \in Nat /\ st.total \in Nat /\ n_rows \in Nat /\ cap \in Nat
        /\ n_rows * st.cols \in Nat /\ inEffect \in 0..Len(script)
        /\ TypeOK /\ RoomInv /\ CellsInv /\ EndInv
    BY <1>1, InResultFacts
  <1>3. truncated \in BOOLEAN /\ values \in [Upto(cap) -> Values \cup {Junk}]
    BY <1>2 DEF TypeOK
  <1>4. Index' = Index
    <2>1. (n_rows + 1) * st.cols = n_rows * st.cols + st.cols
      BY <1>2, RowAfter
    <2>2. Index' = (n_rows + 1) * st.cols + 0 /\ Index = n_rows * st.cols + st.cols
      BY <1>1 DEF Index
    <2> QED
      BY <1>2, <2>1, <2>2
  <1>5. RoomInv'
    BY <1>1, <1>2, ConstantsAssumption DEF RoomInv
  <1>6. CellsInv'
    <2>1. ASSUME NEW row \in Upto(n_rows + 1), NEW c \in Upto(st.cols)
          PROVE  values[row * st.cols + c] = Cell(st.rows[row][c])
      <3>1. CASE row = n_rows
        BY <1>1, <1>2, <3>1 DEF CellsInv
      <3>2. CASE row # n_rows
        <4>1. row \in Upto(n_rows)
          BY <1>2, <3>2 DEF Upto
        <4> QED
          BY <1>2, <4>1 DEF CellsInv
      <3> QED
        BY <3>1, <3>2
    <2>2. Upto(0) = {}
      BY DEF Upto
    <2> QED
      BY <1>1, <1>2, <1>4, <2>1, <2>2 DEF CellsInv
  <1>7. EndInv'
    BY <1>1, <1>2 DEF EndInv
  <1>8. n_rows' \in Nat /\ col' \in 0..st.cols
    BY <1>1, <1>2
  <1> QED
    BY <1>1, <1>2, <1>3, <1>5, <1>6, <1>7, <1>8, StayInv

LEMMA ToJsonInv == ASSUME IInv, ToJson PROVE IInv'
PROOF
  <1>1. InResult /\ pc = "json" /\ Free(n_rows) /\ Keep /\ UNCHANGED inEffect
    BY DEF ToJson, At, InResult
  <1>2. /\ st.cols \in Nat /\ st.total \in Nat /\ n_rows \in Nat
        /\ n_rows * st.cols \in Nat /\ inEffect \in 0..Len(script)
        /\ script \in Scripts /\ TypeOK /\ RoomInv /\ CellsInv /\ EndInv
    BY <1>1, InResultFacts
  <1>3. Index = n_rows * st.cols
    BY <1>1, <1>2 DEF TypeOK, Index
  <1>4. Index <= n_rows * st.cols /\ n_rows * st.cols <= Index
    BY <1>2, <1>3
  <1>5. CASE Replies(Error("oom"))
    BY <1>1, <1>2, <1>4, <1>5, GiveUpInv
  <1>6. CASE Replies([kind |-> "ok", truncated |-> truncated, row_count |-> n_rows,
                      rows |-> [row \in Upto(n_rows) |->
                                   [c \in Upto(st.cols) |-> ResultValue(row, c)]]])
    <2>1. /\ ~leaked' /\ ~wild' /\ {leaked', wild'} \subseteq BOOLEAN
          /\ values' \in [Upto(0) -> Values \cup {Junk}]
          /\ cap' = 0 /\ n_rows' = 0 /\ col' = 0 /\ truncated' = FALSE
      BY <1>1, <1>2, <1>4, FreeStep
    <2>2. /\ UNCHANGED <<engine, script, st, requests>> /\ pc' = "idle"
          /\ reply'.kind = "ok" /\ reply'.truncated = truncated /\ reply'.row_count = n_rows
          /\ reply'.rows = [row \in Upto(n_rows) |->
                               [c \in Upto(st.cols) |-> ResultValue(row, c)]]
      BY <1>1, <1>6 DEF Keep, Replies
    <2>3. col' \in 0..st'.cols
      BY <1>2, <2>1, <2>2
    <2>4. TypeOK'
      BY <1>1, <1>2, <2>1, <2>2, <2>3 DEF TypeOK, InResult
    <2>5. ASSUME NEW row \in Upto(n_rows), NEW c \in Upto(st.cols)
          PROVE  ResultValue(row, c) = Cell(st.rows[row][c])
      <3>1. row < n_rows /\ c < st.cols
        BY <1>2 DEF Upto
      <3> QED
        BY <1>2, <3>1 DEF ResultValue, CellsInv
    <2>6. reply'.rows = [row \in Upto(n_rows) |-> [c \in Upto(st.cols) |-> Cell(st.rows[row][c])]]
      BY <2>2, <2>5
    <2>7. /\ n_rows = IF st.total <= MaxRows THEN st.total ELSE MaxRows
          /\ truncated = (st.total > MaxRows)
      <3>1. CASE truncated
        <4>1. st.total > MaxRows /\ n_rows = MaxRows /\ truncated = TRUE
          BY <1>2, <3>1 DEF EndInv, TypeOK
        <4>2. ~(st.total <= MaxRows)
          BY <1>2, <4>1, ConstantsAssumption
        <4> QED
          BY <4>1, <4>2
      <3>2. CASE ~truncated
        <4>1. n_rows = st.total /\ n_rows <= MaxRows
          BY <1>1, <1>2, <3>2 DEF EndInv, RoomInv
        <4>2. st.total <= MaxRows /\ (st.total > MaxRows) = FALSE /\ truncated = FALSE
          BY <1>2, <3>2, <4>1, ConstantsAssumption DEF TypeOK
        <4> QED
          BY <4>1, <4>2
      <3> QED
        BY <3>1, <3>2
    <2>8. ReplyExact'
      BY <2>2, <2>6, <2>7 DEF ReplyExact
    <2> QED
      BY <1>2, <2>1, <2>2, <2>4, <2>8 DEF IInv, PhaseInv, InResult, NoLeak, FreesStored
  <1> QED
    BY <1>5, <1>6 DEF ToJson

LEMMA StutterInv == ASSUME IInv, UNCHANGED vars PROVE IInv'
BY DEF vars, IInv, TypeOK, PhaseInv, InResult, RoomInv, CellsInv, Index, EndInv, ReplyExact,
       NoLeak, FreesStored

\* The invariant holds in every reachable state of query.run.
THEOREM Inductive == Spec => []IInv
PROOF
  <1>1. ASSUME IInv, [Next]_vars PROVE IInv'
    <2>1. CASE UNCHANGED vars
      BY <1>1, <2>1, StutterInv
    <2>2. CASE \E s \in Scripts, kind \in {"none", "sqlite", "duckdb"} : Run(s, kind)
      BY <1>1, <2>2, RunInv
    <2>3. CASE Step
      BY <1>1, <2>3, QueryInv, AllocInv, NextRowInv, MoveInv, CopyCellInv, CellFailsInv,
         RowDoneInv, StepFailsInv, ToJsonInv DEF Step
    <2> QED
      BY <1>1, <2>1, <2>2, <2>3 DEF Next
  <1> QED
    BY InitInv, <1>1, PTL DEF Spec

\* The C variables keep their types and nothing is left of a result once it is freed.
THEOREM TypeCorrect == Spec => []TypeOK
PROOF
  <1>1. IInv => TypeOK
    BY DEF IInv
  <1> QED
    BY Inductive, <1>1, PTL

\* materialize never stores outside the array dbe_result_ensure_row made, for any
\* number of rows and columns and any initial room.
THEOREM StoresStayInBounds == Spec => []StoresInBounds
PROOF
  <1>1. ASSUME IInv, pc = "cell", col < st.cols PROVE Index < cap
    <2>1. InResult
      BY <1>1 DEF InResult
    <2>2. /\ st.cols \in Nat /\ n_rows \in Nat /\ cap \in Nat /\ col \in Nat
          /\ n_rows * st.cols \in Nat /\ RoomInv
      BY <1>1, <2>1, InResultFacts
    <2>3. n_rows * st.cols + st.cols <= cap
      BY <1>1, <2>2, RowAfter DEF RoomInv
    <2> QED
      BY <1>1, <2>2, <2>3 DEF Index
  <1>2. IInv => StoresInBounds
    BY <1>1 DEF StoresInBounds
  <1> QED
    BY Inductive, <1>2, PTL

\* A reply has exactly the first MaxRows rows of the statement, and says when that is
\* not all, whatever the statement returns.
THEOREM RepliesAreExact == Spec => []ReplyExact
PROOF
  <1>1. IInv => ReplyExact
    BY DEF IInv
  <1> QED
    BY Inductive, <1>1, PTL

\* db_result_free frees every text that was copied, wherever an allocation failed.
THEOREM NothingLeaks == Spec => []NoLeak
PROOF
  <1>1. IInv => NoLeak
    BY DEF IInv
  <1> QED
    BY Inductive, <1>1, PTL

\* It frees nothing that was not stored, unless the copy of a cell failed.
THEOREM OnlyStoredIsFreed == Spec => []FreesStored
PROOF
  <1>1. IInv => FreesStored
    BY DEF IInv
  <1> QED
    BY Inductive, <1>1, PTL

-----------------------------------------------------------------------------
(* What is in effect *)

\* Which statement's rows are copied, and what of the text is in effect meanwhile: all of
\* it for DuckDB, for SQLite the first statement once a step of it has succeeded.
EffectInv ==
    /\ pc = "query" => inEffect = 0
    /\ pc \in {"alloc", "row", "cell"} =>
          IF engine = "sqlite" THEN st = script[1] /\ inEffect \in {0, 1}
          ELSE st = script[Len(script)] /\ inEffect = Len(script) /\ Bad("fails") = {}
    /\ pc = "json" => st = script[inEffect] /\ inEffect = IF engine = "sqlite" THEN 1 ELSE Len(script)
    /\ EffectKnown

\* A reply that is no ok and no SQL error says nothing of the statements.
LEMMA OtherReply ==
    ASSUME pc' = "idle", reply' = NoReply \/ reply' = Error("invalid") \/ reply' = Error("oom")
    PROVE  EffectInv'
PROOF
  <1>1. reply'.kind # "ok" /\ reply' # Error("sql")
    <2>1. reply'.kind \in {"none", "error"}
      BY DEF NoReply, Error
    <2>2. CASE reply' = NoReply
      <3>1. NoReply.kind # Error("sql").kind
        BY DEF NoReply, Error
      <3> QED
        BY <2>1, <2>2, <3>1
    <2>3. CASE reply' = Error("invalid") \/ reply' = Error("oom")
      <3>1. Error("invalid").code # Error("sql").code /\ Error("oom").code # Error("sql").code
        BY DEF Error
      <3> QED
        BY <2>1, <2>3, <3>1
    <2> QED
      BY <2>2, <2>3
  <1> QED
    BY <1>1 DEF EffectInv, EffectKnown

\* While no reply is made the promise about replies holds.
LEMMA NoReplyYet == ASSUME reply' = NoReply PROVE EffectKnown'
PROOF
  <1>1. reply'.kind # "ok" /\ reply'.kind # Error("sql").kind
    BY DEF NoReply, Error
  <1> QED
    BY <1>1 DEF EffectKnown

LEMMA RunEffect ==
    ASSUME NEW s \in Scripts, NEW kind \in {"none", "sqlite", "duckdb"}, Run(s, kind)
    PROVE  EffectInv'
PROOF
  <1>1. pc' = "query" /\ inEffect' = 0 /\ reply' = NoReply
    BY DEF Run
  <1>2. EffectKnown'
    BY <1>1, NoReplyYet
  <1> QED
    BY <1>1, <1>2 DEF EffectInv

LEMMA PrepareEffect == ASSUME IInv, EffectInv, Prepare PROVE EffectInv'
PROOF
  <1>1. pc = "query" /\ inEffect = 0 /\ engine = "sqlite" /\ reply = NoReply
    BY DEF Prepare, At, EffectInv, IInv, PhaseInv
  <1>2. UNCHANGED <<engine, script, inEffect>>
    BY DEF Prepare
  <1>3. CASE script[1].ends = "syntax"
    <2>1. pc' = "idle" /\ reply' = Error("sql") /\ reply'.kind # "ok"
      BY <1>3 DEF Prepare, Replies, Error
    <2>2. EffectKnown'
      BY <1>1, <1>2, <2>1 DEF EffectKnown
    <2> QED
      BY <2>1, <2>2 DEF EffectInv
  <1>4. CASE script[1].ends # "syntax"
    <2>1. st' = script[1] /\ pc' = "alloc" /\ reply' = NoReply
      BY <1>1, <1>4 DEF Prepare
    <2>2. EffectKnown'
      BY <2>1, NoReplyYet
    <2> QED
      BY <1>1, <1>2, <2>1, <2>2 DEF EffectInv
  <1> QED
    BY <1>3, <1>4

LEMMA ExecuteEffect == ASSUME IInv, EffectInv, Execute PROVE EffectInv'
PROOF
  <1>1. pc = "query" /\ inEffect = 0 /\ engine = "duckdb" /\ reply = NoReply /\ script \in Scripts
    BY DEF Execute, At, EffectInv, IInv, PhaseInv
  <1>2. UNCHANGED <<engine, script>>
    BY DEF Execute
  <1>3. DOMAIN script = 1..Len(script) /\ Len(script) \in Nat
    BY <1>1, ConstantsAssumption
  <1>4. Bad("fails")' = Bad("fails") /\ Bad("syntax")' = Bad("syntax")
    BY <1>2 DEF Bad
  <1>5. CASE /\ Bad("fails") = {} /\ inEffect' = Len(script)
             /\ st' = script[Len(script)] /\ pc' = "alloc" /\ UNCHANGED reply
    <2>1. EffectKnown'
      BY <1>1, <1>5, NoReplyYet
    <2> QED
      BY <1>1, <1>2, <1>4, <1>5, <2>1 DEF EffectInv
  <1>6. CASE /\ \E k \in Bad("fails") : (\A j \in Bad("fails") : k <= j) /\ inEffect' = k - 1
             /\ Replies(Error("sql"))
    <2>1. PICK k \in Bad("fails") : (\A j \in Bad("fails") : k <= j) /\ inEffect' = k - 1
      BY <1>6
    <2>2. ASSUME NEW j \in Bad("fails") PROVE j \in Nat
      BY <1>3 DEF Bad
    <2>3. inEffect' + 1 \in Bad("fails") /\ \A j \in Bad("fails") : inEffect' < j
      <3>1. k \in Nat /\ inEffect' = k - 1
        BY <2>1, <2>2
      <3>2. inEffect' + 1 = k
        BY <3>1
      <3>3. ASSUME NEW j \in Bad("fails") PROVE inEffect' < j
        BY <2>1, <2>2, <3>1
      <3> QED
        BY <3>2, <3>3
    <2>4. reply' = Error("sql") /\ pc' = "idle" /\ reply'.kind # "ok"
      BY <1>6 DEF Replies, Error
    <2>5. EffectKnown'
      BY <1>1, <1>2, <1>4, <2>3, <2>4 DEF EffectKnown
    <2> QED
      BY <2>4, <2>5 DEF EffectInv
  <1>7. CASE Bad("syntax") # {} /\ Replies(Error("sql")) /\ UNCHANGED inEffect
    <2>1. reply' = Error("sql") /\ pc' = "idle" /\ reply'.kind # "ok"
      BY <1>7 DEF Replies, Error
    <2>2. EffectKnown'
      BY <1>1, <1>2, <1>4, <1>7, <2>1 DEF EffectKnown
    <2> QED
      BY <2>1, <2>2 DEF EffectInv
  <1> QED
    BY <1>5, <1>6, <1>7 DEF Execute

\* A step that goes on with the rows: a SQLite statement may have come into effect.
LEMMA OnwardEffect ==
    ASSUME IInv, EffectInv, pc \in {"alloc", "row", "cell"}, pc' \in {"row", "cell", "json"},
           UNCHANGED <<engine, script, st, reply>>,
           Stepped \/ (UNCHANGED inEffect /\ pc' # "json")
    PROVE  EffectInv'
PROOF
  <1>1. reply' = NoReply
    BY DEF IInv, PhaseInv
  <1>2. EffectKnown'
    BY <1>1, NoReplyYet
  <1>3. Bad("fails")' = Bad("fails")
    BY DEF Bad
  <1>4. CASE engine = "sqlite"
    BY <1>2, <1>4 DEF EffectInv, Stepped
  <1>5. CASE engine # "sqlite"
    BY <1>2, <1>3, <1>5 DEF EffectInv, Stepped
  <1> QED
    BY <1>4, <1>5

LEMMA RowEffect ==
    ASSUME IInv, EffectInv, Alloc \/ NextRow \/ TooMany \/ CopyCell \/ RowDone \/ NoMoreRows
    PROVE  EffectInv'
PROOF
  <1>1. CASE pc' = "idle" /\ reply' = Error("oom")
    BY <1>1, OtherReply
  <1>2. CASE UNCHANGED reply
    <2>1. CASE Alloc
      BY <1>2, <2>1, OnwardEffect DEF Alloc, At, Keep, Replies, IInv, PhaseInv, Error, NoReply
    <2>2. CASE NextRow
      BY <1>2, <2>2, OnwardEffect
        DEF NextRow, At, Keep, Replies, IInv, PhaseInv, Error, NoReply
    <2>3. CASE TooMany \/ NoMoreRows
      BY <2>3, OnwardEffect DEF TooMany, NoMoreRows, At, Keep
    <2>4. CASE CopyCell
      BY <2>4, OnwardEffect DEF CopyCell, At, Keep
    <2>5. CASE RowDone
      BY <2>5, OnwardEffect DEF RowDone, At, Keep
    <2> QED
      BY <2>1, <2>2, <2>3, <2>4, <2>5
  <1> QED
    BY <1>1, <1>2 DEF Alloc, NextRow, TooMany, CopyCell, RowDone, NoMoreRows, Replies

\* Only a SQLite statement can still fail while its rows are fetched.
LEMMA StepFailsEffect == ASSUME IInv, EffectInv, StepFails PROVE EffectInv'
PROOF
  <1>1. pc = "row" /\ st.ends = "fails" /\ inEffect' = 0 /\ UNCHANGED <<engine, script>>
        /\ pc' = "idle" /\ reply' = Error("sql") /\ reply'.kind # "ok"
    BY DEF StepFails, At, Keep, Replies, Error
  <1>2. script \in Scripts
    BY <1>1 DEF IInv, PhaseInv
  <1>3. Len(script) \in DOMAIN script
    BY <1>2, ConstantsAssumption
  <1>4. engine = "sqlite"
    BY <1>1, <1>3 DEF EffectInv, Bad
  <1>5. EffectKnown'
    BY <1>1, <1>4 DEF EffectKnown
  <1> QED
    BY <1>1, <1>5 DEF EffectInv

LEMMA ToJsonEffect == ASSUME IInv, EffectInv, ToJson PROVE EffectInv'
PROOF
  <1>1. pc = "json" /\ pc' = "idle" /\ UNCHANGED <<engine, script, st, inEffect>>
    BY DEF ToJson, At, Keep, Replies
  <1>2. CASE reply' = Error("oom")
    BY <1>1, <1>2, OtherReply
  <1>3. CASE reply'.kind = "ok"
    <2>1. reply' # Error("sql")
      BY <1>3 DEF Error
    <2>2. inEffect # 0
      BY <1>1, InResultFacts DEF InResult, EffectInv
    <2>3. EffectKnown'
      BY <1>1, <2>1, <2>2 DEF EffectInv, EffectKnown
    <2> QED
      BY <1>1, <2>3 DEF EffectInv
  <1> QED
    BY <1>2, <1>3 DEF ToJson, Replies

LEMMA StutterEffect == ASSUME EffectInv, UNCHANGED vars PROVE EffectInv'
BY DEF vars, EffectInv, EffectKnown, Bad

\* Whatever fails, and wherever: an SQL error of DuckDB leaves exactly the statements
\* before the failing one in effect, one of SQLite nothing; an ok reply shows the rows of
\* the last statement in effect, and with DuckDB the whole text is.
THEOREM EffectsAreKnown == Spec => []EffectKnown
PROOF
  <1>1. Init => EffectInv
    <2>1. ASSUME Init PROVE reply.kind # "ok" /\ reply.kind # Error("sql").kind
      BY <2>1 DEF Init, NoReply, Error
    <2> QED
      BY <2>1 DEF Init, EffectInv, EffectKnown
  <1>2. ASSUME IInv, EffectInv, [Next]_vars PROVE EffectInv'
    <2>1. CASE UNCHANGED vars
      BY <1>2, <2>1, StutterEffect
    <2>2. CASE \E s \in Scripts, kind \in {"none", "sqlite", "duckdb"} : Run(s, kind)
      BY <2>2, RunEffect
    <2>3. CASE NotOpen \/ CellFails
      BY <2>3, OtherReply DEF NotOpen, CellFails, Replies
    <2>4. CASE Step
      BY <1>2, <2>3, <2>4, PrepareEffect, ExecuteEffect, RowEffect, StepFailsEffect, ToJsonEffect
      DEF Step
    <2> QED
      BY <1>2, <2>1, <2>2, <2>4 DEF Next
  <1>3. EffectInv => EffectKnown
    BY DEF EffectInv
  <1> QED
    BY <1>1, <1>2, <1>3, Inductive, PTL DEF Spec
=============================================================================
