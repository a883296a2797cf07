------------------------- MODULE MemoryBackendProofs -------------------------
(***************************************************************************)
(* Over the backends of one process every code has one owner and none is   *)
(* lost, for any batches, pages, clients and rows: proved.                 *)
(***************************************************************************)
EXTENDS MemoryBackend, TLAPS

RowCodes == Codes \cup {NoCode}

\* The last code of a batch.
End(b) == (b + 1) * BatchSize

\* An id the table gave out: if its row is still stored, it is a row of that code.
Agrees(id, k) == id \in 1 .. nextId - 1 /\ (id \in DOMAIN rows => rows[id].code = k)

StoreOK ==
  /\ pool \in Seq(Codes) /\ startIndex \in 1 .. Batches /\ nextId \in Nat \ {0}
  /\ DOMAIN rows \subseteq 1 .. nextId - 1 /\ \A id \in DOMAIN rows : rows[id] \in Row
  /\ DOMAIN index \subseteq RowCodes
  /\ \A k \in DOMAIN index : index[k] \in DOMAIN rows /\ rows[index[k]].code = k
  /\ removed \subseteq Codes

OpOK(o) ==
  \/ o = NoOp
  \/ o = [at |-> "row", code |-> o.code] /\ o.code \in RowCodes
  \/ /\ o = [at |-> "save", code |-> o.code, id |-> o.id] /\ o.code \in RowCodes
     /\ Agrees(o.id, o.code)

\* A refill has added a batch up to the codes that are left, its last ones.
AddOK(r) ==
  /\ r = [at |-> "add", batch |-> r.batch, left |-> r.left]
  /\ r.batch \in 0 .. Batches - 1 /\ r.left \in Seq(Codes) /\ Len(r.left) <= BatchSize
  /\ \A i \in 1 .. Len(r.left) : r.left[i] = End(r.batch) - Len(r.left) + i

RefillOK(r) == r = NoRefill \/ r = [at |-> "read"] \/ AddOK(r)

JobOK(r) ==
  /\ r = [at |-> r.at, from |-> r.from, page |-> r.page, n |-> r.n]
  /\ r.at \in {"idle", "find", "each", "save"}
  /\ DOMAIN r.page = 1 .. Len(r.page) /\ Len(r.page) \in Nat
  /\ r.at \in {"each", "save"} => r.n \in 1 .. Len(r.page)
  /\ \A i \in DOMAIN r.page :
        r.page[i].code \in RowCodes /\ Agrees(r.page[i].id, r.page[i].code)

OpsOK     == DOMAIN op = Clients /\ \A c \in Clients : OpOK(op[c])
RefillsOK == DOMAIN refill = Refills /\ \A g \in Refills : RefillOK(refill[g])
JobsOK    == DOMAIN job = Jobs /\ \A j \in Jobs : JobOK(job[j])

Types == StoreOK /\ OpsOK /\ RefillsOK /\ JobsOK

-----------------------------------------------------------------------------
(* Types. *)

\* What is known of ids stays true: ids go up, a stored row keeps its code.
RowsKeep ==
  /\ nextId' \in Nat /\ nextId' >= nextId
  /\ \A id \in 1 .. nextId - 1 :
        id \in DOMAIN rows' => id \in DOMAIN rows /\ rows'[id].code = rows[id].code

LEMMA RangeGrows == \A m, n \in Nat : n >= m => 1 .. m - 1 \subseteq 1 .. n - 1
OBVIOUS

LEMMA AgreesKeeps ==
  ASSUME RowsKeep, nextId \in Nat, NEW id, NEW k, Agrees(id, k)
  PROVE  Agrees(id, k)'
<1>a. id \in 1 .. nextId - 1
  BY Zenon DEF Agrees
<1>b. nextId' \in Nat /\ nextId' >= nextId
  BY Zenon DEF RowsKeep
<1>1. id \in 1 .. nextId - 1 /\ id \in 1 .. nextId' - 1
  BY <1>a, <1>b, RangeGrows
<1>2. id \in DOMAIN rows' => rows'[id].code = k
  BY <1>1 DEF RowsKeep, Agrees
<1> QED BY <1>1, <1>2 DEF Agrees

LEMMA OpKeeps ==
  ASSUME RowsKeep, nextId \in Nat, NEW o, OpOK(o)
  PROVE  OpOK(o)'
BY AgreesKeeps DEF OpOK

LEMMA JobKeeps ==
  ASSUME RowsKeep, nextId \in Nat, NEW r, JobOK(r)
  PROVE  JobOK(r)'
BY AgreesKeeps DEF JobOK


LEMMA SameRows == ASSUME StoreOK, UNCHANGED <<rows, nextId>> PROVE RowsKeep
BY DEF RowsKeep, StoreOK

LEMMA OpsStay == ASSUME StoreOK, RowsKeep, OpsOK, UNCHANGED op PROVE OpsOK'
BY OpKeeps DEF OpsOK, StoreOK

\* A client takes its next step.
LEMMA OpsStep ==
  ASSUME StoreOK, RowsKeep, OpsOK, NEW c \in Clients, NEW x, OpOK(x)',
         op' = [op EXCEPT ![c] = x]
  PROVE  OpsOK'
BY OpKeeps DEF OpsOK, StoreOK

LEMMA JobsStay == ASSUME StoreOK, RowsKeep, JobsOK, UNCHANGED job PROVE JobsOK'
BY JobKeeps DEF JobsOK, StoreOK

\* A job takes its next step.
LEMMA JobsStep ==
  ASSUME StoreOK, RowsKeep, JobsOK, NEW j \in Jobs, NEW x, JobOK(x)',
         job' = [job EXCEPT ![j] = x]
  PROVE  JobsOK'
BY JobKeeps DEF JobsOK, StoreOK

LEMMA RefillsStep ==
  ASSUME RefillsOK, NEW g \in Refills, NEW x, RefillOK(x), refill' = [refill EXCEPT ![g] = x]
  PROVE  RefillsOK'
BY DEF RefillsOK

LEMMA MaybeRefillTypes ==
  ASSUME RefillsOK, NEW left, MaybeRefill(left) PROVE RefillsOK'
<1>1. CASE UNCHANGED refill
  BY <1>1 DEF RefillsOK
<1>2. CASE \E g \in Refills : refill' = [refill EXCEPT ![g] = [at |-> "read"]]
  <2>1. RefillOK([at |-> "read"])
    BY DEF RefillOK
  <2> QED BY <1>2, <2>1, RefillsStep
<1> QED BY <1>1, <1>2 DEF MaybeRefill

LEMMA NoOpOK == OpOK(NoOp)
BY DEF OpOK

-----------------------------------------------------------------------------
(* The pool. *)

LEMMA SeqEnds ==
  ASSUME NEW S, NEW s \in Seq(S), s # <<>>
  PROVE  Head(s) \in S /\ Tail(s) \in Seq(S)
OBVIOUS

LEMMA PullTypes ==
  ASSUME Types, NEW c \in Clients, Pull(c) \/ PullNone(c) PROVE Types'
<1>1. UNCHANGED <<startIndex, rows, index, nextId, job, removed>> /\ RowsKeep
  BY SameRows DEF Pull, PullNone, stores, Types
<1>2. PICK k \in RowCodes : op' = [op EXCEPT ![c] = [at |-> "row", code |-> k]]
  <2>1. CASE Pull(c)
    BY <2>1, SeqEnds DEF Pull, Types, StoreOK, RowCodes
  <2>2. CASE PullNone(c)
    BY <2>2 DEF PullNone, RowCodes
  <2> QED BY <2>1, <2>2
<1>3. OpOK([at |-> "row", code |-> k])'
  BY DEF OpOK
<1>4. OpsOK'
  BY <1>1, <1>2, <1>3, OpsStep DEF Types
<1>5. pool' \in Seq(Codes)
  <2>1. CASE Pull(c)
    BY <2>1, SeqEnds DEF Pull, Types, StoreOK
  <2>2. CASE PullNone(c)
    BY <2>2 DEF PullNone, stores, Types, StoreOK
  <2> QED BY <2>1, <2>2
<1>6. RefillsOK'
  BY MaybeRefillTypes DEF Pull, PullNone, Types
<1> QED BY <1>1, <1>4, <1>5, <1>6, JobsStay DEF Types, StoreOK

\* A batch is a range of codes.
LEMMA BatchEnds ==
  ASSUME NEW b \in 0 .. Batches - 1
  PROVE  End(b) \in Nat /\ End(b) = b * BatchSize + BatchSize /\ End(b) <= Batches * BatchSize
         /\ End(b) - BatchSize = b * BatchSize /\ b * BatchSize \in Nat
<1>1. Batches - 1 - b \in Nat /\ BatchSize \in Nat /\ b \in Nat /\ Batches \in Nat
  BY MemoryAssumption
<1>2. (Batches - 1 - b) * BatchSize \in Nat
  BY <1>1
<1> QED BY <1>1, <1>2 DEF End

LEMMA BatchOK ==
  ASSUME NEW b \in 0 .. Batches - 1
  PROVE  AddOK([at |-> "add", batch |-> b, left |-> Batch(b)])
<1> DEFINE s == Batch(b)
<1>1. BatchSize \in Nat /\ Batches * BatchSize \in Nat /\ b * BatchSize \in Nat
      /\ b * BatchSize + BatchSize <= Batches * BatchSize
      /\ End(b) = b * BatchSize + BatchSize
  BY BatchEnds, MemoryAssumption
<1>2. s = [i \in 1 .. BatchSize |-> b * BatchSize + i]
  BY DEF Batch
<1>3. Len(s) = BatchSize /\ s \in Seq(Codes)
  BY <1>1, <1>2 DEF Codes
<1>4. \A i \in 1 .. Len(s) : s[i] = End(b) - Len(s) + i
  BY <1>1, <1>2, <1>3
<1> HIDE DEF s
<1>5. AddOK([at |-> "add", batch |-> b, left |-> s])
  BY <1>1, <1>3, <1>4 DEF AddOK
<1> QED BY <1>5 DEF s

LEMMA ReadIndexTypes == ASSUME Types, NEW g \in Refills, ReadIndex(g) PROVE Types'
<1>1. UNCHANGED <<pool, startIndex, rows, index, nextId, op, job, removed>> /\ RowsKeep
  BY SameRows DEF ReadIndex, stores, Types
<1>2. PICK x : RefillOK(x) /\ refill' = [refill EXCEPT ![g] = x]
  <2>1. CASE startIndex = Batches
    BY <2>1 DEF ReadIndex, RefillOK
  <2>2. CASE startIndex # Batches
    <3>1. startIndex \in 0 .. Batches - 1
      BY <2>2, MemoryAssumption DEF Types, StoreOK
    <3> QED BY <2>2, <3>1, BatchOK DEF ReadIndex, RefillOK
  <2> QED BY <2>1, <2>2
<1>3. RefillsOK'
  BY <1>2, RefillsStep DEF Types
<1> QED BY <1>1, <1>3, OpsStay, JobsStay DEF Types, StoreOK

\* What is left of a batch, one code further.
LEMMA AddNext ==
  ASSUME NEW r, AddOK(r), r.left # <<>>
  PROVE  /\ Head(r.left) = End(r.batch) - Len(r.left) + 1 /\ Head(r.left) \in Codes
         /\ Len(Tail(r.left)) = Len(r.left) - 1
         /\ [r EXCEPT !.left = Tail(@)] = [at |-> "add", batch |-> r.batch, left |-> Tail(r.left)]
         /\ AddOK([r EXCEPT !.left = Tail(@)])
<1> DEFINE s == r.left
           rest == Tail(s)
           e == End(r.batch)
<1>1. /\ s \in Seq(Codes) /\ s # <<>> /\ Len(s) <= BatchSize /\ BatchSize \in Nat
      /\ \A i \in 1 .. Len(s) : s[i] = e - Len(s) + i
      /\ r.batch \in 0 .. Batches - 1
  BY MemoryAssumption DEF AddOK
<1>2. e \in Nat
  BY <1>1, BatchEnds
<1> HIDE DEF e, s
<1>3. Len(s) \in Nat \ {0} /\ Head(s) = s[1] /\ Head(s) \in Codes
  BY <1>1
<1>4. Len(rest) = Len(s) - 1 /\ rest \in Seq(Codes)
      /\ \A i \in 1 .. Len(s) - 1 : rest[i] = s[i + 1]
  BY <1>1
<1> HIDE DEF rest
<1>5. Head(s) = e - Len(s) + 1
  BY <1>1, <1>3
<1>6. \A i \in 1 .. Len(rest) : rest[i] = e - Len(rest) + i
  <2> SUFFICES ASSUME NEW i \in 1 .. Len(rest) PROVE rest[i] = e - Len(rest) + i
    OBVIOUS
  <2>1. i \in 1 .. Len(s) - 1 /\ i + 1 \in 1 .. Len(s)
    BY <1>3, <1>4
  <2>2. rest[i] = e - Len(s) + (i + 1)
    BY <1>1, <1>4, <2>1
  <2> QED BY <1>2, <1>3, <1>4, <2>1, <2>2
<1>7. Len(rest) <= BatchSize
  BY <1>1, <1>3, <1>4
<1>8. [r EXCEPT !.left = rest] = [at |-> "add", batch |-> r.batch, left |-> rest]
  BY DEF AddOK
<1>9. AddOK([at |-> "add", batch |-> r.batch, left |-> rest])
  BY <1>1, <1>4, <1>6, <1>7 DEF AddOK, e
<1> QED BY <1>3, <1>4, <1>5, <1>8, <1>9 DEF rest, s, e

LEMMA AddCodeTypes == ASSUME Types, NEW g \in Refills, AddCode(g) PROVE Types'
<1>1. UNCHANGED <<startIndex, rows, index, nextId, op, job, removed>> /\ RowsKeep
  BY SameRows DEF AddCode, Types
<1>2. AddOK(refill[g]) /\ refill[g].left # <<>>
  BY DEF AddCode, Types, RefillsOK, RefillOK, NoRefill
<1>3. pool' = Append(pool, Head(refill[g].left)) /\ Head(refill[g].left) \in Codes
  BY <1>2, AddNext DEF AddCode
<1>4. refill' = [refill EXCEPT ![g] = [refill[g] EXCEPT !.left = Tail(@)]]
  BY DEF AddCode
<1>5. RefillsOK'
  BY <1>2, <1>4, AddNext, RefillsStep DEF Types, RefillOK
<1>6. pool' \in Seq(Codes)
  BY <1>3 DEF Types, StoreOK
<1> QED BY <1>1, <1>5, <1>6, OpsStay, JobsStay DEF Types, StoreOK

LEMMA SaveIndexTypes == ASSUME Types, NEW g \in Refills, SaveIndex(g) PROVE Types'
<1>1. UNCHANGED <<pool, rows, index, nextId, op, job, removed>> /\ RowsKeep
  BY SameRows DEF SaveIndex, Types
<1>2. AddOK(refill[g])
  BY DEF SaveIndex, Types, RefillsOK, RefillOK, NoRefill
<1>3. startIndex' \in 1 .. Batches
  BY <1>2, MemoryAssumption DEF SaveIndex, AddOK
<1>4. RefillsOK'
  BY RefillsStep DEF SaveIndex, Types, RefillOK
<1> QED BY <1>1, <1>3, <1>4, OpsStay, JobsStay DEF Types, StoreOK

-----------------------------------------------------------------------------
(* The table. *)

LEMMA OpKinds ==
  ASSUME NEW o, OpOK(o)
  PROVE  /\ o.at \in {"row", "save"} => o.code \in RowCodes
         /\ o.at = "save" => Agrees(o.id, o.code)
         /\ o.at \in {"idle", "row", "save"}
BY DEF OpOK, NoOp

LEMMA RowCreateTypes == ASSUME Types, NEW c \in Clients, RowCreate(c) PROVE Types'
<1> DEFINE row == [code |-> op[c].code, status |-> "active", life |-> "fresh"]
<1>1. op[c].code \in RowCodes
  BY OpKinds DEF RowCreate, Types, OpsOK
<1>2. row \in Row /\ row.code = op[c].code
  BY <1>1 DEF Row, RowCodes
<1> HIDE DEF row
<1>3. /\ rows' = Put(rows, nextId, row) /\ index' = Put(index, op[c].code, nextId)
      /\ nextId' = nextId + 1 /\ op' = [op EXCEPT ![c] = NoOp]
      /\ UNCHANGED <<pool, startIndex, refill, job, removed>>
  BY DEF RowCreate, row
<1>4. /\ nextId \in Nat \ {0} /\ nextId' \in Nat \ {0} /\ nextId' >= nextId
      /\ 1 .. nextId' - 1 = 1 .. nextId - 1 \cup {nextId} /\ nextId \notin 1 .. nextId - 1
  BY <1>3 DEF Types, StoreOK
<1>5. /\ DOMAIN rows' = DOMAIN rows \cup {nextId} /\ rows'[nextId] = row
      /\ \A id \in DOMAIN rows : id # nextId /\ rows'[id] = rows[id]
  <2>1. /\ DOMAIN rows' = DOMAIN rows \cup {nextId} /\ rows'[nextId] = row
        /\ \A id \in DOMAIN rows : id # nextId => rows'[id] = rows[id]
    BY <1>3 DEF Put
  <2>2. nextId \notin DOMAIN rows
    BY <1>4 DEF Types, StoreOK
  <2> QED BY <2>1, <2>2
<1>6. RowsKeep
  BY <1>4, <1>5 DEF RowsKeep
<1>7. /\ DOMAIN rows' \subseteq 1 .. nextId' - 1
      /\ \A id \in DOMAIN rows' : rows'[id] \in Row
  BY <1>2, <1>4, <1>5 DEF Types, StoreOK
<1>8. /\ DOMAIN index' \subseteq RowCodes
      /\ \A k \in DOMAIN index' : index'[k] \in DOMAIN rows' /\ rows'[index'[k]].code = k
  <2>1. /\ DOMAIN index' = DOMAIN index \cup {op[c].code} /\ index'[op[c].code] = nextId
        /\ \A k \in DOMAIN index : k # op[c].code => index'[k] = index[k]
    BY <1>3 DEF Put
  <2>2. \A k \in DOMAIN index : index[k] \in DOMAIN rows /\ rows[index[k]].code = k
    BY DEF Types, StoreOK
  <2>3. ASSUME NEW k \in DOMAIN index'
        PROVE  index'[k] \in DOMAIN rows' /\ rows'[index'[k]].code = k
    BY <1>2, <1>5, <2>1, <2>2
  <2> QED BY <1>1, <2>1, <2>3 DEF Types, StoreOK
<1>9. StoreOK'
  BY <1>3, <1>4, <1>7, <1>8 DEF Types, StoreOK, Codes, RowCodes
<1>10. OpsOK'
  BY <1>3, <1>6, NoOpOK, OpsStep DEF Types, OpOK
<1>11. JobsOK' /\ RefillsOK'
  BY <1>3, <1>6, JobsStay DEF Types, RefillsOK
<1> QED BY <1>9, <1>10, <1>11 DEF Types

LEMMA ReadRowTypes ==
  ASSUME Types, NEW c \in Clients, NEW k \in Codes, ReadRow(c, k) PROVE Types'
<1>1. UNCHANGED <<pool, startIndex, rows, index, nextId, refill, job, removed>> /\ RowsKeep
  BY SameRows DEF ReadRow, stores, Types
<1>2. Agrees(index[k], k)
  BY DEF ReadRow, Types, StoreOK, Agrees
<1>3. OpOK([at |-> "save", code |-> k, id |-> index[k]])
  BY <1>2 DEF OpOK, RowCodes
<1>4. OpOK([at |-> "save", code |-> k, id |-> index[k]])'
  BY <1>1, <1>2, AgreesKeeps DEF OpOK, RowCodes, Types, StoreOK
<1>5. OpsOK'
  BY <1>1, <1>4, OpsStep DEF ReadRow, Types
<1> QED BY <1>1, <1>5, JobsStay DEF Types, StoreOK, RefillsOK

\* A row is stored again, under its code.
LEMMA ReindexTypes ==
  ASSUME StoreOK, NEW id, NEW k \in RowCodes, Agrees(id, k), Reindex(id, k)
  PROVE  /\ DOMAIN index' \subseteq RowCodes
         /\ \A x \in DOMAIN index' : index'[x] \in DOMAIN rows /\ rows[index'[x]].code = x
<1>1. CASE id \in DOMAIN rows
  <2>1. index' = Put(index, k, id)
    BY <1>1 DEF Reindex
  <2>2. /\ DOMAIN index' = DOMAIN index \cup {k} /\ index'[k] = id
        /\ \A x \in DOMAIN index : x # k => index'[x] = index[x]
    BY <2>1 DEF Put
  <2> QED BY <1>1, <2>2 DEF StoreOK, Agrees
<1>2. CASE id \notin DOMAIN rows
  BY <1>2 DEF Reindex, StoreOK
<1> QED BY <1>1, <1>2

LEMMA RowFields ==
  ASSUME NEW r \in Row
  PROVE  /\ \A l : l \in {"fresh", "past", "old"} =>
              /\ [r EXCEPT !.life = l] \in Row
              /\ [r EXCEPT !.life = l].code = r.code /\ [r EXCEPT !.life = l].status = r.status
         /\ \A s : s \in {"active", "expired", "recycled"} =>
              /\ [r EXCEPT !.status = s] \in Row
              /\ [r EXCEPT !.status = s].code = r.code /\ [r EXCEPT !.status = s].status = s
BY DEF Row

\* A row gets another status, or another expiry.
LEMMA RowChanges ==
  ASSUME StoreOK, NEW id \in DOMAIN rows, NEW r \in Row, r.code = rows[id].code,
         rows' = [rows EXCEPT ![id] = r]
  PROVE  /\ DOMAIN rows' = DOMAIN rows
         /\ \A i \in DOMAIN rows : rows'[i] \in Row /\ rows'[i].code = rows[i].code
BY DEF StoreOK

\* Rows that change keep their ids and codes.
LEMMA SameCodes ==
  ASSUME StoreOK, UNCHANGED <<pool, startIndex, nextId, removed>>,
         DOMAIN rows' = DOMAIN rows,
         \A i \in DOMAIN rows : rows'[i] \in Row /\ rows'[i].code = rows[i].code,
         UNCHANGED index \/ \E id : \E k \in RowCodes : Agrees(id, k) /\ Reindex(id, k)
  PROVE  StoreOK' /\ RowsKeep
<1>1. /\ DOMAIN index' \subseteq RowCodes
      /\ \A x \in DOMAIN index' : index'[x] \in DOMAIN rows /\ rows[index'[x]].code = x
  BY ReindexTypes DEF StoreOK
<1>2. RowsKeep
  BY DEF RowsKeep, StoreOK
<1> QED BY <1>1, <1>2 DEF StoreOK

LEMMA RowSaveTypes == ASSUME Types, NEW c \in Clients, RowSave(c) PROVE Types'
<1>1. op[c].code \in RowCodes /\ Agrees(op[c].id, op[c].code) /\ Reindex(op[c].id, op[c].code)
  BY OpKinds DEF RowSave, Types, OpsOK
<1>2. UNCHANGED <<pool, startIndex, nextId, refill, job, removed>>
      /\ op' = [op EXCEPT ![c] = NoOp]
  BY DEF RowSave
<1>3. /\ DOMAIN rows' = DOMAIN rows
      /\ \A i \in DOMAIN rows : rows'[i] \in Row /\ rows'[i].code = rows[i].code
  <2>1. CASE op[c].id \in DOMAIN rows
    <3>1. rows' = [rows EXCEPT ![op[c].id] = [rows[op[c].id] EXCEPT !.life = "fresh"]]
      BY <2>1 DEF RowSave
    <3>2. StoreOK /\ rows[op[c].id] \in Row
      BY <2>1 DEF Types, StoreOK
    <3>3. /\ [rows[op[c].id] EXCEPT !.life = "fresh"] \in Row
          /\ [rows[op[c].id] EXCEPT !.life = "fresh"].code = rows[op[c].id].code
      BY <3>2, RowFields
    <3> QED BY <2>1, <3>1, <3>2, <3>3, RowChanges
  <2>2. CASE op[c].id \notin DOMAIN rows
    BY <2>2 DEF RowSave, Types, StoreOK
  <2> QED BY <2>1, <2>2
<1>4. StoreOK' /\ RowsKeep
  BY <1>1, <1>2, <1>3, SameCodes DEF Types
<1>5. OpsOK'
  BY <1>2, <1>4, NoOpOK, OpsStep DEF Types, OpOK
<1> QED BY <1>2, <1>4, <1>5, JobsStay DEF Types, RefillsOK

LEMMA RestrictFact ==
  ASSUME NEW f, NEW S, S \subseteq DOMAIN f
  PROVE  DOMAIN Restrict(f, S) = S /\ \A x \in S : Restrict(f, S)[x] = f[x]
BY DEF Restrict

LEMMA DeleteByCodeTypes ==
  ASSUME Types, NEW c \in Clients, NEW k \in Codes, DeleteByCode(c, k) PROVE Types'
<1>1. UNCHANGED <<pool, startIndex, nextId, op, refill, job>> /\ removed' = removed \cup {k}
  BY DEF DeleteByCode
<1>2. /\ DOMAIN rows' = DOMAIN rows \ {index[k]}
      /\ \A id \in DOMAIN rows' : rows'[id] = rows[id]
  BY RestrictFact DEF DeleteByCode
<1>3. /\ DOMAIN index' = DOMAIN index \ {k}
      /\ \A x \in DOMAIN index' : index'[x] = index[x]
  BY RestrictFact DEF DeleteByCode
<1>4. rows[index[k]].code = k
  BY DEF DeleteByCode, Types, StoreOK
<1>5. RowsKeep
  BY <1>1, <1>2 DEF RowsKeep, Types, StoreOK
<1>6. /\ DOMAIN rows' \subseteq 1 .. nextId - 1
      /\ \A id \in DOMAIN rows' : rows'[id] \in Row
  BY <1>2 DEF Types, StoreOK
<1>7. /\ DOMAIN index' \subseteq RowCodes
      /\ \A x \in DOMAIN index' : index'[x] \in DOMAIN rows' /\ rows'[index'[x]].code = x
  BY <1>2, <1>3, <1>4 DEF Types, StoreOK
<1>8. StoreOK'
  BY <1>1, <1>6, <1>7 DEF Types, StoreOK
<1> QED BY <1>1, <1>5, <1>8, OpsStay, JobsStay DEF Types, RefillsOK

-----------------------------------------------------------------------------
(* The jobs, a rebuild, and the days. *)

\* A page is of due rows, none twice.
LEMMA PageFacts ==
  ASSUME StoreOK, NEW j \in Jobs, NEW from, NEW p \in Pages(j, from)
  PROVE  /\ Len(p) \in Nat \ {0} /\ DOMAIN p = 1 .. Len(p)
         /\ \A i \in DOMAIN p :
              /\ p[i] \in DOMAIN rows /\ p[i] \in Due(j) /\ p[i] \in 1 .. nextId - 1
              /\ rows[p[i]].code \in RowCodes
         /\ \A i, h \in DOMAIN p : p[i] = p[h] => i = h
<1>1. PICK n \in 1 .. PageSize :
        p \in [1 .. n -> {id \in Due(j) : id > from}] /\ IsInjective(p)
  BY DEF Pages
<1>2. n \in Nat \ {0} /\ DOMAIN p = 1 .. n /\ Len(p) = n
  BY <1>1, MemoryAssumption
<1>3. Due(j) \subseteq DOMAIN rows
  BY DEF Due
<1>4. \A i \in DOMAIN p : p[i] \in Due(j) /\ p[i] \in DOMAIN rows
  BY <1>1, <1>3
<1>5. \A id \in DOMAIN rows : id \in 1 .. nextId - 1 /\ rows[id].code \in RowCodes
  BY DEF StoreOK, Row, RowCodes
<1>6. \A i, h \in DOMAIN p : p[i] = p[h] => i = h
  BY <1>1 DEF IsInjective
<1> QED BY <1>2, <1>4, <1>5, <1>6

\* The page of a job, as it was read.
PageOf(p) == [i \in DOMAIN p |-> [id |-> p[i], code |-> rows[p[i]].code]]

LEMMA TakeFacts ==
  ASSUME StoreOK, NEW j \in Jobs, NEW from, Take(j, from)
  PROVE  \E p \in Pages(j, from) :
           LET x == [at |-> "each", from |-> p[Len(p)], page |-> PageOf(p), n |-> 1]
           IN  job' = [job EXCEPT ![j] = x] /\ JobOK(x)
<1>1. PICK p \in Pages(j, from) :
        job' = [job EXCEPT ![j] = [at |-> "each", from |-> p[Len(p)], n |-> 1,
                                   page |-> PageOf(p)]]
  BY DEF Take, PageOf
<1> DEFINE page == PageOf(p)
           last == p[Len(p)]
           x == [at |-> "each", from |-> last, page |-> page, n |-> 1]
<1>2. /\ DOMAIN page = 1 .. Len(p) /\ Len(p) \in Nat \ {0} /\ Len(page) = Len(p)
      /\ \A i \in DOMAIN page : page[i].code \in RowCodes /\ Agrees(page[i].id, page[i].code)
  BY PageFacts DEF PageOf, Agrees
<1>3. job' = [job EXCEPT ![j] = x]
  BY <1>1
<1> HIDE DEF page, last
<1>4. 1 \in 1 .. Len(page) /\ Len(page) \in Nat
  BY <1>2
<1>5. JobOK(x)
  BY <1>2, <1>4 DEF JobOK
<1> QED BY <1>3, <1>5 DEF page, last

LEMMA NoJobOK == JobOK(NoJob) /\ \A l : JobOK([NoJob EXCEPT !.at = "find", !.from = l])
<1> DEFINE none == <<>>
<1>1. DOMAIN none = {} /\ Len(none) = 0 /\ DOMAIN none = 1 .. Len(none)
  OBVIOUS
<1> HIDE DEF none
<1>2. \A at \in {"idle", "find"} : \A l : JobOK([at |-> at, from |-> l, page |-> none, n |-> 0])
  BY <1>1 DEF JobOK
<1>3. ASSUME NEW l
      PROVE  [NoJob EXCEPT !.at = "find", !.from = l]
             = [at |-> "find", from |-> l, page |-> none, n |-> 0]
  <2> DEFINE q == [NoJob EXCEPT !.at = "find"]
  <2>1. q = [at |-> "find", from |-> 0, page |-> none, n |-> 0]
    BY DEF NoJob, none
  <2>2. [NoJob EXCEPT !.at = "find", !.from = l] = [q EXCEPT !.from = l]
    BY DEF NoJob
  <2> HIDE DEF q
  <2> QED BY <2>1, <2>2
<1>4. NoJob = [at |-> "idle", from |-> 0, page |-> none, n |-> 0]
  BY DEF NoJob, none
<1>5. JobOK(NoJob)
  BY <1>2, <1>4
<1>6. ASSUME NEW l PROVE JobOK([NoJob EXCEPT !.at = "find", !.from = l])
  <2>1. JobOK([at |-> "find", from |-> l, page |-> none, n |-> 0])
    BY <1>2
  <2> QED BY <1>3, <2>1, Zenon
<1> QED BY <1>5, <1>6

LEMMA FindTypes ==
  ASSUME Types, NEW j \in Jobs, PassStart(j) \/ PassNext(j) PROVE Types'
<1>1. UNCHANGED <<pool, startIndex, rows, index, nextId, op, refill, removed>> /\ RowsKeep
  BY SameRows DEF PassStart, PassNext, stores, Types
<1>2. PICK x : JobOK(x) /\ job' = [job EXCEPT ![j] = x]
  BY TakeFacts, NoJobOK DEF PassStart, PassNext, Types
<1>3. JobOK(x)'
  BY <1>1, <1>2, JobKeeps DEF Types, StoreOK
<1>4. JobsOK'
  BY <1>1, <1>2, <1>3, JobsStep DEF Types
<1> QED BY <1>1, <1>4, OpsStay DEF Types, StoreOK, RefillsOK

\* The row a job has come to.
LEMMA JobRow ==
  ASSUME JobsOK, NEW j \in Jobs, job[j].at \in {"each", "save"},
         NEW row, row = job[j].page[job[j].n]
  PROVE  /\ row.code \in RowCodes /\ Agrees(row.id, row.code)
         /\ job[j].n \in DOMAIN job[j].page
BY DEF JobsOK, JobOK

\* The job goes on to the next row of its page, or to the updates.
LEMMA JobGoesOn ==
  ASSUME NEW r, JobOK(r), r.at \in {"each", "save"}
  PROVE  /\ r.n < Len(r.page) => JobOK([r EXCEPT !.n = @ + 1])
                                 /\ [r EXCEPT !.n = @ + 1].page = r.page
                                 /\ [r EXCEPT !.n = @ + 1].at = r.at
                                 /\ [r EXCEPT !.n = @ + 1].n = r.n + 1
         /\ JobOK([r EXCEPT !.n = 1, !.at = "save"])
         /\ [r EXCEPT !.n = 1, !.at = "save"].at = "save"
<1> DEFINE at == r.at
           from == r.from
           page == r.page
           n == r.n
           q == [r EXCEPT !.n = 1]
<1>1. /\ r = [at |-> at, from |-> from, page |-> page, n |-> n]
      /\ at \in {"each", "save"} /\ n \in 1 .. Len(page) /\ Len(page) \in Nat
      /\ DOMAIN page = 1 .. Len(page)
      /\ \A i \in DOMAIN page : page[i].code \in RowCodes /\ Agrees(page[i].id, page[i].code)
  BY DEF JobOK
<1>2. [r EXCEPT !.n = 1, !.at = "save"] = [q EXCEPT !.at = "save"]
  OBVIOUS
<1> HIDE DEF at, from, page, n
<1>3. \A m : [r EXCEPT !.n = m] = [at |-> at, from |-> from, page |-> page, n |-> m]
  BY <1>1
<1>4. q = [at |-> at, from |-> from, page |-> page, n |-> 1]
  BY <1>3
<1> HIDE DEF q
<1>5. [q EXCEPT !.at = "save"] = [at |-> "save", from |-> from, page |-> page, n |-> 1]
  BY <1>4
<1>6. 1 \in 1 .. Len(page) /\ (n < Len(page) => n + 1 \in 1 .. Len(page))
  BY <1>1
<1>7. JobOK([at |-> "save", from |-> from, page |-> page, n |-> 1])
  BY <1>1, <1>6 DEF JobOK
<1>8. n < Len(page) => JobOK([at |-> at, from |-> from, page |-> page, n |-> n + 1])
  BY <1>1, <1>6 DEF JobOK
<1> QED BY <1>2, <1>3, <1>5, <1>7, <1>8 DEF at, from, page, n

LEMMA EachTypes == ASSUME Types, NEW j \in Jobs, Each(j) PROVE Types'
<1> DEFINE row == job[j].page[job[j].n]
<1>1. /\ job[j].at = "each" /\ UNCHANGED <<startIndex, index, nextId, op, refill, removed>>
      /\ JobOK(job[j])
  BY DEF Each, Types, JobsOK
<1>2. row.code \in RowCodes
  BY <1>1, JobRow DEF Types
<1>3. pool' \in Seq(Codes)
  <2>1. pool \in Seq(Codes)
    BY DEF Types, StoreOK
  <2>2. pool' = pool \/ (pool' = Append(pool, row.code) /\ row.code # NoCode)
    BY DEF Each
  <2> HIDE DEF row
  <2>3. row.code # NoCode => Append(pool, row.code) \in Seq(Codes)
    BY <1>2, <2>1 DEF RowCodes
  <2> QED BY <2>1, <2>2, <2>3
<1>4. /\ DOMAIN rows' = DOMAIN rows
      /\ \A i \in DOMAIN rows : rows'[i] \in Row /\ rows'[i].code = rows[i].code
  <2>1. CASE row.id \in DOMAIN rows
    <3>1. PICK s \in {"recycled", "expired"} :
            rows' = [rows EXCEPT ![row.id] = [rows[row.id] EXCEPT !.status = s]]
      BY <2>1 DEF Each
    <3> HIDE DEF row
    <3>2. rows[row.id] \in Row
      BY <2>1 DEF Types, StoreOK
    <3>3. /\ [rows[row.id] EXCEPT !.status = s] \in Row
          /\ [rows[row.id] EXCEPT !.status = s].code = rows[row.id].code
      BY <3>2, RowFields
    <3> QED BY <2>1, <3>1, <3>3, RowChanges DEF Types
  <2>2. CASE row.id \notin DOMAIN rows
    BY <2>2 DEF Each, Types, StoreOK
  <2> QED BY <2>1, <2>2
<1>5. StoreOK' /\ RowsKeep
  BY <1>1, <1>3, <1>4 DEF Types, StoreOK, RowsKeep
<1>6. PICK x : JobOK(x) /\ job' = [job EXCEPT ![j] = x]
  BY <1>1, JobGoesOn DEF Each
<1>7. JobOK(x)'
  BY <1>5, <1>6, JobKeeps DEF Types, StoreOK
<1>8. JobsOK'
  BY <1>5, <1>6, <1>7, JobsStep DEF Types
<1> QED BY <1>1, <1>5, <1>8, OpsStay DEF Types, RefillsOK

LEMMA SaveTypes == ASSUME Types, NEW j \in Jobs, Save(j) PROVE Types'
<1> DEFINE row == job[j].page[job[j].n]
<1>1. /\ job[j].at = "save" /\ UNCHANGED <<pool, startIndex, rows, nextId, op, refill, removed>>
      /\ Reindex(row.id, row.code) /\ JobOK(job[j])
  BY DEF Save, Types, JobsOK
<1>2. row.code \in RowCodes /\ Agrees(row.id, row.code)
  BY <1>1, JobRow DEF Types
<1>3. StoreOK' /\ RowsKeep
  BY <1>1, <1>2, SameCodes DEF Types, StoreOK
<1>4. PICK x : JobOK(x) /\ job' = [job EXCEPT ![j] = x]
  BY <1>1, JobGoesOn, NoJobOK DEF Save
<1>5. JobOK(x)'
  BY <1>3, <1>4, JobKeeps DEF Types, StoreOK
<1>6. JobsOK'
  BY <1>3, <1>4, <1>5, JobsStep DEF Types
<1> QED BY <1>1, <1>3, <1>6, OpsStay DEF Types, RefillsOK

LEMMA StartBounds ==
  ASSUME StoreOK
  PROVE  /\ startIndex * BatchSize \in Nat /\ Batches * BatchSize \in Nat
         /\ startIndex * BatchSize <= Batches * BatchSize
         /\ 1 .. startIndex * BatchSize \subseteq Codes
<1>1. startIndex - 1 \in 0 .. Batches - 1 /\ startIndex \in Nat
  BY MemoryAssumption DEF StoreOK
<1>2. End(startIndex - 1) = startIndex * BatchSize
  BY <1>1 DEF End
<1>3. startIndex * BatchSize \in Nat /\ startIndex * BatchSize <= Batches * BatchSize
  BY <1>1, <1>2, BatchEnds
<1>4. Batches * BatchSize \in Nat
  BY MemoryAssumption
<1> QED BY <1>3, <1>4 DEF Codes

LEMMA InOrderFacts ==
  ASSUME StoreOK, NEW S, S \subseteq 1 .. startIndex * BatchSize, NEW q \in InOrder(S)
  PROVE  /\ q \in Seq(S) /\ q \in Seq(Codes) /\ {q[i] : i \in DOMAIN q} = S
         /\ \A i, j \in DOMAIN q : q[i] = q[j] => i = j
<1>1. PICK n \in 0 .. startIndex * BatchSize : q \in [1 .. n -> S]
  BY DEF InOrder
<1>2. n \in Nat /\ S \subseteq Codes /\ \A x \in S : x \in Int
  BY StartBounds DEF Codes
<1>3. DOMAIN q = 1 .. n /\ \A i \in 1 .. n : q[i] \in S /\ i \in Int
  BY <1>1
<1>4. \A i, j \in DOMAIN q : i < j => q[i] < q[j]
  BY DEF InOrder
<1>5. ASSUME NEW i \in 1 .. n, NEW j \in 1 .. n, q[i] = q[j] PROVE i = j
  <2>0. q[i] \in Int /\ q[j] \in Int
    BY <1>2, <1>3
  <2>1. ~(q[i] < q[j]) /\ ~(q[j] < q[i])
    BY <1>5, <2>0
  <2>2. ~(i < j) /\ ~(j < i)
    BY <1>3, <1>4, <2>1
  <2> QED BY <1>3, <2>2
<1>6. q \in Seq(S) /\ q \in Seq(Codes)
  <2>1. q \in [1 .. n -> Codes]
    BY <1>1, <1>2
  <2> QED BY <1>1, <1>2, <2>1
<1>7. {q[i] : i \in DOMAIN q} = S
  BY Zenon DEF InOrder, Members
<1> QED BY <1>3, <1>5, <1>6, <1>7

LEMMA RebuildTypes == ASSUME Types, Rebuild PROVE Types'
<1>1. UNCHANGED <<startIndex, rows, index, nextId, op, refill, job>> /\ RowsKeep
  BY SameRows DEF Rebuild, Types
<1>2. pool' \in Seq(Codes) /\ removed' = {}
  BY InOrderFacts DEF Rebuild, Types
<1> QED BY <1>1, <1>2, OpsStay, JobsStay DEF Types, StoreOK, RefillsOK

LEMMA AgeTypes == ASSUME Types, NEW id, Age(id) PROVE Types'
<1>1. UNCHANGED <<pool, startIndex, index, nextId, op, refill, job, removed>>
      /\ id \in DOMAIN rows /\ rows[id] \in Row
  BY DEF Age, Types, StoreOK
<1>2. PICK l \in {"past", "old"} : rows' = [rows EXCEPT ![id] = [rows[id] EXCEPT !.life = l]]
  BY DEF Age
<1>3. [rows[id] EXCEPT !.life = l] \in Row /\ [rows[id] EXCEPT !.life = l].code = rows[id].code
  BY <1>1, RowFields
<1>4. StoreOK' /\ RowsKeep
  BY <1>1, <1>2, <1>3, RowChanges, SameCodes DEF Types
<1> QED BY <1>1, <1>4, OpsStay, JobsStay DEF Types, RefillsOK

LEMMA TypesInit == Init => Types
<1> SUFFICES ASSUME Init PROVE Types
  OBVIOUS
<1>1. Len(Batch(0)) = BatchSize /\ Batch(0) \in Seq(Codes)
  <2>1. 0 \in 0 .. Batches - 1 /\ BatchSize \in Nat /\ Batches * BatchSize \in Nat
    BY MemoryAssumption
  <2>2. 0 * BatchSize = 0 /\ BatchSize <= Batches * BatchSize
    BY <2>1, BatchEnds
  <2> QED BY <2>1, <2>2 DEF Batch, Codes
<1>2. StoreOK
  BY <1>1, MemoryAssumption DEF Init, StoreOK
<1>3. OpsOK /\ RefillsOK /\ JobsOK
  BY NoOpOK, NoJobOK DEF Init, OpsOK, RefillsOK, RefillOK, JobsOK
<1> QED BY <1>2, <1>3 DEF Types

LEMMA TypesNext == Types /\ [Next]_vars => Types'
<1> SUFFICES ASSUME Types, [Next]_vars PROVE Types'
  OBVIOUS
<1>1. ASSUME NEW c \in Clients, Pull(c) \/ PullNone(c) \/ RowCreate(c) \/ RowSave(c)
      PROVE  Types'
  BY <1>1, PullTypes, RowCreateTypes, RowSaveTypes
<1>2. ASSUME NEW c \in Clients, NEW k \in Codes, ReadRow(c, k) \/ DeleteByCode(c, k)
      PROVE  Types'
  BY <1>2, ReadRowTypes, DeleteByCodeTypes
<1>3. ASSUME NEW g \in Refills, ReadIndex(g) \/ AddCode(g) \/ SaveIndex(g) PROVE Types'
  BY <1>3, ReadIndexTypes, AddCodeTypes, SaveIndexTypes
<1>4. ASSUME NEW j \in Jobs, Pass(j) PROVE Types'
  BY <1>4, FindTypes, EachTypes, SaveTypes DEF Pass
<1>5. CASE UNCHANGED vars
  <2>1. UNCHANGED <<pool, startIndex, rows, index, nextId, op, refill, job, removed>>
    BY <1>5 DEF vars, stores
  <2>2. RowsKeep
    BY <2>1, SameRows DEF Types
  <2> QED BY <2>1, <2>2, OpsStay, JobsStay DEF Types, StoreOK, RefillsOK
<1> QED BY <1>1, <1>2, <1>3, <1>4, <1>5, RebuildTypes, AgeTypes DEF Next

LEMMA TypesCorrect == Spec => []Types
BY TypesInit, TypesNext, PTL DEF Spec

\* The index leads from every code it knows to a stored row of that code, and no page
\* of a job holds a code that was never one: for any pages, rows and clients
\* (ext/memx/repo.go:137).
THEOREM TypesHold == Spec => []TypeOK
<1>1. Types => TypeOK
  BY DEF Types, StoreOK, TypeOK, JobsOK, JobOK, RowCodes
<1> QED BY <1>1, TypesCorrect, PTL

-----------------------------------------------------------------------------
(* No code is lost. *)

Held(k) == Places(k) # {} \/ Holders(k) # {} \/ Keepers(k) # {} \/ k \in removed

\* Also of a batch that is being added, no code that was added is lost.
Lossless ==
  /\ NothingLost
  /\ \A g \in Refills : refill[g].at = "add" =>
        \A k \in 1 .. End(refill[g].batch) - Len(refill[g].left) : Held(k)

LEMMA PlacesTail ==
  ASSUME StoreOK, pool # <<>>, pool' = Tail(pool), NEW k
  PROVE  /\ \A i \in Places(k) : i # 1 => i - 1 \in Places(k)'
         /\ \A i \in Places(k)' : i + 1 \in Places(k)
         /\ 1 \in Places(k) <=> k = Head(pool)
         /\ \A i \in Places(k) : i \in Nat \ {0}
         /\ \A i \in Places(k)' : i \in Nat \ {0}
<1>1. pool \in Seq(Codes)
  BY DEF StoreOK
<1>2. /\ Len(pool) \in Nat \ {0} /\ DOMAIN pool = 1 .. Len(pool) /\ Head(pool) = pool[1]
      /\ DOMAIN Tail(pool) = 1 .. Len(pool) - 1
      /\ \A i \in 1 .. Len(pool) - 1 : Tail(pool)[i] = pool[i + 1]
  BY <1>1
<1>3. \A i \in Places(k)' : i \in 1 .. Len(pool) - 1 /\ Tail(pool)[i] = k
  BY <1>2 DEF Places
<1>4. ASSUME NEW i \in Places(k), i # 1 PROVE i - 1 \in Places(k)'
  <2>1. i \in 1 .. Len(pool) /\ i - 1 \in 1 .. Len(pool) - 1 /\ pool[i] = k
    BY <1>2, <1>4 DEF Places
  <2>2. Tail(pool)[i - 1] = pool[(i - 1) + 1] /\ (i - 1) + 1 = i
    BY <1>2, <2>1
  <2> QED BY <1>2, <2>1, <2>2 DEF Places
<1>5. ASSUME NEW i \in Places(k)' PROVE i + 1 \in Places(k)
  <2>1. i + 1 \in 1 .. Len(pool) /\ pool[i + 1] = k
    BY <1>2, <1>3
  <2> QED BY <1>2, <2>1 DEF Places
<1>6. 1 \in Places(k) <=> k = Head(pool)
  BY <1>2 DEF Places
<1> QED BY <1>2, <1>3, <1>4, <1>5, <1>6 DEF Places

LEMMA PlacesAppend ==
  ASSUME StoreOK, NEW x, pool' = Append(pool, x), NEW k
  PROVE  /\ Places(k)' = Places(k) \cup (IF x = k THEN {Len(pool) + 1} ELSE {})
         /\ Len(pool) + 1 \notin Places(k)
<1>1. pool \in Seq(Codes) /\ Len(pool) \in Nat
  BY DEF StoreOK
<1>2. /\ DOMAIN pool = 1 .. Len(pool) /\ DOMAIN pool' = 1 .. Len(pool) \cup {Len(pool) + 1}
      /\ \A i \in 1 .. Len(pool) : pool'[i] = pool[i]
      /\ pool'[Len(pool) + 1] = x /\ Len(pool) + 1 \notin 1 .. Len(pool)
  BY <1>1
<1> QED BY <1>2 DEF Places

LEMMA SamePlaces == ASSUME UNCHANGED pool, NEW k PROVE Places(k)' = Places(k)
BY DEF Places

LEMMA SameHolders == ASSUME UNCHANGED op, NEW k PROVE Holders(k)' = Holders(k)
BY DEF Holders

LEMMA SameKeepers == ASSUME UNCHANGED rows, NEW k PROVE Keepers(k)' = Keepers(k)
BY DEF Keepers

\* A client takes a step after which it holds a code, or none.
LEMMA HolderMore ==
  ASSUME OpsOK, NEW c \in Clients, NEW x,
         op' = [op EXCEPT ![c] = [at |-> "row", code |-> x]], NEW k
  PROVE  Holders(k)' = (Holders(k) \ {c}) \cup (IF x = k THEN {c} ELSE {})
BY DEF OpsOK, Holders

LEMMA HolderLess ==
  ASSUME OpsOK, NEW c \in Clients, NEW x, x.at # "row", op' = [op EXCEPT ![c] = x], NEW k
  PROVE  Holders(k)' = Holders(k) \ {c}
BY DEF OpsOK, Holders

\* What has been added of a batch, and of those before it.
LEMMA AddedAreCodes ==
  ASSUME NEW r, AddOK(r)
  PROVE  1 .. End(r.batch) - Len(r.left) \subseteq Codes
<1>1. r.batch \in 0 .. Batches - 1 /\ Len(r.left) \in Nat
  BY DEF AddOK
<1>2. End(r.batch) \in Nat /\ End(r.batch) <= Batches * BatchSize
  BY <1>1, BatchEnds
<1>3. Batches * BatchSize \in Nat
  BY MemoryAssumption
<1> QED BY <1>1, <1>2, <1>3 DEF Codes

\* What is not lost stays so while the refills do not move.
LEMMA LosslessStays ==
  ASSUME Types, Lossless, UNCHANGED startIndex,
         \A g \in Refills : refill'[g].at = "add" => refill'[g] = refill[g],
         \A k \in Codes : Held(k) => Held(k)'
  PROVE  Lossless'
<1>1. \A k \in 1 .. startIndex * BatchSize : Held(k)'
  BY StartBounds DEF Types, Lossless, NothingLost, Held
<1>2. ASSUME NEW g \in Refills, refill'[g].at = "add",
             NEW k \in 1 .. End(refill'[g].batch) - Len(refill'[g].left)
      PROVE  Held(k)'
  <2>1. refill[g].at = "add" /\ refill'[g] = refill[g]
    BY <1>2
  <2>2. AddOK(refill[g])
    BY <2>1 DEF Types, RefillsOK, RefillOK, NoRefill
  <2>3. k \in Codes
    BY <1>2, <2>1, <2>2, AddedAreCodes
  <2> QED BY <1>2, <2>1, <2>3 DEF Lossless
<1> QED BY <1>1, <1>2 DEF Lossless, NothingLost, Held

LEMMA NoNewAdds ==
  ASSUME RefillsOK, NEW left, UNCHANGED refill \/ MaybeRefill(left)
  PROVE  \A g \in Refills :
            refill[g].at = "add" \/ refill'[g].at = "add" => refill'[g] = refill[g]
BY DEF RefillsOK, MaybeRefill

LEMMA PullLossless ==
  ASSUME Types, Lossless, NEW c \in Clients, Pull(c) \/ PullNone(c) PROVE Lossless'
<1>1. UNCHANGED <<startIndex, rows, removed>> /\ op[c].at = "idle"
  BY DEF Pull, PullNone, stores
<1>2. ASSUME NEW k \in Codes, Held(k) PROVE Held(k)'
  <2>1. Keepers(k)' = Keepers(k) /\ removed' = removed
    BY <1>1, SameKeepers
  <2>2. CASE PullNone(c)
    <3>1. Holders(k)' = Holders(k) \/ Holders(k)' = Holders(k) \cup {c}
      BY <1>1, <2>2, HolderMore DEF PullNone, Types, Holders
    <3> QED BY <1>2, <2>1, <2>2, <3>1, SamePlaces DEF Held, PullNone, stores
  <2>3. CASE Pull(c)
    <3>1. StoreOK /\ pool # <<>> /\ pool' = Tail(pool)
          /\ op' = [op EXCEPT ![c] = [at |-> "row", code |-> Head(pool)]]
      BY <2>3 DEF Pull, Types
    <3>2. c \notin Holders(k)
      BY <1>1 DEF Holders
    <3>3. Holders(k)' = Holders(k) \cup (IF Head(pool) = k THEN {c} ELSE {})
      <4>1. Holders(k)' = (Holders(k) \ {c}) \cup (IF Head(pool) = k THEN {c} ELSE {})
        BY <3>1, HolderMore DEF Types
      <4> QED BY <3>2, <4>1
    <3>4. Places(k) # {} => Places(k)' # {} \/ Head(pool) = k
      BY <3>1, PlacesTail
    <3> QED BY <1>2, <2>1, <3>3, <3>4 DEF Held
  <2> QED BY <2>2, <2>3
<1>3. \A g \in Refills : refill'[g].at = "add" => refill'[g] = refill[g]
  BY NoNewAdds DEF Pull, PullNone, Types
<1> QED BY <1>1, <1>2, <1>3, LosslessStays

LEMMA ReadIndexLossless ==
  ASSUME Types, Lossless, NEW g \in Refills, ReadIndex(g) PROVE Lossless'
<1>1. UNCHANGED <<pool, startIndex, rows, op, removed>>
  BY DEF ReadIndex, stores
<1>2. \A k : Held(k)' = Held(k)
  BY <1>1, SamePlaces, SameHolders, SameKeepers DEF Held
<1>3. ASSUME NEW h \in Refills, refill'[h].at = "add",
             NEW k \in 1 .. End(refill'[h].batch) - Len(refill'[h].left)
      PROVE  Held(k)
  <2>1. CASE refill'[h] = refill[h]
    BY <1>3, <2>1 DEF Lossless
  <2>2. CASE refill'[h] # refill[h]
    <3>1. startIndex # Batches
          /\ refill'[h] = [at |-> "add", batch |-> startIndex, left |-> Batch(startIndex)]
      BY <1>3, <2>2 DEF ReadIndex, Types, RefillsOK, NoRefill
    <3>2. startIndex \in 0 .. Batches - 1
      BY <3>1, MemoryAssumption DEF Types, StoreOK
    <3>3. End(startIndex) - BatchSize = startIndex * BatchSize /\ Len(Batch(startIndex)) = BatchSize
      BY <3>2, BatchEnds, MemoryAssumption DEF Batch
    <3> QED BY <1>3, <3>1, <3>3 DEF Lossless, NothingLost, Held
  <2> QED BY <2>1, <2>2
<1> QED BY <1>1, <1>2, <1>3 DEF Lossless, NothingLost, Held

LEMMA AddCodeLossless ==
  ASSUME Types, Lossless, NEW g \in Refills, AddCode(g) PROVE Lossless'
<1> DEFINE r == refill[g]
           new == Head(r.left)
<1>1. /\ UNCHANGED <<startIndex, rows, op, removed>> /\ pool' = Append(pool, new)
      /\ refill' = [refill EXCEPT ![g] = [r EXCEPT !.left = Tail(@)]]
      /\ AddOK(r) /\ r.left # <<>> /\ r.at = "add"
  BY DEF AddCode, Types, RefillsOK, RefillOK, NoRefill
<1>2. ASSUME NEW k PROVE (Held(k) => Held(k)') /\ (k = new => Held(k)')
  BY <1>1, PlacesAppend, SameHolders, SameKeepers DEF Held, Types
<1>3. \A k \in 1 .. startIndex * BatchSize : Held(k)'
  BY <1>2 DEF Lossless, NothingLost, Held
<1>4. /\ Head(r.left) = End(r.batch) - Len(r.left) + 1
      /\ Len(Tail(r.left)) = Len(r.left) - 1
      /\ [r EXCEPT !.left = Tail(@)] = [at |-> "add", batch |-> r.batch, left |-> Tail(r.left)]
  BY <1>1, AddNext
<1>5. ASSUME NEW h \in Refills, refill'[h].at = "add",
             NEW k \in 1 .. End(refill'[h].batch) - Len(refill'[h].left)
      PROVE  Held(k)'
  <2>1. CASE h # g
    BY <1>1, <1>2, <1>5, <2>1 DEF Lossless, Types, RefillsOK
  <2>2. CASE h = g
    <3>1. k \in 1 .. End(r.batch) - (Len(r.left) - 1)
      BY <1>1, <1>4, <1>5, <2>2 DEF Types, RefillsOK
    <3>2. End(r.batch) \in Nat /\ Len(r.left) \in Nat
      BY <1>1, BatchEnds DEF AddOK
    <3>3. k \in 1 .. End(r.batch) - Len(r.left) \/ k = End(r.batch) - Len(r.left) + 1
      BY <3>1, <3>2
    <3> QED BY <1>1, <1>2, <1>4, <3>3 DEF Lossless
  <2> QED BY <2>1, <2>2
<1> QED BY <1>1, <1>3, <1>5 DEF Lossless, NothingLost, Held

LEMMA SaveIndexLossless ==
  ASSUME Types, Lossless, NEW g \in Refills, SaveIndex(g) PROVE Lossless'
<1>1. /\ UNCHANGED <<pool, rows, op, removed>> /\ refill[g].at = "add" /\ refill[g].left = <<>>
      /\ startIndex' = refill[g].batch + 1 /\ refill' = [refill EXCEPT ![g] = NoRefill]
  BY DEF SaveIndex
<1>2. \A k : Held(k)' = Held(k)
  BY <1>1, SamePlaces, SameHolders, SameKeepers DEF Held
<1>3. End(refill[g].batch) - Len(refill[g].left) = startIndex' * BatchSize
  <2>1. refill[g].batch \in 0 .. Batches - 1
    BY <1>1 DEF Types, RefillsOK, RefillOK, AddOK, NoRefill
  <2>2. Len(refill[g].left) = 0 /\ End(refill[g].batch) \in Nat
    BY <1>1, <2>1, BatchEnds
  <2> QED BY <1>1, <2>2 DEF End
<1>4. \A k \in 1 .. startIndex' * BatchSize : Held(k)
  BY <1>1, <1>3 DEF Lossless
<1>5. \A h \in Refills : refill'[h].at = "add" => refill'[h] = refill[h]
  BY <1>1 DEF Types, RefillsOK, NoRefill
<1> QED BY <1>2, <1>4, <1>5 DEF Lossless, NothingLost, Held

\* A request, a job or the days leave the pool and the refills alone.
LEMMA TableLossless ==
  ASSUME Types, Lossless, UNCHANGED <<startIndex, refill>>,
         \A k \in Codes : Held(k) => Held(k)'
  PROVE  Lossless'
BY LosslessStays

LEMMA RowCreateLossless ==
  ASSUME Types, Lossless, NEW c \in Clients, RowCreate(c) PROVE Lossless'
<1> DEFINE k0 == op[c].code
<1>1. /\ UNCHANGED <<pool, startIndex, refill, removed>> /\ op[c].at = "row"
      /\ rows' = Put(rows, nextId, [code |-> k0, status |-> "active", life |-> "fresh"])
      /\ op' = [op EXCEPT ![c] = NoOp]
  BY DEF RowCreate
<1>2. nextId \notin DOMAIN rows
  BY DEF Types, StoreOK
<1>3. /\ DOMAIN rows' = DOMAIN rows \cup {nextId}
      /\ rows'[nextId] = [code |-> k0, status |-> "active", life |-> "fresh"]
      /\ \A id \in DOMAIN rows : rows'[id] = rows[id]
  BY <1>1, <1>2 DEF Put
<1>4. ASSUME NEW k \in Codes, Held(k) PROVE Held(k)'
  <2>1. Keepers(k) \subseteq Keepers(k)' /\ (k0 = k => Keepers(k)' # {})
    BY <1>3 DEF Keepers
  <2>2. Holders(k)' = Holders(k) \ {c} /\ (c \in Holders(k) => k0 = k)
    BY <1>1, HolderLess DEF Types, NoOp, Holders
  <2>3. Places(k)' = Places(k)
    BY <1>1, SamePlaces
  <2> QED BY <1>1, <1>4, <2>1, <2>2, <2>3 DEF Held
<1> QED BY <1>1, <1>4, TableLossless

\* A row that changes its expiry is kept as it was.
LEMMA KeepersStay ==
  ASSUME DOMAIN rows' = DOMAIN rows, NEW k,
         \A id \in DOMAIN rows :
            rows'[id].code = rows[id].code /\ rows'[id].status = rows[id].status
  PROVE  Keepers(k)' = Keepers(k)
BY DEF Keepers

LEMMA LifeChanges ==
  ASSUME StoreOK, NEW id \in DOMAIN rows, NEW l, l \in {"fresh", "past", "old"},
         rows' = [rows EXCEPT ![id] = [rows[id] EXCEPT !.life = l]]
  PROVE  /\ DOMAIN rows' = DOMAIN rows
         /\ \A i \in DOMAIN rows :
              rows'[i].code = rows[i].code /\ rows'[i].status = rows[i].status
<1>1. rows[id] \in Row
  BY DEF StoreOK
<1>2. /\ [rows[id] EXCEPT !.life = l].code = rows[id].code
      /\ [rows[id] EXCEPT !.life = l].status = rows[id].status
  BY <1>1, RowFields
<1> QED BY <1>2

LEMMA RowSaveKeepers ==
  ASSUME StoreOK, NEW c \in Clients, RowSave(c), NEW k
  PROVE  Keepers(k)' = Keepers(k)
<1>1. CASE op[c].id \in DOMAIN rows
  <2>1. rows' = [rows EXCEPT ![op[c].id] = [rows[op[c].id] EXCEPT !.life = "fresh"]]
    BY <1>1 DEF RowSave
  <2> QED BY <1>1, <2>1, LifeChanges, KeepersStay
<1>2. CASE op[c].id \notin DOMAIN rows
  BY <1>2, SameKeepers DEF RowSave
<1> QED BY <1>1, <1>2

LEMMA AgeKeepers ==
  ASSUME StoreOK, NEW id, Age(id), NEW k PROVE Keepers(k)' = Keepers(k)
<1>1. PICK l \in {"past", "old"} : rows' = [rows EXCEPT ![id] = [rows[id] EXCEPT !.life = l]]
  BY DEF Age
<1>2. id \in DOMAIN rows
  BY DEF Age
<1> QED BY <1>1, <1>2, LifeChanges, KeepersStay

LEMMA RequestLossless ==
  ASSUME Types, Lossless, NEW c \in Clients, NEW k0 \in Codes,
         ReadRow(c, k0) \/ RowSave(c) PROVE Lossless'
<1>1. UNCHANGED <<pool, startIndex, refill, removed>> /\ op[c].at # "row"
  BY DEF ReadRow, RowSave, stores
<1>2. PICK x : x.at # "row" /\ op' = [op EXCEPT ![c] = x]
  BY DEF ReadRow, RowSave, NoOp
<1>3. ASSUME NEW k PROVE Held(k)' = Held(k)
  <2>1. Holders(k)' = Holders(k)
    BY <1>1, <1>2, HolderLess DEF Types, Holders
  <2>2. Keepers(k)' = Keepers(k)
    BY RowSaveKeepers, SameKeepers DEF ReadRow, stores, Types
  <2> QED BY <1>1, <2>1, <2>2, SamePlaces DEF Held
<1> QED BY <1>1, <1>3, TableLossless

LEMMA DeleteByCodeLossless ==
  ASSUME Types, Lossless, NEW c \in Clients, NEW k0 \in Codes, DeleteByCode(c, k0)
  PROVE  Lossless'
<1>1. UNCHANGED <<pool, startIndex, op, refill>> /\ removed' = removed \cup {k0}
      /\ rows[index[k0]].code = k0
  BY DEF DeleteByCode, Types, StoreOK
<1>2. /\ DOMAIN rows' = DOMAIN rows \ {index[k0]}
      /\ \A id \in DOMAIN rows' : rows'[id] = rows[id]
  BY RestrictFact DEF DeleteByCode
<1>3. ASSUME NEW k \in Codes, Held(k) PROVE Held(k)'
  <2>1. k # k0 => Keepers(k)' = Keepers(k)
    BY <1>1, <1>2 DEF Keepers
  <2> QED BY <1>1, <1>3, <2>1, SamePlaces, SameHolders DEF Held
<1> QED BY <1>1, <1>3, TableLossless

\* A job changes the status of a row; the recycler gives its code back.
LEMMA EachRows ==
  ASSUME StoreOK, JobsOK, NEW j \in Jobs, Each(j), NEW row, row = job[j].page[job[j].n]
  PROVE  /\ DOMAIN rows' = DOMAIN rows
         /\ \A id \in DOMAIN rows :
              /\ rows'[id].code = rows[id].code
              /\ rows'[id].status = IF id = row.id
                   THEN IF j = "recycle" THEN "recycled" ELSE "expired" ELSE rows[id].status
         /\ row.id \in DOMAIN rows => rows[row.id].code = row.code
         /\ row.code \in RowCodes
<1>1. row.code \in RowCodes /\ Agrees(row.id, row.code)
  BY JobRow DEF Each
<1>2. CASE row.id \in DOMAIN rows
  <2>1. PICK s : s = IF j = "recycle" THEN "recycled" ELSE "expired"
    OBVIOUS
  <2>2. rows' = [rows EXCEPT ![row.id] = [rows[row.id] EXCEPT !.status = s]]
    BY <1>2, <2>1 DEF Each
  <2>3. rows[row.id] \in Row /\ s \in {"active", "expired", "recycled"}
    BY <1>2, <2>1 DEF StoreOK
  <2>4. /\ [rows[row.id] EXCEPT !.status = s].code = rows[row.id].code
        /\ [rows[row.id] EXCEPT !.status = s].status = s
    BY <2>3, RowFields
  <2> QED BY <1>1, <1>2, <2>1, <2>2, <2>4 DEF Agrees
<1>3. CASE row.id \notin DOMAIN rows
  <2>1. rows' = rows
    BY <1>3 DEF Each
  <2> QED BY <1>1, <1>3, <2>1
<1> QED BY <1>2, <1>3

LEMMA EachLossless == ASSUME Types, Lossless, NEW j \in Jobs, Each(j) PROVE Lossless'
<1> DEFINE row == job[j].page[job[j].n]
<1>1. /\ UNCHANGED <<startIndex, op, refill, removed>>
      /\ pool' = IF j = "recycle" /\ row.code # NoCode THEN Append(pool, row.code) ELSE pool
  BY DEF Each
<1>2. /\ DOMAIN rows' = DOMAIN rows
      /\ \A id \in DOMAIN rows :
           /\ rows'[id].code = rows[id].code
           /\ rows'[id].status = IF id = row.id
                THEN IF j = "recycle" THEN "recycled" ELSE "expired" ELSE rows[id].status
      /\ row.id \in DOMAIN rows => rows[row.id].code = row.code
  BY EachRows DEF Types
<1> HIDE DEF row
<1>3. ASSUME NEW k \in Codes, Held(k) PROVE Held(k)'
  <2>0. k # NoCode
    BY DEF Codes, NoCode
  <2>1. Holders(k)' = Holders(k) /\ removed' = removed
    BY <1>1, SameHolders
  <2>2. CASE j = "recycle" /\ row.code = k
    <3>1. Places(k)' # {}
      BY <1>1, <2>0, <2>2, PlacesAppend DEF Types
    <3> QED BY <3>1 DEF Held
  <2>3. CASE ~(j = "recycle" /\ row.code = k)
    <3>1. Keepers(k) \subseteq Keepers(k)'
      BY <1>2, <2>3 DEF Keepers
    <3>2. Places(k) \subseteq Places(k)'
      <4>1. CASE pool' = pool
        BY <4>1, SamePlaces
      <4>2. CASE pool' = Append(pool, row.code)
        BY <4>2, PlacesAppend DEF Types
      <4> QED BY <1>1, <4>1, <4>2
    <3> QED BY <1>3, <2>1, <3>1, <3>2 DEF Held
  <2> QED BY <2>2, <2>3
<1> QED BY <1>1, <1>3, TableLossless

LEMMA RebuildLossless == ASSUME Types, Lossless, Rebuild PROVE Lossless'
<1>1. /\ UNCHANGED <<startIndex, rows, refill>>
      /\ pool' \in InOrder(1 .. startIndex * BatchSize \ Used)
      /\ \A g \in Refills : refill[g].at = "idle"
  BY DEF Rebuild, Quiet
<1>2. {pool'[i] : i \in DOMAIN pool'} = 1 .. startIndex * BatchSize \ Used
  BY <1>1, InOrderFacts DEF Types
<1>3. ASSUME NEW k \in 1 .. startIndex * BatchSize PROVE Held(k)'
  <2>1. CASE k \in Used
    <3>1. Keepers(k) # {}
      BY <2>1 DEF Used, Keepers
    <3> QED BY <1>1, <3>1, SameKeepers DEF Held
  <2>2. CASE k \notin Used
    <3>1. Places(k)' # {}
      BY <1>2, <2>2 DEF Places
    <3> QED BY <3>1 DEF Held
  <2> QED BY <2>1, <2>2
<1> QED BY <1>1, <1>3 DEF Lossless, NothingLost, Held

LEMMA OtherLossless ==
  ASSUME Types, Lossless, UNCHANGED <<pool, startIndex, op, refill, removed>>,
         \A k : Keepers(k)' = Keepers(k)
  PROVE  Lossless'
<1>1. \A k : Held(k)' = Held(k)
  BY SamePlaces, SameHolders DEF Held
<1> QED BY <1>1, TableLossless

LEMMA LosslessInit == Init => Lossless
<1> SUFFICES ASSUME Init PROVE Lossless
  OBVIOUS
<1>1. ASSUME NEW k \in 1 .. startIndex * BatchSize PROVE k \in Places(k)
  <2>1. BatchSize \in Nat /\ startIndex * BatchSize = BatchSize
    BY MemoryAssumption DEF Init
  <2>2. pool = [i \in 1 .. BatchSize |-> i]
    BY <2>1 DEF Init, Batch
  <2> QED BY <2>1, <2>2 DEF Places
<1> QED BY <1>1 DEF Init, Lossless, NothingLost, Held, NoRefill

LEMMA LosslessNext == Types /\ Lossless /\ [Next]_vars => Lossless'
<1> SUFFICES ASSUME Types, Lossless, [Next]_vars PROVE Lossless'
  OBVIOUS
<1>1. ASSUME NEW c \in Clients, Pull(c) \/ PullNone(c) \/ RowCreate(c) PROVE Lossless'
  BY <1>1, PullLossless, RowCreateLossless
<1>2. ASSUME NEW c \in Clients, RowSave(c) PROVE Lossless'
  <2>1. 1 \in Codes
    BY StartBounds, MemoryAssumption DEF Codes, Types, StoreOK
  <2> QED BY <1>2, <2>1, RequestLossless
<1>3. ASSUME NEW c \in Clients, NEW k \in Codes, ReadRow(c, k) \/ DeleteByCode(c, k)
      PROVE  Lossless'
  BY <1>3, RequestLossless, DeleteByCodeLossless
<1>4. ASSUME NEW g \in Refills, ReadIndex(g) \/ AddCode(g) \/ SaveIndex(g) PROVE Lossless'
  BY <1>4, ReadIndexLossless, AddCodeLossless, SaveIndexLossless
<1>5. ASSUME NEW j \in Jobs, PassStart(j) \/ PassNext(j) \/ Save(j) PROVE Lossless'
  <2>1. UNCHANGED <<pool, startIndex, rows, op, refill, removed>>
    BY <1>5 DEF PassStart, PassNext, Save, stores
  <2> QED BY <2>1, SameKeepers, OtherLossless
<1>6. ASSUME NEW id, Age(id) PROVE Lossless'
  <2>1. UNCHANGED <<pool, startIndex, op, refill, removed>>
    BY <1>6 DEF Age
  <2> QED BY <1>6, <2>1, AgeKeepers, OtherLossless DEF Types
<1>7. CASE UNCHANGED vars
  <2>1. UNCHANGED <<pool, startIndex, rows, op, refill, removed>>
    BY <1>7 DEF vars, stores
  <2> QED BY <2>1, SameKeepers, OtherLossless
<1> QED BY <1>1, <1>2, <1>3, <1>4, <1>5, <1>6, <1>7, EachLossless, RebuildLossless
        DEF Next, Pass

\* No code of a batch that was added is lost, whatever requests, jobs, refills and
\* rebuilds do, and however many refills run at once (cores/service.go:421,
\* ext/memx/pool.go:102).
THEOREM NothingLostHolds == Spec => []NothingLost
<1>1. Lossless => NothingLost
  BY DEF Lossless
<1> QED BY <1>1, LosslessInit, LosslessNext, TypesCorrect, PTL DEF Spec

-----------------------------------------------------------------------------
(* Codes have one owner, if refills never meet. *)

Wanted(j) == IF j = "expire" THEN "active" ELSE "expired"

\* No row is twice on the rest of a page, and those that are still stored have the
\* status with which they were found.
PagesFit ==
  \A j \in Jobs : \A i \in Pend(j) :
     /\ job[j].page[i].id \in DOMAIN rows => rows[job[j].page[i].id].status = Wanted(j)
     /\ \A h \in Pend(j) : job[j].page[h].id = job[j].page[i].id => h = i

Owned(k) ==
  /\ AtMostOne(Places(k)) /\ AtMostOne(Holders(k)) /\ AtMostOne(Kept(k))
  /\ Places(k) # {} => Holders(k) = {} /\ Kept(k) = {}
  /\ Holders(k) # {} => Kept(k) = {}

Claimed(k) == Places(k) # {} \/ Holders(k) # {} \/ Kept(k) # {}

\* The codes that were added: of the batches below the start index, and of the one
\* that is being added.
Added(k) ==
  \/ k <= startIndex * BatchSize
  \/ \E g \in Refills : refill[g].at = "add" /\ k <= End(startIndex) - Len(refill[g].left)

Ledger ==
  /\ PagesFit
  /\ \A g \in Refills : refill[g].at = "add" => refill[g].batch = startIndex
  /\ \A k \in Codes : Owned(k) /\ (Claimed(k) => Added(k))

\* No create and no row gets a code; a create that leaves one leaves the pool alone.
OwnersGo ==
  \A k \in Codes :
     /\ Kept(k)' \subseteq Kept(k) /\ Holders(k)' \subseteq Holders(k)
     /\ Holders(k)' = Holders(k) \/ UNCHANGED pool

\* Owners of a code go, and none comes.
LEMMA FewerOwners ==
  ASSUME NEW k, Owned(k),
         Places(k)' \subseteq Places(k), Holders(k)' \subseteq Holders(k), Kept(k)' \subseteq Kept(k)
  PROVE  Owned(k)' /\ (Claimed(k)' => Claimed(k))
BY DEF Owned, Claimed, AtMostOne

\* The batches that were added stay what they are.
LEMMA SameAdded ==
  ASSUME UNCHANGED startIndex,
         \A g \in Refills : refill[g].at = "add" \/ refill'[g].at = "add" => refill'[g] = refill[g]
  PROVE  /\ \A k : Added(k)' = Added(k)
         /\ (\A g \in Refills : refill[g].at = "add" => refill[g].batch = startIndex)
            => (\A g \in Refills : refill[g].at = "add" => refill[g].batch = startIndex)'
BY DEF Added, End

LEMMA SamePend == ASSUME UNCHANGED job, NEW j PROVE Pend(j)' = Pend(j)
BY DEF Pend

LEMMA SameReturning == ASSUME UNCHANGED job, NEW k PROVE Returning(k)' = Returning(k)
BY SamePend DEF Returning

\* A request that neither takes a code nor gives one away.
LEMMA QuietRequest ==
  ASSUME Types, Ledger, UNCHANGED <<pool, startIndex, refill, job>>,
         \A k : Holders(k)' \subseteq Holders(k),
         \A id \in DOMAIN rows' : /\ id \in DOMAIN rows /\ rows'[id].code = rows[id].code
                                  /\ rows'[id].status = rows[id].status
  PROVE  Ledger' /\ OwnersGo
<1>1. \A k : Keepers(k)' \subseteq Keepers(k)
  BY DEF Keepers
<1>2. \A k : Kept(k)' \subseteq Kept(k) /\ Places(k)' \subseteq Places(k)
  BY <1>1, SameReturning, SamePlaces DEF Kept
<1>3. \A k \in Codes : Owned(k)' /\ (Claimed(k)' => Added(k)')
  BY <1>2, FewerOwners, SameAdded DEF Ledger
<1>4. PagesFit'
  BY SamePend DEF PagesFit, Ledger
<1> QED BY <1>2, <1>3, <1>4, SameAdded DEF Ledger, OwnersGo

LEMMA PullNoneLedger ==
  ASSUME Types, Ledger, NEW c \in Clients, PullNone(c) PROVE Ledger' /\ OwnersGo
<1>1. /\ UNCHANGED <<pool, startIndex, rows, job>> /\ op[c].at = "idle"
      /\ op' = [op EXCEPT ![c] = [at |-> "row", code |-> NoCode]]
  BY DEF PullNone, stores
<1>2. ASSUME NEW k \in Codes PROVE Holders(k)' \subseteq Holders(k)
  <2>1. k # NoCode
    BY DEF Codes, NoCode
  <2>2. Holders(k)' = (Holders(k) \ {c}) \cup (IF NoCode = k THEN {c} ELSE {})
    BY <1>1, HolderMore DEF Types
  <2> QED BY <2>1, <2>2
<1>3. \A k \in Codes : Owned(k)' /\ (Claimed(k)' => Claimed(k))
  BY <1>1, <1>2, SamePlaces, SameKeepers, SameReturning, FewerOwners DEF Kept, Ledger
<1>4. PagesFit'
  BY <1>1, SamePend DEF PagesFit, Ledger
<1>5. \A g \in Refills :
         refill[g].at = "add" \/ refill'[g].at = "add" => refill'[g] = refill[g]
  BY NoNewAdds DEF PullNone, Types
<1>6. OwnersGo
  BY <1>1, <1>2, SameKeepers, SameReturning DEF OwnersGo, Kept
<1> QED BY <1>1, <1>3, <1>4, <1>5, <1>6, SameAdded DEF Ledger

LEMMA PullLedger ==
  ASSUME Types, Ledger, NEW c \in Clients, Pull(c) PROVE Ledger'
<1>1. /\ UNCHANGED <<startIndex, rows, job>> /\ op[c].at = "idle"
      /\ pool # <<>> /\ pool' = Tail(pool)
      /\ op' = [op EXCEPT ![c] = [at |-> "row", code |-> Head(pool)]]
  BY DEF Pull
<1>2. ASSUME NEW k \in Codes
      PROVE  Owned(k)' /\ (Claimed(k)' => Claimed(k))
  <2>1. Kept(k)' = Kept(k)
    BY <1>1, SameKeepers, SameReturning DEF Kept
  <2>2. Holders(k)' = (Holders(k) \ {c}) \cup (IF Head(pool) = k THEN {c} ELSE {})
    BY <1>1, HolderMore DEF Types
  <2>3. c \notin Holders(k)
    BY <1>1 DEF Holders
  <2>4. /\ \A i \in Places(k)' : i \in Nat \ {0} /\ i + 1 \in Places(k)
        /\ 1 \in Places(k) <=> k = Head(pool)
    BY <1>1, PlacesTail DEF Types
  <2>5. AtMostOne(Places(k))
    BY DEF Ledger, Owned
  <2>6. AtMostOne(Places(k)')
    <3>1. ASSUME NEW x \in Places(k)', NEW y \in Places(k)' PROVE x = y
      <4>1. x \in Nat /\ y \in Nat /\ x + 1 = y + 1
        BY <2>4, <2>5 DEF AtMostOne
      <4> QED BY <4>1
    <3> QED BY <3>1 DEF AtMostOne
  <2>7. CASE k = Head(pool)
    <3>1. Places(k)' = {}
      <4>1. ASSUME NEW i \in Places(k)' PROVE FALSE
        <5>1. i \in Nat \ {0} /\ i + 1 = 1
          BY <2>4, <2>5, <2>7 DEF AtMostOne
        <5> QED BY <5>1
      <4> QED BY <4>1
    <3>2. Places(k) # {}
      BY <2>4, <2>7
    <3>3. Holders(k) = {} /\ Kept(k) = {}
      BY <3>2 DEF Ledger, Owned
    <3>4. Holders(k)' = {c}
      BY <2>2, <2>7, <3>3
    <3> QED BY <2>1, <2>6, <3>1, <3>2, <3>3, <3>4 DEF Owned, Claimed, AtMostOne
  <2>8. CASE k # Head(pool)
    <3>1. Holders(k)' = Holders(k)
      BY <2>2, <2>3, <2>8
    <3>2. Places(k)' # {} => Places(k) # {}
      BY <2>4
    <3>3. Owned(k)
      BY DEF Ledger
    <3> QED BY <2>1, <2>6, <3>1, <3>2, <3>3 DEF Owned, Claimed
  <2> QED BY <2>7, <2>8
<1>3. PagesFit'
  BY <1>1, SamePend DEF PagesFit, Ledger
<1>4. \A g \in Refills :
         refill[g].at = "add" \/ refill'[g].at = "add" => refill'[g] = refill[g]
  BY NoNewAdds DEF Pull, Types
<1> QED BY <1>1, <1>2, <1>3, <1>4, SameAdded DEF Ledger

LEMMA RowCreateLedger ==
  ASSUME Types, Ledger, NEW c \in Clients, RowCreate(c) PROVE Ledger'
<1> DEFINE k0 == op[c].code
<1>1. /\ UNCHANGED <<pool, startIndex, refill, job>> /\ op[c].at = "row"
      /\ rows' = Put(rows, nextId, [code |-> k0, status |-> "active", life |-> "fresh"])
      /\ op' = [op EXCEPT ![c] = NoOp]
  BY DEF RowCreate
<1>2. nextId \notin DOMAIN rows
  BY DEF Types, StoreOK
<1>3. /\ DOMAIN rows' = DOMAIN rows \cup {nextId}
      /\ rows'[nextId] = [code |-> k0, status |-> "active", life |-> "fresh"]
      /\ \A id \in DOMAIN rows : rows'[id] = rows[id]
  BY <1>1, <1>2 DEF Put
<1> HIDE DEF k0
<1>4. ASSUME NEW k \in Codes PROVE Owned(k)' /\ (Claimed(k)' => Claimed(k))
  <2>1. Places(k)' = Places(k) /\ Returning(k)' = Returning(k)
    BY <1>1, SamePlaces, SameReturning
  <2>2. Holders(k)' = Holders(k) \ {c}
    BY <1>1, HolderLess DEF Types, NoOp
  <2>3. Keepers(k)' = Keepers(k) \cup (IF k0 = k THEN {nextId} ELSE {})
    BY <1>2, <1>3 DEF Keepers
  <2>4. Owned(k)
    BY DEF Ledger
  <2>5. CASE k0 = k
    <3>1. c \in Holders(k)
      BY <1>1, <2>5 DEF Holders, k0
    <3>2. Places(k) = {} /\ Kept(k) = {} /\ Holders(k) = {c}
      BY <2>4, <3>1 DEF Owned, AtMostOne
    <3>3. Holders(k)' = {} /\ Kept(k)' = {nextId}
      BY <2>1, <2>2, <2>3, <2>5, <3>2 DEF Kept
    <3> QED BY <2>1, <3>1, <3>2, <3>3 DEF Owned, Claimed, AtMostOne
  <2>6. CASE k0 # k
    BY <2>1, <2>2, <2>3, <2>4, <2>6, FewerOwners DEF Kept
  <2> QED BY <2>5, <2>6
<1>5. PagesFit'
  <2>1. ASSUME NEW j \in Jobs, NEW i \in Pend(j)
        PROVE  job[j].page[i].id # nextId
    BY <2>1 DEF Pend, Types, StoreOK, JobsOK, JobOK, Agrees
  <2>2. UNCHANGED job /\ PagesFit
    BY <1>1 DEF Ledger
  <2>3. \A j \in Jobs : Pend(j)' = Pend(j)
    BY <2>2, SamePend
  <2> QED BY <1>3, <2>1, <2>2, <2>3 DEF PagesFit
<1> QED BY <1>1, <1>4, <1>5, SameAdded DEF Ledger

LEMMA RequestLedger ==
  ASSUME Types, Ledger, NEW c \in Clients, NEW k0 \in Codes,
         ReadRow(c, k0) \/ RowSave(c) \/ DeleteByCode(c, k0)
  PROVE  Ledger' /\ OwnersGo
<1>1. UNCHANGED <<pool, startIndex, refill, job>>
  BY DEF ReadRow, RowSave, DeleteByCode, stores
<1>2. ASSUME NEW k PROVE Holders(k)' \subseteq Holders(k)
  <2>1. CASE DeleteByCode(c, k0)
    BY <2>1, SameHolders DEF DeleteByCode
  <2>2. CASE ReadRow(c, k0) \/ RowSave(c)
    <3>1. PICK x : x.at # "row" /\ op' = [op EXCEPT ![c] = x]
      BY <2>2 DEF ReadRow, RowSave, NoOp
    <3>2. Holders(k)' = Holders(k) \ {c}
      BY <3>1, HolderLess DEF Types
    <3> QED BY <3>2
  <2> QED BY <2>1, <2>2
<1>3. \A id \in DOMAIN rows' : /\ id \in DOMAIN rows /\ rows'[id].code = rows[id].code
                               /\ rows'[id].status = rows[id].status
  <2>1. CASE ReadRow(c, k0)
    BY <2>1 DEF ReadRow, stores
  <2>2. CASE DeleteByCode(c, k0)
    BY <2>2, RestrictFact DEF DeleteByCode
  <2>3. CASE RowSave(c) /\ op[c].id \in DOMAIN rows
    <3>1. rows' = [rows EXCEPT ![op[c].id] = [rows[op[c].id] EXCEPT !.life = "fresh"]]
      BY <2>3 DEF RowSave
    <3> QED BY <2>3, <3>1, LifeChanges DEF Types
  <2>4. CASE RowSave(c) /\ op[c].id \notin DOMAIN rows
    BY <2>4 DEF RowSave
  <2> QED BY <2>1, <2>2, <2>3, <2>4
<1> QED BY <1>1, <1>2, <1>3, QuietRequest

LEMMA AgeLedger == ASSUME Types, Ledger, NEW id, Age(id) PROVE Ledger' /\ OwnersGo
<1>1. UNCHANGED <<pool, startIndex, op, refill, job>> /\ id \in DOMAIN rows
  BY DEF Age
<1>2. PICK l \in {"past", "old"} : rows' = [rows EXCEPT ![id] = [rows[id] EXCEPT !.life = l]]
  BY DEF Age
<1>3. /\ DOMAIN rows' = DOMAIN rows
      /\ \A i \in DOMAIN rows :
           rows'[i].code = rows[i].code /\ rows'[i].status = rows[i].status
  BY <1>1, <1>2, LifeChanges DEF Types
<1> QED BY <1>1, <1>3, SameHolders, QuietRequest

-----------------------------------------------------------------------------
(* The refills of a pool: one at a time. *)

OneRefill == \A g, h \in Refills : g = h

LEMMA ReadIndexLedger ==
  ASSUME Types, Ledger, OneRefill, NEW g \in Refills, ReadIndex(g) PROVE Ledger'
<1>1. UNCHANGED <<pool, startIndex, rows, op, job>> /\ refill[g].at = "read"
  BY DEF ReadIndex, stores
<1>2. \A k : Kept(k)' = Kept(k) /\ Places(k)' = Places(k) /\ Holders(k)' = Holders(k)
  BY <1>1, SamePlaces, SameHolders, SameKeepers, SameReturning DEF Kept
<1>3. \A h \in Refills : refill[h].at # "add"
  BY <1>1 DEF OneRefill
<1>4. \A h \in Refills : refill'[h].at = "add" => refill'[h].batch = startIndex
  BY <1>1, <1>3 DEF ReadIndex, Types, RefillsOK, NoRefill
<1>5. \A k \in Codes : Owned(k)' /\ (Claimed(k)' => Claimed(k))
  BY <1>2, FewerOwners DEF Ledger
<1>6. \A k : Added(k) => Added(k)'
  BY <1>1, <1>3 DEF Added
<1>7. PagesFit'
  BY <1>1, SamePend DEF PagesFit, Ledger
<1> QED BY <1>1, <1>4, <1>5, <1>6, <1>7 DEF Ledger

LEMMA AddCodeLedger ==
  ASSUME Types, Ledger, OneRefill, NEW g \in Refills, AddCode(g) PROVE Ledger'
<1> DEFINE r == refill[g]
<1>0. PICK new : new = Head(r.left)
  OBVIOUS
<1>1. /\ UNCHANGED <<startIndex, rows, op, job>> /\ pool' = Append(pool, new)
      /\ refill' = [refill EXCEPT ![g] = [r EXCEPT !.left = Tail(@)]]
      /\ AddOK(r) /\ r.left # <<>> /\ r.at = "add" /\ r.batch = startIndex
  BY <1>0 DEF AddCode, Types, RefillsOK, RefillOK, NoRefill, Ledger
<1>2. /\ new = End(startIndex) - Len(r.left) + 1
      /\ Len(Tail(r.left)) = Len(r.left) - 1
      /\ [r EXCEPT !.left = Tail(@)] = [at |-> "add", batch |-> r.batch, left |-> Tail(r.left)]
  BY <1>0, <1>1, AddNext
<1>3. /\ End(startIndex) \in Nat /\ End(startIndex) = startIndex * BatchSize + BatchSize
      /\ startIndex * BatchSize \in Nat /\ Len(r.left) \in Nat /\ Len(r.left) <= BatchSize
  BY <1>1, BatchEnds DEF AddOK
<1>4. refill'[g] = [at |-> "add", batch |-> startIndex, left |-> Tail(r.left)]
  BY <1>1, <1>2 DEF Types, RefillsOK
<1>5. \A h \in Refills : refill[h] = r /\ refill'[h] = refill'[g]
  BY Zenon DEF OneRefill
<1>6. ~Added(new)
  <2>1. ~(new <= startIndex * BatchSize) /\ ~(new <= End(startIndex) - Len(r.left))
    BY <1>2, <1>3, MemoryAssumption
  <2> QED BY <1>5, <2>1 DEF Added
<1>7. Added(new)'
  <2>1. new <= End(startIndex) - Len(Tail(r.left)) /\ new \in Int
    BY <1>2, <1>3
  <2>2. refill'[g].at = "add" /\ refill'[g].left = Tail(r.left) /\ UNCHANGED startIndex
    BY <1>1, <1>4
  <2> HIDE DEF r
  <2> QED BY <2>1, <2>2 DEF Added, End
<1>8. ASSUME NEW k \in Codes, Added(k) PROVE Added(k)'
  <2>1. CASE k <= startIndex * BatchSize
    BY <1>1, <2>1 DEF Added
  <2>2. CASE k <= End(startIndex) - Len(r.left)
    <3>1. k \in Int
      BY DEF Codes
    <3>2. k <= End(startIndex) - Len(Tail(r.left))
      BY <1>2, <1>3, <2>2, <3>1
    <3> HIDE DEF r
    <3> QED BY <1>1, <1>4, <3>2 DEF Added, End
  <2> QED BY <1>5, <1>8, <2>1, <2>2 DEF Added
<1>9. ASSUME NEW k \in Codes PROVE Owned(k)' /\ (Claimed(k)' => Added(k)')
  <2>1. Kept(k)' = Kept(k) /\ Holders(k)' = Holders(k)
    BY <1>1, SameHolders, SameKeepers, SameReturning DEF Kept
  <2>2. Places(k)' = Places(k) \cup (IF new = k THEN {Len(pool) + 1} ELSE {})
    BY <1>1, PlacesAppend DEF Types
  <2>3. CASE k = new
    <3>1. ~Claimed(k)
      BY <1>6, <2>3 DEF Ledger
    <3> QED BY <1>7, <2>1, <2>2, <2>3, <3>1 DEF Owned, Claimed, AtMostOne
  <2>4. CASE k # new
    BY <1>8, <2>1, <2>2, <2>4, FewerOwners DEF Ledger
  <2> QED BY <2>3, <2>4
<1>10. PagesFit'
  BY <1>1, SamePend DEF PagesFit, Ledger
<1>11. \A h \in Refills : refill'[h].at = "add" => refill'[h].batch = startIndex
  BY <1>4, <1>5
<1> QED BY <1>1, <1>9, <1>10, <1>11 DEF Ledger

LEMMA SaveIndexLedger ==
  ASSUME Types, Ledger, OneRefill, NEW g \in Refills, SaveIndex(g) PROVE Ledger'
<1>1. /\ UNCHANGED <<pool, rows, op, job>> /\ refill[g].at = "add" /\ refill[g].left = <<>>
      /\ startIndex' = startIndex + 1 /\ refill' = [refill EXCEPT ![g] = NoRefill]
  BY DEF SaveIndex, Ledger
<1>2. \A k : Kept(k)' = Kept(k) /\ Places(k)' = Places(k) /\ Holders(k)' = Holders(k)
  BY <1>1, SamePlaces, SameHolders, SameKeepers, SameReturning DEF Kept
<1>3. \A h \in Refills : refill'[h].at # "add"
  BY <1>1 DEF OneRefill, Types, RefillsOK, NoRefill
<1>4. \A k \in Codes : Owned(k)' /\ (Claimed(k)' => Claimed(k))
  BY <1>2, FewerOwners DEF Ledger
<1>5. ASSUME NEW k \in Codes, Added(k) PROVE Added(k)'
  <2>1. startIndex \in Nat /\ startIndex * BatchSize \in Nat /\ BatchSize \in Nat
        /\ (startIndex + 1) * BatchSize = startIndex * BatchSize + BatchSize
    BY StartBounds, MemoryAssumption DEF Types, StoreOK
  <2>2. \A h \in Refills : Len(refill[h].left) = 0
    BY <1>1 DEF OneRefill
  <2>3. k <= (startIndex + 1) * BatchSize
    BY <1>5, <2>1, <2>2 DEF Added, End, Codes
  <2> QED BY <1>1, <2>3 DEF Added
<1>6. PagesFit'
  BY <1>1, SamePend DEF PagesFit, Ledger
<1> QED BY <1>3, <1>4, <1>5, <1>6 DEF Ledger

-----------------------------------------------------------------------------
(* The jobs. *)

\* A job takes a step that leaves the table alone.
LEMMA JobLedger ==
  ASSUME Types, Ledger, UNCHANGED <<pool, startIndex, rows, op, refill>>, NEW j \in Jobs,
         \A h \in Jobs : h # j => job'[h] = job[h],
         \A i \in Pend(j)' :
            /\ job'[j].page[i].id \in DOMAIN rows => rows[job'[j].page[i].id].status = Wanted(j)
            /\ \A h \in Pend(j)' : job'[j].page[h].id = job'[j].page[i].id => h = i,
         j = "recycle" => \A k \in Codes : Returning(k)' \subseteq Kept(k)
  PROVE  Ledger' /\ OwnersGo
<1>1. ASSUME NEW h \in Jobs, h # j PROVE Pend(h)' = Pend(h) /\ job'[h] = job[h]
  BY <1>1 DEF Pend
<1>2. PagesFit'
  BY <1>1 DEF PagesFit, Ledger, Wanted
<1>3. ASSUME NEW k \in Codes PROVE Kept(k)' \subseteq Kept(k)
  <2>1. CASE j = "recycle"
    BY <2>1, SameKeepers DEF Kept
  <2>2. CASE j # "recycle"
    <3>1. Pend("recycle")' = Pend("recycle") /\ job'["recycle"] = job["recycle"]
      BY <1>1, <2>2 DEF Jobs
    <3>2. Returning(k)' = Returning(k)
      BY <3>1 DEF Returning
    <3> QED BY <3>2, SameKeepers DEF Kept
  <2> QED BY <2>1, <2>2
<1>4. \A k \in Codes : Owned(k)' /\ (Claimed(k)' => Claimed(k))
  BY <1>3, SamePlaces, SameHolders, FewerOwners DEF Ledger
<1> QED BY <1>2, <1>3, <1>4, SameHolders, SameAdded DEF Ledger, OwnersGo

\* A job that is not among the rows of a page has nothing to give back.
LEMMA IdleLedger ==
  ASSUME Types, Ledger, UNCHANGED <<pool, startIndex, rows, op, refill>>, NEW j \in Jobs,
         NEW x, x.at # "each", job' = [job EXCEPT ![j] = x]
  PROVE  Ledger' /\ OwnersGo
<1>1. Pend(j)' = {} /\ \A h \in Jobs : h # j => job'[h] = job[h]
  BY DEF Pend, Types, JobsOK
<1>2. j = "recycle" => \A k : Returning(k)' = {}
  BY <1>1 DEF Returning
<1> QED BY <1>1, <1>2, JobLedger

LEMMA TakeLedger ==
  ASSUME Types, Ledger, UNCHANGED <<pool, startIndex, rows, op, refill>>, NEW j \in Jobs,
         NEW from, Take(j, from)
  PROVE  Ledger' /\ OwnersGo
<1>1. PICK p \in Pages(j, from) :
        job' = [job EXCEPT ![j] =
                  [at |-> "each", from |-> p[Len(p)], page |-> PageOf(p), n |-> 1]]
  BY TakeFacts DEF Types
<1>2. /\ Len(p) \in Nat \ {0} /\ DOMAIN p = 1 .. Len(p)
      /\ \A i \in DOMAIN p : p[i] \in DOMAIN rows /\ p[i] \in Due(j)
      /\ \A i, h \in DOMAIN p : p[i] = p[h] => i = h
  BY PageFacts DEF Types
<1>3. /\ DOMAIN PageOf(p) = DOMAIN p
      /\ \A i \in DOMAIN p : PageOf(p)[i].id = p[i] /\ PageOf(p)[i].code = rows[p[i]].code
  BY DEF PageOf
<1> DEFINE page == PageOf(p)
<1>4. /\ job'[j].page = page /\ Pend(j)' = DOMAIN page
      /\ \A h \in Jobs : h # j => job'[h] = job[h]
  <2> DEFINE last == p[Len(p)]
             x == [at |-> "each", from |-> last, page |-> page, n |-> 1]
  <2>1. job' = [job EXCEPT ![j] = x]
    BY <1>1
  <2> HIDE DEF page, last
  <2>2. job'[j] = x /\ \A h \in Jobs : h # j => job'[h] = job[h]
    BY <2>1 DEF Types, JobsOK
  <2>3. \A i \in DOMAIN page : i >= 1
    BY <1>2, <1>3 DEF page
  <2> QED BY <2>2, <2>3 DEF Pend
<1> HIDE DEF page
<1>5. \A id \in Due(j) : rows[id].status = Wanted(j) /\ (j = "recycle" => rows[id].status = "expired")
  BY DEF Due, Wanted, Jobs
<1>6. ASSUME NEW k \in Codes, j = "recycle" PROVE Returning(k)' \subseteq Kept(k)
  BY <1>2, <1>3, <1>4, <1>5, <1>6 DEF Returning, Kept, Keepers, page
<1>7. ASSUME NEW i \in Pend(j)'
      PROVE  /\ rows[job'[j].page[i].id].status = Wanted(j)
             /\ \A h \in Pend(j)' : job'[j].page[h].id = job'[j].page[i].id => h = i
  BY <1>2, <1>3, <1>4, <1>5 DEF page
<1> QED BY <1>4, <1>6, <1>7, JobLedger

LEMMA FindLedger ==
  ASSUME Types, Ledger, NEW j \in Jobs, PassStart(j) \/ PassNext(j) PROVE Ledger' /\ OwnersGo
<1>1. UNCHANGED <<pool, startIndex, rows, op, refill>>
  BY DEF PassStart, PassNext, stores
<1>2. CASE \E from : Take(j, from)
  BY <1>1, <1>2, TakeLedger
<1>3. CASE job' = [job EXCEPT ![j] = NoJob]
  BY <1>1, <1>3, IdleLedger DEF NoJob
<1> QED BY <1>2, <1>3 DEF PassStart, PassNext

LEMMA SaveLedger == ASSUME Types, Ledger, NEW j \in Jobs, Save(j) PROVE Ledger' /\ OwnersGo
<1>1. /\ UNCHANGED <<pool, startIndex, rows, op, refill>> /\ job[j].at = "save"
      /\ JobOK(job[j])
  BY DEF Save, Types, JobsOK
<1>2. PICK x : x.at # "each" /\ job' = [job EXCEPT ![j] = x]
  <2>1. NoJob.at # "each" /\ [NoJob EXCEPT !.at = "find", !.from = job[j].from].at # "each"
    BY DEF NoJob
  <2>2. job[j].n < Len(job[j].page) => [job[j] EXCEPT !.n = @ + 1].at = "save"
    BY <1>1, JobGoesOn
  <2> QED BY <2>1, <2>2 DEF Save
<1> QED BY <1>1, <1>2, IdleLedger

\* A job leaves the row it has come to behind.
LEMMA EachPend ==
  ASSUME JobsOK, NEW j \in Jobs, Each(j)
  PROVE  /\ job[j].n \in Pend(j) /\ Pend(j)' = Pend(j) \ {job[j].n}
         /\ \A i \in Pend(j)' : job'[j].page[i] = job[j].page[i]
         /\ \A h \in Jobs : h # j => job'[h] = job[h] /\ Pend(h)' = Pend(h)
<1> DEFINE n == job[j].n
           page == job[j].page
           next == [job[j] EXCEPT !.n = @ + 1]
           last == [job[j] EXCEPT !.n = 1, !.at = "save"]
<1>1. JobOK(job[j]) /\ job[j].at = "each"
  BY DEF JobsOK, Each
<1>2. n \in 1 .. Len(page) /\ Len(page) \in Nat /\ DOMAIN page = 1 .. Len(page)
  BY <1>1 DEF JobOK
<1>3. /\ n < Len(page) => next.page = page /\ next.at = "each" /\ next.n = n + 1
      /\ last.at = "save"
  BY <1>1, JobGoesOn
<1>4. job' = [job EXCEPT ![j] = IF n < Len(page) THEN next ELSE last]
  BY DEF Each
<1> HIDE DEF next, last
<1>5. /\ job'[j] = IF n < Len(page) THEN next ELSE last
      /\ \A h \in Jobs : h # j => job'[h] = job[h]
  BY <1>4 DEF JobsOK
<1>6. \A h \in Jobs : h # j => Pend(h)' = Pend(h)
  BY <1>5 DEF Pend
<1>7. Pend(j) = {i \in 1 .. Len(page) : i >= n}
  BY <1>1, <1>2 DEF Pend
<1>8. CASE n < Len(page)
  <2>1. Pend(j)' = {i \in 1 .. Len(page) : i >= n + 1}
    BY <1>2, <1>3, <1>5, <1>8 DEF Pend
  <2>2. {i \in 1 .. Len(page) : i >= n + 1} = {i \in 1 .. Len(page) : i >= n} \ {n}
    BY <1>2
  <2> QED BY <1>2, <1>3, <1>5, <1>6, <1>7, <1>8, <2>1, <2>2
<1>9. CASE ~(n < Len(page))
  <2>1. Pend(j)' = {}
    BY <1>3, <1>5, <1>9 DEF Pend
  <2>2. {i \in 1 .. Len(page) : i >= n} = {n}
    BY <1>2, <1>9
  <2> QED BY <1>2, <1>5, <1>6, <1>7, <2>1, <2>2
<1> QED BY <1>8, <1>9

\* The rest of each page stays as it should be.
LEMMA EachPages ==
  ASSUME Types, Ledger, NEW j \in Jobs, Each(j) PROVE PagesFit'
<1> DEFINE row == job[j].page[job[j].n]
<1>1. /\ job[j].n \in Pend(j) /\ Pend(j)' = Pend(j) \ {job[j].n}
      /\ \A i \in Pend(j)' : job'[j].page[i] = job[j].page[i]
      /\ \A h \in Jobs : h # j => job'[h] = job[h] /\ Pend(h)' = Pend(h)
  BY EachPend DEF Types
<1>2. PICK s : s = IF j = "recycle" THEN "recycled" ELSE "expired"
  OBVIOUS
<1>3. /\ DOMAIN rows' = DOMAIN rows
      /\ \A id \in DOMAIN rows :
           rows'[id].status = IF id = row.id THEN s ELSE rows[id].status
  BY <1>2, EachRows DEF Types
<1>4. row.id \in DOMAIN rows => rows[row.id].status = Wanted(j)
  BY <1>1 DEF Ledger, PagesFit
<1>5. ASSUME NEW h \in Jobs, NEW i \in Pend(h)'
      PROVE  /\ i \in Pend(h) /\ job'[h].page[i] = job[h].page[i]
             /\ job[h].page[i].id \in DOMAIN rows => job[h].page[i].id # row.id
  <2>1. i \in Pend(h) /\ job'[h].page[i] = job[h].page[i]
    BY <1>1
  <2>2. CASE h = j
    BY <1>1, <2>1, <2>2 DEF Ledger, PagesFit
  <2>3. CASE h # j
    <3>1. Wanted(h) # Wanted(j)
      BY <2>3 DEF Jobs, Wanted
    <3>2. job[h].page[i].id \in DOMAIN rows => rows[job[h].page[i].id].status = Wanted(h)
      BY <2>1 DEF Ledger, PagesFit
    <3> QED BY <1>4, <2>1, <3>1, <3>2
  <2> QED BY <2>1, <2>2, <2>3
<1> HIDE DEF row
<1>6. ASSUME NEW h \in Jobs, NEW i \in Pend(h)'
      PROVE  /\ job'[h].page[i].id \in DOMAIN rows' =>
                   rows'[job'[h].page[i].id].status = Wanted(h)
             /\ \A m \in Pend(h)' : job'[h].page[m].id = job'[h].page[i].id => m = i
  <2>1. job'[h].page[i].id \in DOMAIN rows' =>
           rows'[job'[h].page[i].id].status = Wanted(h)
    BY <1>3, <1>5 DEF Ledger, PagesFit
  <2>2. ASSUME NEW m \in Pend(h)', job'[h].page[m].id = job'[h].page[i].id PROVE m = i
    <3>1. i \in Pend(h) /\ m \in Pend(h) /\ job[h].page[m].id = job[h].page[i].id
      BY <1>5, <2>2
    <3> QED BY <3>1 DEF Ledger, PagesFit
  <2> QED BY <2>1, <2>2
<1> QED BY <1>6 DEF PagesFit, Wanted

\* The expirer keeps the code for the row.
LEMMA ExpireLedger ==
  ASSUME Types, Ledger, Each("expire") PROVE Ledger' /\ OwnersGo
<1>0. "expire" \in Jobs /\ "recycle" \in Jobs
  BY DEF Jobs
<1>1. UNCHANGED <<pool, startIndex, op, refill>>
  BY DEF Each
<1>2. /\ job'["recycle"] = job["recycle"] /\ Pend("recycle")' = Pend("recycle")
      /\ job["expire"].n \in Pend("expire")
  BY <1>0, EachPend DEF Types
<1>3. PICK id0 : id0 = job["expire"].page[job["expire"].n].id
  OBVIOUS
<1>4. /\ DOMAIN rows' = DOMAIN rows
      /\ \A id \in DOMAIN rows :
           /\ rows'[id].code = rows[id].code
           /\ rows'[id].status = IF id = id0 THEN "expired" ELSE rows[id].status
  BY <1>0, <1>3, EachRows DEF Types
<1>5. id0 \in DOMAIN rows => rows[id0].status = "active"
  BY <1>0, <1>2, <1>3 DEF Ledger, PagesFit, Wanted
<1>6. \A k : Keepers(k)' = Keepers(k)
  BY <1>4, <1>5 DEF Keepers
<1>7. \A k : Returning(k)' = Returning(k)
  BY <1>2 DEF Returning
<1>8. \A k \in Codes : Owned(k)' /\ (Claimed(k)' => Claimed(k))
  BY <1>1, <1>6, <1>7, SamePlaces, SameHolders, FewerOwners DEF Kept, Ledger
<1>9. OwnersGo
  BY <1>1, <1>6, <1>7, SameHolders DEF Kept, OwnersGo
<1> QED BY <1>0, <1>1, <1>8, <1>9, EachPages, SameAdded DEF Ledger

\* The recycler gives the code of the row to the pool.
LEMMA RecycleLedger ==
  ASSUME Types, Ledger, Each("recycle") PROVE Ledger' /\ OwnersGo
<1>0. "recycle" \in Jobs
  BY DEF Jobs
<1>1. PICK row : row = job["recycle"].page[job["recycle"].n]
  OBVIOUS
<1>2. /\ UNCHANGED <<startIndex, op, refill>>
      /\ pool' = IF row.code # NoCode THEN Append(pool, row.code) ELSE pool
  BY <1>1 DEF Each
<1>3. /\ job["recycle"].n \in Pend("recycle")
      /\ Pend("recycle")' = Pend("recycle") \ {job["recycle"].n}
      /\ \A i \in Pend("recycle")' : job'["recycle"].page[i] = job["recycle"].page[i]
  BY <1>0, EachPend DEF Types
<1>4. /\ DOMAIN rows' = DOMAIN rows
      /\ \A id \in DOMAIN rows :
           /\ rows'[id].code = rows[id].code
           /\ rows'[id].status = IF id = row.id THEN "recycled" ELSE rows[id].status
      /\ row.id \in DOMAIN rows => rows[row.id].code = row.code
      /\ row.code \in RowCodes
  BY <1>0, <1>1, EachRows DEF Types
<1>5. row.id \in Nat
  <2>1. Agrees(row.id, row.code)
    BY <1>0, <1>1, JobRow DEF Each, Types
  <2> QED BY <2>1 DEF Agrees, Types, StoreOK
<1>6. row.id \in Returning(row.code)
  BY <1>1, <1>3, <1>5 DEF Returning
<1>7. ASSUME NEW k PROVE Keepers(k)' \subseteq Keepers(k) /\ row.id \notin Keepers(k)'
  BY <1>4 DEF Keepers
<1>8. ASSUME NEW k PROVE Returning(k)' \subseteq Returning(k) /\ row.id \notin Returning(k)'
  <2>1. Returning(k)' \subseteq Returning(k)
    BY <1>3 DEF Returning
  <2>2. \A i \in Pend("recycle")' : job'["recycle"].page[i].id # row.id
    BY <1>0, <1>1, <1>3 DEF Ledger, PagesFit
  <2> QED BY <2>1, <2>2 DEF Returning
<1>9. ASSUME NEW k \in Codes PROVE Owned(k)' /\ (Claimed(k)' => Claimed(k))
  <2>0. k # NoCode
    BY DEF Codes, NoCode
  <2>1. Holders(k)' = Holders(k)
    BY <1>2, SameHolders
  <2>2. CASE row.code = k
    <3>1. row.id \in Kept(k) /\ Owned(k)
      BY <1>6, <2>2 DEF Kept, Ledger
    <3>2. Places(k) = {} /\ Holders(k) = {} /\ AtMostOne(Kept(k))
      BY <3>1 DEF Owned
    <3>3. Kept(k)' = {}
      <4>1. Kept(k)' \subseteq Kept(k) /\ row.id \notin Kept(k)'
        BY <1>7, <1>8 DEF Kept
      <4> QED BY <3>1, <3>2, <4>1 DEF AtMostOne
    <3>4. Places(k)' = {Len(pool) + 1}
      <4>1. Places(k)' = Places(k) \cup {Len(pool) + 1}
        BY <1>2, <2>0, <2>2, PlacesAppend DEF Types
      <4> QED BY <3>2, <4>1
    <3> QED BY <2>1, <3>1, <3>2, <3>3, <3>4 DEF Owned, Claimed, AtMostOne
  <2>3. CASE row.code # k
    <3>1. Places(k)' = Places(k)
      <4>1. CASE pool' = pool
        BY <4>1, SamePlaces
      <4>2. CASE pool' = Append(pool, row.code)
        BY <2>3, <4>2, PlacesAppend DEF Types
      <4> QED BY <1>2, <4>1, <4>2
    <3>2. Kept(k)' \subseteq Kept(k)
      BY <1>7, <1>8 DEF Kept
    <3> QED BY <2>1, <3>1, <3>2, FewerOwners DEF Ledger
  <2> QED BY <2>2, <2>3
<1>10. OwnersGo
  BY <1>2, <1>7, <1>8, SameHolders DEF Kept, OwnersGo
<1> QED BY <1>0, <1>2, <1>9, <1>10, EachPages, SameAdded DEF Ledger

-----------------------------------------------------------------------------
(* A rebuild, and the theorem. *)

LEMMA RebuildLedger == ASSUME Types, Ledger, Rebuild PROVE Ledger'
<1>1. /\ UNCHANGED <<startIndex, rows, op, refill, job>> /\ Quiet
      /\ pool' \in InOrder(1 .. startIndex * BatchSize \ Used)
  BY DEF Rebuild
<1>2. /\ {pool'[i] : i \in DOMAIN pool'} = 1 .. startIndex * BatchSize \ Used
      /\ \A i, j \in DOMAIN pool' : pool'[i] = pool'[j] => i = j
  BY <1>1, InOrderFacts DEF Types
<1>3. \A k : Holders(k)' = {} /\ Holders(k) = {}
  BY <1>1, SameHolders DEF Quiet, Holders
<1>4. \A k : Kept(k)' = Kept(k) /\ Kept(k) = Keepers(k)
  <2>1. Pend("recycle") = {}
    BY <1>1 DEF Quiet, Pend, Jobs
  <2>2. \A k : Returning(k) = {}
    BY <2>1 DEF Returning
  <2> QED BY <1>1, <2>2, SameKeepers, SameReturning DEF Kept
<1>5. ASSUME NEW k \in Codes PROVE Owned(k)' /\ (Claimed(k)' => Added(k)')
  <2>1. AtMostOne(Places(k)') /\ (Places(k)' # {} => k \in 1 .. startIndex * BatchSize \ Used)
    BY <1>2 DEF Places, AtMostOne
  <2>2. k \notin Used => Keepers(k) = {}
    BY DEF Used, Keepers
  <2>3. Places(k)' # {} => k <= startIndex * BatchSize
    BY <2>1, StartBounds DEF Types
  <2>4. Owned(k) /\ (Claimed(k) => Added(k))
    BY DEF Ledger
  <2>5. Added(k)' = Added(k)
    BY <1>1, SameAdded
  <2>6. Kept(k)' # {} => Added(k)
    BY <1>4, <2>4 DEF Claimed
  <2>7. Owned(k)'
    BY <1>3, <1>4, <2>1, <2>2, <2>4 DEF Owned, AtMostOne
  <2>8. Places(k)' # {} => Added(k)
    BY <2>3 DEF Added
  <2> QED BY <1>3, <2>5, <2>6, <2>7, <2>8 DEF Claimed
<1>6. PagesFit'
  BY <1>1, SamePend DEF PagesFit, Ledger
<1> QED BY <1>1, <1>5, <1>6, SameAdded DEF Ledger

LEMMA LedgerInit == Init => Ledger
<1> SUFFICES ASSUME Init PROVE Ledger
  OBVIOUS
<1>1. BatchSize \in Nat /\ startIndex * BatchSize = BatchSize
  BY MemoryAssumption DEF Init
<1>2. pool = [i \in 1 .. BatchSize |-> i]
  BY <1>1 DEF Init, Batch
<1>3. \A j \in Jobs : Pend(j) = {}
  BY DEF Init, Pend, NoJob
<1>4. ASSUME NEW k \in Codes
      PROVE  Places(k) \subseteq {k} /\ Holders(k) = {} /\ Kept(k) = {}
             /\ (Places(k) # {} => k <= BatchSize)
  <2>1. Keepers(k) = {} /\ Holders(k) = {}
    BY DEF Init, Keepers, Holders, NoOp
  <2>2. Returning(k) = {}
    BY <1>3 DEF Returning, Jobs
  <2>3. Places(k) \subseteq {k} /\ (Places(k) # {} => k <= BatchSize)
    BY <1>1, <1>2 DEF Places
  <2> QED BY <2>1, <2>2, <2>3 DEF Kept
<1>5. \A k \in Codes : Owned(k) /\ (Claimed(k) => Added(k))
  BY <1>1, <1>4 DEF Owned, AtMostOne, Claimed, Added
<1> QED BY <1>3, <1>5 DEF Ledger, PagesFit, Init, NoRefill

LEMMA LedgerNext == OneRefill /\ Types /\ Ledger /\ [Next]_vars => Ledger'
<1> SUFFICES ASSUME OneRefill, Types, Ledger, [Next]_vars PROVE Ledger'
  OBVIOUS
<1>1. ASSUME NEW c \in Clients, Pull(c) \/ PullNone(c) \/ RowCreate(c) PROVE Ledger'
  BY <1>1, PullLedger, PullNoneLedger, RowCreateLedger
<1>2. ASSUME NEW c \in Clients, RowSave(c) PROVE Ledger'
  <2>1. 1 \in Codes
    BY StartBounds, MemoryAssumption DEF Codes, Types, StoreOK
  <2> QED BY <1>2, <2>1, RequestLedger
<1>3. ASSUME NEW c \in Clients, NEW k \in Codes, ReadRow(c, k) \/ DeleteByCode(c, k)
      PROVE  Ledger'
  BY <1>3, RequestLedger
<1>4. ASSUME NEW g \in Refills, ReadIndex(g) \/ AddCode(g) \/ SaveIndex(g) PROVE Ledger'
  BY <1>4, ReadIndexLedger, AddCodeLedger, SaveIndexLedger
<1>5. ASSUME NEW j \in Jobs, Pass(j) PROVE Ledger'
  <2>1. j = "expire" \/ j = "recycle"
    BY DEF Jobs
  <2> QED BY <1>5, <2>1, FindLedger, SaveLedger, ExpireLedger, RecycleLedger DEF Pass
<1>6. CASE UNCHANGED vars
  <2>1. UNCHANGED <<pool, startIndex, rows, op, refill, job>>
    BY <1>6 DEF vars, stores
  <2> QED BY <2>1, SameHolders, QuietRequest
<1> QED BY <1>1, <1>2, <1>3, <1>4, <1>5, <1>6, AgeLedger, RebuildLedger DEF Next

\* As long as refills never meet, no code is twice in the queue, held by two creates
\* or kept by two rows, nor in two of these, whatever jobs, requests and rebuilds do:
\* for any pages, clients, rows and batches (ext/memx/pool.go:102).
THEOREM CodesUniqueHolds ==
  ASSUME \A g, h \in Refills : g = h
  PROVE  Spec => []CodesUnique
<1>1. Ledger => CodesUnique
  BY DEF Ledger, Owned, OwnedOnce, CodesUnique, Kept, AtMostOne
<1>2. Init => Ledger
  BY LedgerInit
<1>3. Types /\ Ledger /\ [Next]_vars => Ledger'
  BY LedgerNext DEF OneRefill
<1> QED BY <1>1, <1>2, <1>3, TypesCorrect, PTL DEF Spec

-----------------------------------------------------------------------------
(* The codes change hands as CodeOwnership says. *)

\* A code's moves when its owners go or stay.
LEMMA OwnersMove ==
  ASSUME NEW k \in Codes, Owned(k), Owned(k)', OwnersGo
  PROVE  Ownership!Move(k)
<1>1. /\ k \in Members(pool) <=> Places(k) # {}
      /\ k \in Members(pool') <=> Places(k)' # {}
  BY DEF Members, Places
<1>2. /\ Kept(k)' \subseteq Kept(k) /\ Holders(k)' \subseteq Holders(k)
      /\ Holders(k)' = Holders(k) \/ Places(k)' = Places(k)
  BY SamePlaces DEF OwnersGo
<1>3. CASE Holders(k) = {} /\ Kept(k) = {}
  BY <1>2, <1>3 DEF Ownership!Move, Ownership!Offer, Ownership!Owned
<1>4. CASE Holders(k) # {}
  <2>1. Places(k) = {} /\ Places(k)' = {} /\ Kept(k) = {} /\ Kept(k)' = {}
    BY <1>2, <1>4 DEF Owned
  <2>2. Holders(k)' = Holders(k) \/ Holders(k)' = {}
    BY <1>2 DEF Owned, AtMostOne
  <2> QED BY <1>1, <1>4, <2>1, <2>2
          DEF Ownership!Move, Ownership!Stay, Ownership!Drop, Ownership!Owned
<1>5. CASE Kept(k) # {}
  <2>1. Places(k) = {} /\ Holders(k) = {} /\ Holders(k)' = {}
    BY <1>2, <1>5 DEF Owned
  <2>2. PICK id : Kept(k) = {id}
    BY <1>5 DEF Owned, AtMostOne
  <2>3. CASE Kept(k)' = Kept(k)
    <3>1. Places(k)' = {}
      BY <1>5, <2>3 DEF Owned
    <3> QED BY <1>1, <2>1, <2>3, <3>1 DEF Ownership!Move, Ownership!Stay
  <2>4. CASE Kept(k)' = {}
    BY <1>1, <1>5, <2>1, <2>2, <2>4
       DEF Ownership!Move, Ownership!Drop, Ownership!GiveBack, Ownership!Owned,
           Ownership!IsOne
  <2> QED BY <1>2, <2>2, <2>3, <2>4
<1> QED BY <1>3, <1>4, <1>5

LEMMA PullMoves ==
  ASSUME Types, Ledger, Ledger', NEW c \in Clients, Pull(c), NEW k \in Codes
  PROVE  Ownership!Move(k)
<1>1. /\ UNCHANGED <<rows, job>> /\ op[c].at = "idle" /\ pool # <<>> /\ pool' = Tail(pool)
      /\ op' = [op EXCEPT ![c] = [at |-> "row", code |-> Head(pool)]]
  BY DEF Pull
<1>2. Kept(k)' = Kept(k)
  BY <1>1, SameKeepers, SameReturning DEF Kept
<1>3. Holders(k)' = (Holders(k) \ {c}) \cup (IF Head(pool) = k THEN {c} ELSE {})
      /\ c \notin Holders(k)
  <2>1. c \notin Holders(k)
    BY <1>1 DEF Holders
  <2>2. Holders(k)' = (Holders(k) \ {c}) \cup (IF Head(pool) = k THEN {c} ELSE {})
    BY <1>1, HolderMore DEF Types
  <2> QED BY <2>1, <2>2
<1>4. /\ k \in Members(pool) <=> Places(k) # {}
      /\ k \in Members(pool') <=> Places(k)' # {}
  BY DEF Members, Places
<1>5. Owned(k) /\ Owned(k)'
  BY DEF Ledger
<1>6. CASE Head(pool) = k
  <2>1. Places(k) # {} /\ Holders(k)' = {c}
    BY <1>1, <1>3, <1>5, <1>6, PlacesTail DEF Types, Owned
  <2>2. Holders(k) = {} /\ Kept(k) = {} /\ Places(k)' = {}
    BY <1>5, <2>1 DEF Owned
  <2> QED BY <1>2, <1>4, <2>1, <2>2
          DEF Ownership!Move, Ownership!Take, Ownership!Owned, Ownership!IsOne
<1>7. CASE Head(pool) # k
  <2>1. Holders(k)' = Holders(k)
    BY <1>3, <1>7
  <2>2. /\ \A i \in Places(k) : i # 1 => i - 1 \in Places(k)'
        /\ \A i \in Places(k)' : i + 1 \in Places(k)
        /\ 1 \notin Places(k)
    BY <1>1, <1>7, PlacesTail DEF Types
  <2>3. Places(k)' # {} <=> Places(k) # {}
    BY <2>2
  <2> QED BY <1>2, <1>4, <2>1, <2>3 DEF Ownership!Move, Ownership!Stay
<1> QED BY <1>6, <1>7

LEMMA RowCreateMoves ==
  ASSUME Types, Ledger, Ledger', NEW c \in Clients, RowCreate(c), NEW k \in Codes
  PROVE  Ownership!Move(k)
<1> DEFINE k0 == op[c].code
<1>1. /\ UNCHANGED <<pool, job>> /\ op[c].at = "row" /\ op' = [op EXCEPT ![c] = NoOp]
      /\ rows' = Put(rows, nextId, [code |-> k0, status |-> "active", life |-> "fresh"])
  BY DEF RowCreate
<1>2. nextId \notin DOMAIN rows
  BY DEF Types, StoreOK
<1>3. Keepers(k)' = Keepers(k) \cup (IF k0 = k THEN {nextId} ELSE {})
  BY <1>1, <1>2 DEF Put, Keepers
<1>4. Kept(k)' = Kept(k) \cup (IF k0 = k THEN {nextId} ELSE {})
  BY <1>1, <1>3, SameReturning DEF Kept
<1>5. Holders(k)' = Holders(k) \ {c}
  BY <1>1, HolderLess DEF Types, NoOp
<1>6. c \in Holders(k) <=> k0 = k
  BY <1>1 DEF Holders
<1> HIDE DEF k0
<1>7. Places(k)' = Places(k) /\ (k \in Members(pool) <=> Places(k) # {})
      /\ (k \in Members(pool') <=> Places(k)' # {})
  BY <1>1, SamePlaces DEF Members, Places
<1>8. CASE k0 = k
  <2>1. Holders(k) = {c} /\ Kept(k) = {} /\ Places(k) = {}
    BY <1>6, <1>8 DEF Ledger, Owned, AtMostOne
  <2>2. Holders(k)' = {} /\ Kept(k)' = {nextId}
    BY <1>4, <1>5, <1>8, <2>1
  <2> QED BY <1>7, <2>1, <2>2 DEF Ownership!Move, Ownership!Store, Ownership!IsOne
<1>9. CASE k0 # k
  BY <1>4, <1>5, <1>6, <1>7, <1>9 DEF Ownership!Move, Ownership!Stay
<1> QED BY <1>8, <1>9

LEMMA OwnershipInit == Init => Ownership!Init
<1> SUFFICES ASSUME Init PROVE Ownership!Init
  OBVIOUS
<1>1. Members(pool) \subseteq Codes
  <2>1. Types
    BY TypesInit
  <2> QED BY <2>1 DEF Types, StoreOK, Members
<1>2. ASSUME NEW k \in Codes PROVE Holders(k) = {} /\ Kept(k) = {}
  BY DEF Init, Holders, Kept, Keepers, Returning, Pend, NoOp, NoJob, Jobs
<1> QED BY <1>1, <1>2 DEF Ownership!Init

LEMMA OwnershipNext ==
  OneRefill /\ Types /\ Ledger /\ Ledger' /\ [Next]_vars => Ownership!Next
<1> SUFFICES ASSUME OneRefill, Types, Ledger, Ledger', [Next]_vars, NEW k \in Codes
             PROVE  Ownership!Move(k)
  BY DEF Ownership!Next
<1>1. ASSUME OwnersGo PROVE Ownership!Move(k)
  BY <1>1, OwnersMove DEF Ledger
<1>2. ASSUME UNCHANGED <<rows, op, job>> PROVE Ownership!Move(k)
  <2>1. OwnersGo
    BY <1>2, SameHolders, SameKeepers, SameReturning DEF OwnersGo, Kept
  <2> QED BY <1>1, <2>1
<1>3. ASSUME NEW c \in Clients, Pull(c) \/ PullNone(c) \/ RowCreate(c)
      PROVE  Ownership!Move(k)
  BY <1>1, <1>3, PullMoves, PullNoneLedger, RowCreateMoves
<1>4. ASSUME NEW c \in Clients, RowSave(c) PROVE Ownership!Move(k)
  BY <1>1, <1>4, RequestLedger
<1>5. ASSUME NEW c \in Clients, NEW k0 \in Codes, ReadRow(c, k0) \/ DeleteByCode(c, k0)
      PROVE  Ownership!Move(k)
  BY <1>1, <1>5, RequestLedger
<1>6. ASSUME NEW g \in Refills, ReadIndex(g) \/ AddCode(g) \/ SaveIndex(g)
      PROVE  Ownership!Move(k)
  BY <1>2, <1>6 DEF ReadIndex, AddCode, SaveIndex, stores
<1>7. ASSUME NEW j \in Jobs, Pass(j) PROVE Ownership!Move(k)
  <2>1. j = "expire" \/ j = "recycle"
    BY DEF Jobs
  <2> QED BY <1>1, <1>7, <2>1, FindLedger, SaveLedger, ExpireLedger, RecycleLedger
          DEF Pass
<1>8. ASSUME NEW id, Age(id) PROVE Ownership!Move(k)
  BY <1>1, <1>8, AgeLedger
<1>9. CASE Rebuild \/ UNCHANGED vars
  BY <1>2, <1>9 DEF Rebuild, vars, stores
<1> QED BY <1>3, <1>4, <1>5, <1>6, <1>7, <1>8, <1>9 DEF Next

\* As long as refills never meet, the queue, the running creates and the rows in memory
\* pass every code on as CodeOwnership says: a row that is recycled, also one that
\* was removed while its page waited, gives its code back once, when nobody has it.
THEOREM MemoryImplementsOwnership ==
  ASSUME \A g, h \in Refills : g = h
  PROVE  Spec => ImplementsOwnership
<1>1. Types /\ Ledger /\ [Next]_vars => Ledger'
  BY LedgerNext DEF OneRefill
<1>2. Types /\ Ledger /\ Ledger' /\ [Next]_vars => Ownership!Next
  BY OwnershipNext DEF OneRefill
<1> QED BY <1>1, <1>2, LedgerInit, OwnershipInit, TypesCorrect, PTL
      DEF Spec, ImplementsOwnership, Ownership!Spec

=============================================================================
