------------------------- MODULE MemoryStoreProofs -------------------------
(***************************************************************************)
(* Proofs about MemoryStore, for any number of servers, requests, owners,  *)
(* ids and days:                                                           *)
(*   - its type invariant;                                                 *)
(*   - RowsBacked, AnswersTruthful: the two records of a memory agree, and *)
(*     answers say what is stored;                                         *)
(*   - EntriesUnique, when there is one server;                            *)
(*   - NoSelfConflict: a conflict is with somebody else;                   *)
(*   - SearchFaithful, and SearchNeverFails when there is one server and   *)
(*     no fault;                                                           *)
(*   - that it implements MemoryLedger.                                    *)
(***************************************************************************)
EXTENDS MemoryStore, TLAPS

\* The environment's choices leave what a request writes in its type.
LEMMA PutEntryType ==
  ASSUME TypeOK, NEW r \in Requests, Valid(item[r]), stamp[r] \in Days,
         PutEntry(r)
  PROVE  entries' \subseteq Entry /\ file' \in [Owners -> [Days -> FileStates]]
<1>1. item[r].owner \in Owners /\ item[r].id \in Ids /\ item[r].text \in Texts
  BY DEF TypeOK, Item, Valid
<1>2. entries' \subseteq Entry
  BY <1>1 DEF TypeOK, PutEntry, Entry
<1>3. file' \in [Owners -> [Days -> FileStates]]
  BY <1>1 DEF TypeOK, PutEntry, FileStates
<1> QED BY <1>2, <1>3

\* A request past its validation has well-formed ids and a date.
Started == {"wait", "find", "verify", "scan", "write", "create", "fill",
            "append", "insert"}
Dated ==
  \A r \in Requests :
    pc[r] \in Started => Valid(item[r]) /\ stamp[r] \in Days

TInv == TypeOK /\ Dated

\* A server starts on an empty directory and the rows an older one left.
LEMMA TInvInit == Init => TInv
BY ServerAssumption, TaskAssumption, ItemAssumption, BoundAssumption,
   LegacyAssumption
   DEF Init, TInv, TypeOK, Dated, Started, Days, Steps, Outcomes, FileStates,
       Tasks

\* A write that is cut short, by an error or a crash, tears at most one file
\* and leaves only complete entries.
LEMMA PartialWriteType ==
  ASSUME TInv, NEW r \in Requests, PartialWrite(r), pc[r] \in Started
  PROVE  entries' \subseteq Entry /\ file' \in [Owners -> [Days -> FileStates]]
<1>1. Valid(item[r]) /\ stamp[r] \in Days
  BY DEF TInv, Dated
<1>2. CASE UNCHANGED <<entries, file>>
  BY <1>2 DEF TInv, TypeOK
<1>3. CASE PutEntry(r)
  BY <1>1, <1>3, PutEntryType DEF TInv
<1>4. CASE /\ file' = [file EXCEPT ![item[r].owner][stamp[r]] = "bad"]
           /\ UNCHANGED entries
  <2>1. item[r].owner \in Owners
    BY <1>1 DEF TInv, TypeOK, Item, Valid
  <2> QED BY <1>1, <1>4, <2>1 DEF TInv, TypeOK, FileStates
<1> QED BY <1>2, <1>3, <1>4 DEF PartialWrite

\* Every step keeps the types, and a request past its validation keeps its
\* well-formed ids and its date.
LEMMA TInvStep == TInv /\ [Next]_vars => TInv'
<1> SUFFICES ASSUME TInv, [Next]_vars PROVE TInv'
  OBVIOUS
<1> USE ServerAssumption, TaskAssumption
<1> USE DEF TInv, Tasks
<1>1. ASSUME NEW r \in Requests, Arrive(r) PROVE TInv'
  <2>1. TypeOK'
    <3>1. stamp' \in [Requests -> Days \cup {NoDay}]
      BY <1>1 DEF Arrive, TypeOK
    <3>2. outcome' \in [Requests -> Outcomes] /\ pc' \in [Requests -> Steps]
      BY <1>1 DEF Arrive, Goto, TypeOK, Outcomes, Steps
    <3> QED BY <1>1, <3>1, <3>2 DEF Arrive, TypeOK, disk, searches
  <2>2. day \in Days /\ pc \in [Requests -> Steps]
        /\ stamp \in [Requests -> Days \cup {NoDay}]
    BY DEF TypeOK
  <2>3. UNCHANGED item
    BY <1>1 DEF Arrive
  <2>4. Dated'
    BY <1>1, <2>2, <2>3 DEF Arrive, Dated, Started, Goto, Valid
  <2> QED BY <2>1, <2>4
<1>2. ASSUME NEW r \in Requests, Acquire(r) PROVE TInv'
  BY <1>2 DEF Acquire, TypeOK, Dated, Started, Goto, Steps, disk, searches
<1>3. ASSUME NEW r \in Requests, FindRow(r) PROVE TInv'
  BY <1>3 DEF FindRow, Answer, TypeOK, Dated, Started, Goto, Steps, Outcomes,
              disk, searches
<1>4. ASSUME NEW r \in Requests, Verify(r) PROVE TInv'
  BY <1>4 DEF Verify, Answer, TypeOK, Dated, Started, Goto, Steps, Outcomes,
              disk, searches
<1>5. ASSUME NEW r \in Requests, ScanEntries(r) PROVE TInv'
  <2>1. \A e \in Orphans(r) : AdoptedDate(r, e) \in Days
    BY DEF Orphans, ScannedDays, EntriesOf, AdoptedDate
  <2>2. \/ stamp' = stamp
        \/ \E d \in Days : stamp' = [stamp EXCEPT ![r] = d]
    BY <1>5, <2>1 DEF ScanEntries
  <2> QED
    <3>1. TypeOK'
      <4>1. pc' \in [Requests -> Steps]
        BY <1>5 DEF ScanEntries, Answer, Goto, TypeOK, Steps
      <4>2. outcome' \in [Requests -> Outcomes]
        BY <1>5 DEF ScanEntries, Answer, TypeOK, Outcomes
      <4>3. synced' \in [Requests -> BOOLEAN]
        BY <1>5 DEF ScanEntries, Answer, TypeOK
      <4>4. mutex' \in [Servers -> Tasks \cup {Free}]
        BY <1>5 DEF ScanEntries, Answer, TypeOK
      <4>5. stamp' \in [Requests -> Days \cup {NoDay}]
        BY <2>2 DEF TypeOK
      <4> QED
        BY <1>5, <4>1, <4>2, <4>3, <4>4, <4>5 DEF ScanEntries, TypeOK, disk,
                                                   searches
    <3>2. /\ stamp'[r] = stamp[r] \/ stamp'[r] \in Days
          /\ \A x \in Requests \ {r} : stamp'[x] = stamp[x]
      BY <2>2 DEF TypeOK
    <3>3. pc[r] \in Started /\ UNCHANGED item
          /\ \A x \in Requests \ {r} : pc'[x] = pc[x]
      BY <1>5 DEF ScanEntries, Answer, Goto, Started, TypeOK
    <3>4. Dated'
      BY <3>2, <3>3 DEF Dated, Valid
    <3> QED BY <3>1, <3>4
<1>6. ASSUME NEW r \in Requests, WriteMarkdown(r) PROVE TInv'
  BY <1>6 DEF WriteMarkdown, Answer, TypeOK, Dated, Started, Goto, Steps,
              Outcomes, disk, searches
<1>7. ASSUME NEW r \in Requests, CreateFile(r) PROVE TInv'
  <2>1. pc[r] \in Started /\ item[r].owner \in Owners /\ stamp[r] \in Days
    BY <1>7 DEF CreateFile, Started, Dated, TypeOK, Item, Valid
  <2>2. file' \in [Owners -> [Days -> FileStates]]
    <3>1. \/ file' = file
          \/ file' = [file EXCEPT ![item[r].owner][stamp[r]] = "empty"]
      BY <1>7 DEF CreateFile
    <3>2. CASE file' = [file EXCEPT ![item[r].owner][stamp[r]] = "empty"]
      BY <2>1, <3>2 DEF TypeOK, FileStates
    <3> QED BY <3>1, <3>2 DEF TypeOK
  <2>3. TypeOK'
    BY <1>7, <2>2 DEF CreateFile, Answer, TypeOK, Goto, Steps, Outcomes, searches
  <2>4. Dated'
    BY <1>7, <2>1 DEF CreateFile, Answer, TypeOK, Dated, Started, Goto, Valid
  <2> QED BY <2>3, <2>4
<1>8. ASSUME NEW r \in Requests, WriteEntry(r) PROVE TInv'
  <2>1. pc[r] \in Started
    BY <1>8 DEF WriteEntry, Started
  <2>2. PutEntry(r) \/ PartialWrite(r)
    BY <1>8 DEF WriteEntry
  <2>3. entries' \subseteq Entry /\ file' \in [Owners -> [Days -> FileStates]]
    BY <2>1, <2>2, PutEntryType, PartialWriteType DEF Dated
  <2> QED
    BY <1>8, <2>1, <2>3 DEF WriteEntry, WriteError, Answer, TypeOK, Dated,
                            Started, Goto, Steps, Outcomes, searches
<1>9. ASSUME NEW r \in Requests, InsertRow(r) PROVE TInv'
  <2>1. Valid(item[r]) /\ stamp[r] \in Days
    BY <1>9 DEF InsertRow, Started, Dated
  <2>2. db' \subseteq Row
    <3>1. /\ item[r].owner \in Owners /\ item[r].id \in Ids
          /\ item[r].text \in Texts /\ item[r].vec \in Vectors
      BY <2>1 DEF TypeOK, Item, Valid
    <3> DEFINE row == [owner |-> item[r].owner, id |-> item[r].id,
                       text |-> item[r].text, day |-> stamp[r],
                       version |-> 1, vec |-> item[r].vec]
    <3>2. db' = db \/ (item[r].vec # "invalid" /\ db' = db \cup {row})
      BY <1>9 DEF InsertRow
    <3>3. ASSUME item[r].vec # "invalid" PROVE row \in Row
      BY <2>1, <3>1, <3>3 DEF Row
    <3> QED BY <3>2, <3>3 DEF TypeOK
  <2> QED
    BY <1>9, <2>2 DEF InsertRow, Answer, TypeOK, Dated, Started, Steps,
                      Outcomes, searches
<1>10. ASSUME NEW r \in Requests, Reply(r) PROVE TInv'
  BY <1>10 DEF Reply, TypeOK, Dated, Started, Goto, Steps, disk, searches
<1>11. ASSUME NEW q \in Searches, SearchRows(q) PROVE TInv'
  <2>1. Searchable(asker[q]) \subseteq Row
    BY DEF Searchable, RowsOfEveryone, TypeOK
  <2>2. hits' \in [Searches -> SUBSET Row]
    <3>1. \/ hits' = hits
          \/ \E near \in SUBSET Searchable(asker[q]) :
               hits' = [hits EXCEPT ![q] = near]
      BY <1>11 DEF SearchRows, kSubset
    <3> QED BY <2>1, <3>1 DEF TypeOK
  <2> QED
    BY <1>11, <2>2 DEF SearchRows, TypeOK, Dated, disk, saves
<1>12. ASSUME NEW q \in Searches, ReadContent(q) PROVE TInv'
  <2>1. \A e \in entries : [id |-> e.id, text |-> e.text] \in
                             [id : Ids, text : Texts]
    BY DEF TypeOK, Entry
  <2>2. \A E \in SUBSET entries :
          {[id |-> e.id, text |-> e.text] : e \in E} \subseteq
            [id : Ids, text : Texts]
    BY <2>1
  <2>3. found' \in [Searches -> SUBSET [id : Ids, text : Texts]]
    <3>1. \/ found' = found
          \/ \E E \in SUBSET entries :
               found' = [found EXCEPT ![q] =
                          {[id |-> e.id, text |-> e.text] : e \in E}]
      BY <1>12 DEF ReadContent
    <3>2. found' = found \/ \E F \in SUBSET [id : Ids, text : Texts] :
                              found' = [found EXCEPT ![q] = F]
      BY <2>2, <3>1
    <3> QED BY <3>2 DEF TypeOK
  <2> QED
    BY <1>12, <2>3 DEF ReadContent, TypeOK, Dated, disk, saves
<1>13. CASE Tick
  BY <1>13, BoundAssumption DEF Tick, TypeOK, Dated, Days, disk, saves, searches
<1>14. ASSUME NEW s \in Servers, Crash(s) PROVE TInv'
  <2>1. entries' \subseteq Entry /\ file' \in [Owners -> [Days -> FileStates]]
    <3>1. CASE UNCHANGED <<entries, file>>
      BY <3>1 DEF TypeOK
    <3>2. ASSUME NEW r \in InFlight(s), PartialWrite(r)
          PROVE  entries' \subseteq Entry
                 /\ file' \in [Owners -> [Days -> FileStates]]
      <4>1. CASE UNCHANGED <<entries, file>>
        BY <4>1 DEF TypeOK
      <4>2. CASE pc[r] \in {"fill", "append"}
        BY <3>2, <4>2, PartialWriteType DEF InFlight, Started
      <4> QED BY <3>2, <4>1, <4>2 DEF PartialWrite
    <3> QED BY <1>14, <3>1, <3>2 DEF Crash
  <2> QED
    BY <1>14, <2>1 DEF Crash, InFlight, TypeOK, Dated, Started, Steps, Outcomes
<1>15. CASE UNCHANGED vars
  BY <1>15 DEF vars, disk, saves, searches, TypeOK, Dated
<1> QED
  BY <1>1, <1>2, <1>3, <1>4, <1>5, <1>6, <1>7, <1>8, <1>9, <1>10, <1>11, <1>12,
     <1>13, <1>14, <1>15 DEF Next, Step, Search

\* The variables keep their types.
THEOREM TypeCorrect == Spec => []TypeOK
<1>1. TInv => TypeOK
  BY DEF TInv
<1> QED BY TInvInit, TInvStep, <1>1, PTL DEF Spec

---------------------------------------------------------------------------
(* The two records agree.  A request that is about to insert its row has its  *)
(* entry in the file of the day the row will name: it wrote the entry or took *)
(* its date from the orphan, and entries are never removed.                   *)

InsertBacked ==
  \A r \in Requests : pc[r] = "insert" =>
    \E e \in EntriesOf(item[r].owner, stamp[r]) : SameContent(e, item[r])

BInv == RowsBacked /\ InsertBacked /\ AnswersTruthful

\* Rows and entries are only ever added: nothing in the code deletes them.
LEMMA Grow ==
  ASSUME [Next]_vars
  PROVE  db \subseteq db' /\ entries \subseteq entries' /\ item' = item
<1>1. ASSUME NEW r \in Requests, PutEntry(r) PROVE entries \subseteq entries'
  BY <1>1 DEF PutEntry
<1>2. ASSUME NEW r \in Requests, PartialWrite(r) PROVE entries \subseteq entries'
  BY <1>1, <1>2 DEF PartialWrite
<1>3. ASSUME NEW r \in Requests, Step(r)
      PROVE  db \subseteq db' /\ entries \subseteq entries' /\ item' = item
  <2>1. CASE WriteEntry(r)
    BY <1>1, <1>2, <2>1 DEF WriteEntry
  <2>2. CASE InsertRow(r)
    BY <2>2 DEF InsertRow
  <2>3. CASE CreateFile(r)
    BY <2>3 DEF CreateFile
  <2> QED
    BY <1>3, <2>1, <2>2, <2>3 DEF Step, Arrive, Acquire, FindRow, Verify,
       ScanEntries, WriteMarkdown, Reply, disk
<1>4. ASSUME NEW q \in Searches, Search(q)
      PROVE  db \subseteq db' /\ entries \subseteq entries' /\ item' = item
  BY <1>4 DEF Search, SearchRows, ReadContent, disk, saves
<1>5. ASSUME NEW s \in Servers, Crash(s)
      PROVE  db \subseteq db' /\ entries \subseteq entries' /\ item' = item
  BY <1>2, <1>5 DEF Crash, InFlight
<1>6. CASE Tick
  BY <1>6 DEF Tick, disk, saves
<1>7. CASE UNCHANGED vars
  BY <1>7 DEF vars, disk, saves
<1> QED BY <1>3, <1>4, <1>5, <1>6, <1>7 DEF Next

\* A step that sends nobody to the insert, writes no row and makes no new
\* claim keeps the invariant.
LEMMA QuietStep ==
  ASSUME BInv, db' = db, entries \subseteq entries', item' = item,
         \A x \in Requests :
           /\ pc'[x] = "insert" => pc[x] = "insert" /\ stamp'[x] = stamp[x]
           /\ outcome'[x] = "accepted" =>
                outcome[x] = "accepted" /\ synced'[x] = synced[x]
           /\ synced'[x] => synced[x]
  PROVE  BInv'
<1>1. RowsBacked'
  BY DEF BInv, RowsBacked, EntriesOf
<1>2. InsertBacked'
  BY DEF BInv, InsertBacked, EntriesOf, SameContent
<1>3. AnswersTruthful'
  BY DEF BInv, AnswersTruthful, SameContent
<1> QED BY <1>1, <1>2, <1>3 DEF BInv

\* No row of the first state is searchable, and nothing has been answered.
LEMMA BInvInit == Init => BInv
BY LegacyAssumption DEF Init, BInv, RowsBacked, InsertBacked, AnswersTruthful

\* Every step of every request, on whatever server, keeps rows backed, requests
\* at the insert backed, and answers true.
LEMMA BInvStep == TInv /\ BInv /\ [Next]_vars => BInv'
<1> SUFFICES ASSUME TInv, BInv, [Next]_vars PROVE BInv'
  OBVIOUS
<1>0. db \subseteq db' /\ entries \subseteq entries' /\ item' = item
  BY Grow
<1>1. ASSUME NEW r \in Requests, Arrive(r) PROVE BInv'
  BY <1>0, <1>1, QuietStep DEF Arrive, Goto, TInv, TypeOK, disk
<1>2. ASSUME NEW r \in Requests, Acquire(r) PROVE BInv'
  BY <1>0, <1>2, QuietStep DEF Acquire, Goto, TInv, TypeOK, disk
<1>3. ASSUME NEW r \in Requests, FindRow(r) PROVE BInv'
  BY <1>0, <1>3, QuietStep DEF FindRow, Answer, Goto, TInv, TypeOK, disk
<1>4. ASSUME NEW r \in Requests, Verify(r) PROVE BInv'
  <2>1. CASE Answer(r, "markdown_error", FALSE)
    BY <1>0, <1>4, <2>1, QuietStep DEF Verify, Answer, TInv, TypeOK, disk
  <2>2. CASE /\ Answer(r, "accepted", TRUE)
             /\ \E row \in db :
                  /\ Repeats(row, item[r])
                  /\ Readable(row.owner, row.day)
                  /\ \E e \in EntriesOf(row.owner, row.day) :
                       SameContent(e, item[r])
    <3>1. PICK row \in db :
            /\ Repeats(row, item[r])
            /\ Readable(row.owner, row.day)
            /\ \E e \in EntriesOf(row.owner, row.day) : SameContent(e, item[r])
      BY <2>2
    <3>2. \A x \in Requests \ {r} :
            /\ pc'[x] = pc[x]
            /\ outcome'[x] = outcome[x]
            /\ synced'[x] = synced[x]
      BY <2>2 DEF Answer, TInv, TypeOK
    <3>3. pc'[r] = "reply" /\ UNCHANGED <<db, entries, item, stamp>>
      BY <1>4, <2>2 DEF Verify, Answer, TInv, TypeOK, disk
    <3>4. row.version = 1 /\ SameContent(row, item[r])
      BY <3>1 DEF Repeats
    <3>5. RowsBacked'
      BY <3>3 DEF BInv, RowsBacked, EntriesOf
    <3>6. InsertBacked'
      BY <3>2, <3>3 DEF BInv, InsertBacked, EntriesOf, SameContent
    <3>7. AnswersTruthful'
      BY <2>2, <3>1, <3>2, <3>3, <3>4
         DEF BInv, AnswersTruthful, SameContent, EntriesOf, Answer, TInv, TypeOK
    <3> QED BY <3>5, <3>6, <3>7 DEF BInv
  <2> QED BY <1>4, <2>1, <2>2 DEF Verify
<1>5. ASSUME NEW r \in Requests, ScanEntries(r) PROVE BInv'
  <2>1. CASE pc'[r] # "insert"
    BY <1>0, <1>5, <2>1, QuietStep
       DEF ScanEntries, Answer, Goto, TInv, TypeOK, disk
  <2>2. CASE pc'[r] = "insert"
    <3>1. PICK e \in Orphans(r) :
            SameContent(e, item[r]) /\ stamp' = [stamp EXCEPT ![r] = e.day]
      BY <1>5, <2>2 DEF ScanEntries, Answer, Goto, AdoptedDate, TInv, TypeOK
    <3>2. e \in entries /\ e.owner = item[r].owner
      BY <3>1 DEF Orphans, EntriesOf
    <3>3. UNCHANGED <<db, entries, item, outcome, synced>>
      BY <1>5, <2>2 DEF ScanEntries, Answer, TInv, TypeOK, disk
    <3>4. \A x \in Requests \ {r} : pc'[x] = pc[x] /\ stamp'[x] = stamp[x]
      BY <1>5, <2>2, <3>1 DEF ScanEntries, Answer, Goto, TInv, TypeOK
    <3>5. stamp'[r] = e.day
      BY <3>1 DEF TInv, TypeOK
    <3>6. RowsBacked' /\ AnswersTruthful'
      BY <3>3 DEF BInv, RowsBacked, AnswersTruthful, EntriesOf
    <3>7. InsertBacked'
      BY <3>1, <3>2, <3>3, <3>4, <3>5 DEF BInv, InsertBacked, EntriesOf
    <3> QED BY <3>6, <3>7 DEF BInv
  <2> QED BY <2>1, <2>2
<1>6. ASSUME NEW r \in Requests, WriteMarkdown(r) PROVE BInv'
  BY <1>0, <1>6, QuietStep DEF WriteMarkdown, Answer, Goto, TInv, TypeOK, disk
<1>7. ASSUME NEW r \in Requests, CreateFile(r) PROVE BInv'
  BY <1>0, <1>7, QuietStep DEF CreateFile, Answer, Goto, TInv, TypeOK
<1>8. ASSUME NEW r \in Requests, WriteEntry(r) PROVE BInv'
  <2>1. CASE WriteError(r)
    BY <1>0, <1>8, <2>1, QuietStep DEF WriteEntry, WriteError, Answer, TInv, TypeOK
  <2>2. CASE /\ PutEntry(r)
             /\ Goto(r, "insert")
             /\ UNCHANGED <<mutex, outcome, synced>>
    <3>1. UNCHANGED <<db, item, stamp, outcome, synced>>
      BY <1>8, <2>2 DEF WriteEntry
    <3>2. \A x \in Requests \ {r} : pc'[x] = pc[x]
      BY <2>2 DEF Goto, TInv, TypeOK
    <3>3. \E e \in EntriesOf(item[r].owner, stamp[r])' : SameContent(e, item[r])
      <4> DEFINE new == [owner |-> item[r].owner, day |-> stamp[r],
                         id |-> item[r].id, text |-> item[r].text, by |-> r]
      <4>1. new \in entries'
        BY <2>2 DEF PutEntry
      <4>2. new.owner = item[r].owner /\ new.day = stamp[r]
            /\ SameContent(new, item[r])
        BY DEF SameContent
      <4> HIDE DEF new
      <4> QED BY <3>1, <4>1, <4>2 DEF EntriesOf
    <3>4. RowsBacked' /\ AnswersTruthful'
      BY <1>0, <3>1 DEF BInv, RowsBacked, AnswersTruthful, EntriesOf, SameContent
    <3>5. InsertBacked'
      BY <1>0, <3>1, <3>2, <3>3 DEF BInv, InsertBacked, EntriesOf, SameContent
    <3> QED BY <3>4, <3>5 DEF BInv
  <2> QED BY <1>8, <2>1, <2>2 DEF WriteEntry
<1>9. ASSUME NEW r \in Requests, InsertRow(r) PROVE BInv'
  <2> DEFINE row == [owner |-> item[r].owner, id |-> item[r].id,
                     text |-> item[r].text, day |-> stamp[r],
                     version |-> 1, vec |-> item[r].vec]
  <2>1. /\ UNCHANGED <<entries, item, stamp>>
        /\ pc[r] = "insert"
        /\ pc'[r] = "reply"
        /\ synced'[r] = TRUE
        /\ \A x \in Requests \ {r} :
             pc'[x] = pc[x] /\ outcome'[x] = outcome[x] /\ synced'[x] = synced[x]
    BY <1>9 DEF InsertRow, Answer, TInv, TypeOK
  <2>2. \/ db' = db /\ outcome'[r] # "accepted"
        \/ db' = db \cup {row}
    BY <1>9 DEF InsertRow, Answer, TInv, TypeOK
  <2>3. \E e \in EntriesOf(item[r].owner, stamp[r]) : SameContent(e, item[r])
    BY <2>1 DEF BInv, InsertBacked
  <2>4. InsertBacked'
    BY <2>1 DEF BInv, InsertBacked, EntriesOf, SameContent
  <2>5. RowsBacked'
    BY <2>1, <2>2, <2>3 DEF BInv, RowsBacked, EntriesOf, SameContent
  <2>6. \E e \in entries' : SameContent(e, item[r])
    BY <2>1, <2>3 DEF EntriesOf
  <2>7. outcome'[r] = "accepted" =>
          \E stored \in db' : stored.version = 1 /\ SameContent(stored, item[r])
    <3>1. row.version = 1 /\ SameContent(row, item[r])
      BY DEF SameContent
    <3> HIDE DEF row
    <3> QED BY <2>2, <3>1
  <2>8. AnswersTruthful'
    BY <1>0, <2>1, <2>6, <2>7 DEF BInv, AnswersTruthful, SameContent
  <2> QED BY <2>4, <2>5, <2>8 DEF BInv
<1>10. ASSUME NEW r \in Requests, Reply(r) PROVE BInv'
  BY <1>0, <1>10, QuietStep DEF Reply, Goto, TInv, TypeOK, disk
<1>11. ASSUME NEW q \in Searches, Search(q) PROVE BInv'
  BY <1>0, <1>11, QuietStep DEF Search, SearchRows, ReadContent, disk, saves
<1>12. CASE Tick
  BY <1>0, <1>12, QuietStep DEF Tick, disk, saves
<1>13. ASSUME NEW s \in Servers, Crash(s) PROVE BInv'
  BY <1>0, <1>13, QuietStep DEF Crash, InFlight, TInv, TypeOK
<1>14. CASE UNCHANGED vars
  BY <1>0, <1>14, QuietStep DEF vars, disk, saves
<1> QED
  BY <1>1, <1>2, <1>3, <1>4, <1>5, <1>6, <1>7, <1>8, <1>9, <1>10, <1>11, <1>12,
     <1>13, <1>14 DEF Next, Step

\* Whatever crashes, fails or races, and with any number of servers on the same
\* database, a row never exists without its Markdown entry (saveMemory writes
\* the entry first and dates an adopted row by its entry).
THEOREM RowsAlwaysBacked == Spec => []RowsBacked
<1>1. TInv /\ BInv => RowsBacked
  BY DEF BInv
<1> QED BY TInvInit, TInvStep, BInvInit, BInvStep, <1>1, PTL DEF Spec

\* No answer claims more than what is stored.
THEOREM AnswersAlwaysTruthful == Spec => []AnswersTruthful
<1>1. TInv /\ BInv => AnswersTruthful
  BY DEF BInv
<1> QED BY TInvInit, TInvStep, BInvInit, BInvStep, <1>1, PTL DEF Spec

---------------------------------------------------------------------------
(* One server writes an owner's id once.  The mutex makes the requests        *)
(* between the scan and the write one at a time, so what the scan saw still   *)
(* holds when the entry is written.                                           *)

Writing == {"write", "create", "fill", "append"}
Critical == {"find", "verify", "scan", "insert"} \cup Writing

Holder ==
  \A r \in Requests : pc[r] \in Critical => mutex[ServerOf[r]] = r

Fresh ==
  \A r \in Requests : pc[r] \in Writing =>
    \A e \in entries : ~(e.owner = item[r].owner /\ e.id = item[r].id)

UInv == Holder /\ Fresh /\ EntriesUnique

\* The mutexes are free and the files are empty.
LEMMA UInvInit == Init => UInv
BY DEF Init, UInv, Holder, Fresh, EntriesUnique, Critical, Writing

\* A step of one request either leaves the mutex alone, takes it while it is
\* free, or ends the critical section by releasing it.
LEMMA StepMutex ==
  ASSUME TInv, NEW r \in Requests, Step(r)
  PROVE  /\ \A x \in Requests \ {r} : pc'[x] = pc[x]
         /\ \/ mutex' = mutex /\ (pc'[r] \in Critical => pc[r] \in Critical)
            \/ /\ mutex[ServerOf[r]] = Free
               /\ mutex' = [mutex EXCEPT ![ServerOf[r]] = r]
            \/ /\ pc[r] \in Critical
               /\ pc'[r] \notin Critical
               /\ mutex' = [mutex EXCEPT ![ServerOf[r]] = Free]
<1> USE DEF TInv, TypeOK, Goto, Answer, Critical, Writing
<1>1. CASE Arrive(r)
  BY <1>1 DEF Arrive
<1>2. CASE Acquire(r)
  BY <1>2 DEF Acquire
<1>3. CASE FindRow(r)
  BY <1>3 DEF FindRow
<1>4. CASE Verify(r)
  BY <1>4 DEF Verify
<1>5. CASE ScanEntries(r)
  BY <1>5 DEF ScanEntries
<1>6. CASE WriteMarkdown(r)
  BY <1>6 DEF WriteMarkdown
<1>7. CASE CreateFile(r)
  BY <1>7 DEF CreateFile
<1>8. CASE WriteEntry(r)
  BY <1>8 DEF WriteEntry, WriteError
<1>9. CASE InsertRow(r)
  BY <1>9 DEF InsertRow
<1>10. CASE Reply(r)
  BY <1>10 DEF Reply
<1> QED BY <1>1, <1>2, <1>3, <1>4, <1>5, <1>6, <1>7, <1>8, <1>9, <1>10 DEF Step

\* A request between Lock and Unlock holds the mutex of its server.
LEMMA HolderStep == TInv /\ Holder /\ [Next]_vars => Holder'
<1> SUFFICES ASSUME TInv, Holder, [Next]_vars PROVE Holder'
  OBVIOUS
<1>0. /\ mutex \in [Servers -> Tasks \cup {Free}]
      /\ \A r \in Requests : ServerOf[r] \in Servers /\ r # Free
  BY ServerAssumption, TaskAssumption DEF TInv, TypeOK, Tasks
<1>1. ASSUME NEW r \in Requests, Step(r) PROVE Holder'
  <2>1. \A x \in Requests \ {r} : pc'[x] = pc[x]
    BY <1>1, StepMutex
  <2>2. CASE mutex' = mutex /\ (pc'[r] \in Critical => pc[r] \in Critical)
    BY <2>1, <2>2 DEF Holder
  <2>3. CASE /\ mutex[ServerOf[r]] = Free
             /\ mutex' = [mutex EXCEPT ![ServerOf[r]] = r]
    BY <1>0, <2>1, <2>3 DEF Holder
  <2>4. CASE /\ pc[r] \in Critical
             /\ pc'[r] \notin Critical
             /\ mutex' = [mutex EXCEPT ![ServerOf[r]] = Free]
    BY <1>0, <2>1, <2>4 DEF Holder
  <2> QED BY <1>1, <2>2, <2>3, <2>4, StepMutex
<1>2. ASSUME NEW q \in Searches, Search(q) PROVE Holder'
  BY <1>2 DEF Search, SearchRows, ReadContent, saves, Holder
<1>3. CASE Tick
  BY <1>3 DEF Tick, saves, Holder
<1>4. ASSUME NEW s \in Servers, Crash(s) PROVE Holder'
  <2>1. \A r \in Requests : pc'[r] \in Critical =>
          pc[r] \in Critical /\ ServerOf[r] # s
    BY <1>4 DEF Crash, InFlight, Critical, Writing
  <2> QED BY <1>0, <1>4, <2>1 DEF Crash, Holder
<1>5. CASE UNCHANGED vars
  BY <1>5 DEF vars, saves, Holder
<1> QED BY <1>1, <1>2, <1>3, <1>4, <1>5 DEF Next

\* One entry more, with an owner and an id that are new to the files.
LEMMA PutKeepsUnique ==
  ASSUME NEW r \in Requests, EntriesUnique, PutEntry(r),
         \A e \in entries : ~(e.owner = item[r].owner /\ e.id = item[r].id)
  PROVE  EntriesUnique'
<1> DEFINE new == [owner |-> item[r].owner, day |-> stamp[r],
                   id |-> item[r].id, text |-> item[r].text, by |-> r]
<1>1. entries' = entries \cup {new}
  BY DEF PutEntry
<1>2. new.owner = item[r].owner /\ new.id = item[r].id
  OBVIOUS
<1> HIDE DEF new
<1> QED BY <1>1, <1>2 DEF EntriesUnique

\* With one server, a request about to write still has an id that is new to
\* the files, since nobody else writes while it holds the mutex.
LEMMA UInvStep ==
  ASSUME \A s, t \in Servers : s = t
  PROVE  TInv /\ UInv /\ [Next]_vars => UInv'
<1> SUFFICES ASSUME TInv, UInv, [Next]_vars PROVE UInv'
  OBVIOUS
<1>0. Holder' /\ item' = item /\ \A r \in Requests : ServerOf[r] \in Servers
  BY HolderStep, Grow, ServerAssumption DEF UInv, Tasks
<1>1. ASSUME NEW r \in Requests, Step(r) PROVE Fresh' /\ EntriesUnique'
  <2>1. \A x \in Requests \ {r} : pc'[x] = pc[x]
    BY <1>1, StepMutex
  <2>2. CASE WriteEntry(r)
    <3>1. pc[r] \in Writing /\ pc'[r] \notin Writing
      BY <2>2 DEF WriteEntry, WriteError, Answer, Goto, Writing, TInv, TypeOK
    <3>2. \A x \in Requests \ {r} : pc[x] \notin Writing
      BY <1>0, <3>1 DEF UInv, Holder, Critical
    <3>3. Fresh'
      BY <2>1, <3>1, <3>2 DEF Fresh
    <3>4. CASE UNCHANGED entries
      BY <3>3, <3>4 DEF UInv, EntriesUnique
    <3>5. CASE PutEntry(r)
      BY <3>1, <3>3, <3>5, PutKeepsUnique DEF UInv, Fresh
    <3> QED BY <2>2, <3>3, <3>4, <3>5 DEF WriteEntry, PartialWrite
  <2>3. CASE ScanEntries(r)
    <3>1. UNCHANGED entries
      BY <2>3 DEF ScanEntries, disk
    <3>2. pc'[r] \in Writing => Orphans(r) = {}
      BY <2>3 DEF ScanEntries, Answer, Goto, Writing, TInv, TypeOK
    <3>3. Orphans(r) = {} =>
            \A e \in entries : ~(e.owner = item[r].owner /\ e.id = item[r].id)
      BY DEF Orphans, ScannedDays, EntriesOf, TInv, TypeOK, Entry
    <3>4. Fresh'
      BY <1>0, <2>1, <3>1, <3>2, <3>3 DEF UInv, Fresh
    <3> QED BY <3>1, <3>4 DEF UInv, EntriesUnique
  <2>4. CASE /\ UNCHANGED entries
             /\ pc'[r] \in Writing => pc[r] \in Writing
    BY <1>0, <2>1, <2>4 DEF UInv, Fresh, EntriesUnique
  <2>5. \/ WriteEntry(r) \/ ScanEntries(r)
        \/ /\ UNCHANGED entries
           /\ pc'[r] \in Writing => pc[r] \in Writing
    BY <1>1 DEF Step, Arrive, Acquire, FindRow, Verify, WriteMarkdown, CreateFile,
       InsertRow, Reply, Answer, Goto, Writing, disk, TInv, TypeOK
  <2> QED BY <2>2, <2>3, <2>4, <2>5
<1>2. ASSUME NEW q \in Searches, Search(q) PROVE Fresh' /\ EntriesUnique'
  BY <1>2 DEF Search, SearchRows, ReadContent, disk, saves, UInv, Fresh,
              EntriesUnique
<1>3. CASE Tick
  BY <1>0, <1>3 DEF Tick, disk, saves, UInv, Fresh, EntriesUnique
<1>4. ASSUME NEW s \in Servers, Crash(s) PROVE Fresh' /\ EntriesUnique'
  <2>1. \A r \in Requests : pc'[r] \notin Writing
    BY <1>0, <1>4 DEF Crash, InFlight, Writing
  <2>2. CASE UNCHANGED entries
    BY <2>1, <2>2 DEF UInv, Fresh, EntriesUnique
  <2>3. ASSUME NEW r \in Requests, PutEntry(r), pc[r] \in Writing
        PROVE  EntriesUnique'
    BY <2>3, PutKeepsUnique DEF UInv, Fresh
  <2> QED
    BY <1>4, <2>1, <2>2, <2>3 DEF Crash, InFlight, PartialWrite, Fresh, Writing
<1>5. CASE UNCHANGED vars
  BY <1>0, <1>5 DEF vars, disk, saves, UInv, Fresh, EntriesUnique
<1> QED BY <1>0, <1>1, <1>2, <1>3, <1>4, <1>5 DEF Next, UInv

\* With one server process, no history of requests, retries, I/O errors and
\* crashes makes saveMemory write a second block with one owner's id, not even
\* one that says the same in the same daily file: every block has its writer in
\* it, and by Fresh a request only writes when no block has its id.
THEOREM EntriesAlwaysUnique ==
  ASSUME \A s, t \in Servers : s = t
  PROVE  Spec => []EntriesUnique
<1>1. TInv /\ UInv => EntriesUnique
  BY DEF UInv
<1> QED BY TInvInit, TInvStep, UInvInit, UInvStep, <1>1, PTL DEF Spec

---------------------------------------------------------------------------
(* What a step of anybody, a crash included, does to the three records.       *)

\* The row that request r inserts.
RowOf(r) == [owner |-> item[r].owner, id |-> item[r].id, text |-> item[r].text,
             day |-> stamp[r], version |-> 1, vec |-> item[r].vec]

\* A row is added by one request at its insert, under an id that is not taken.
LEMMA RowKinds ==
  ASSUME [Next]_vars
  PROVE  \/ db' = db
         \/ \E r \in Requests :
              /\ pc[r] = "insert" /\ ~IdTaken(item[r].id)
              /\ db' = db \cup {RowOf(r)} /\ Answer(r, "accepted", TRUE)
<1>1. ASSUME NEW r \in Requests, Step(r), ~InsertRow(r) PROVE db' = db
  BY <1>1 DEF Step, Arrive, Acquire, FindRow, Verify, ScanEntries, WriteMarkdown,
     CreateFile, WriteEntry, Reply, disk
<1>2. ASSUME NEW r \in Requests, InsertRow(r)
      PROVE  \/ db' = db
             \/ /\ pc[r] = "insert" /\ ~IdTaken(item[r].id)
                /\ db' = db \cup {RowOf(r)} /\ Answer(r, "accepted", TRUE)
  BY <1>2 DEF InsertRow, RowOf
<1>3. ASSUME NEW q \in Searches, Search(q) PROVE db' = db
  BY <1>3 DEF Search, SearchRows, ReadContent, disk
<1>4. ASSUME Tick \/ UNCHANGED vars \/ \E s \in Servers : Crash(s) PROVE db' = db
  BY <1>4 DEF Tick, Crash, vars, disk
<1> QED BY <1>1, <1>2, <1>3, <1>4 DEF Next

\* A write that is cut off leaves its file torn and the entries as they were.
Torn(r) ==
  file' = [file EXCEPT ![item[r].owner][stamp[r]] = "bad"] /\ UNCHANGED entries

\* A file is created by one request, or written by one that has opened it.
LEMMA FileKinds ==
  ASSUME [Next]_vars
  PROVE  \/ UNCHANGED <<entries, file>>
         \/ \E r \in Requests :
              /\ CreateFile(r) /\ UNCHANGED entries
              /\ file[item[r].owner][stamp[r]] = "absent"
              /\ file' = [file EXCEPT ![item[r].owner][stamp[r]] = "empty"]
              /\ Goto(r, "fill")
         \/ \E r \in Requests : pc[r] \in {"fill", "append"} /\ (PutEntry(r) \/ Torn(r))
<1>1. ASSUME NEW r \in Requests, PartialWrite(r)
      PROVE  \/ UNCHANGED <<entries, file>>
             \/ pc[r] \in {"fill", "append"} /\ (PutEntry(r) \/ Torn(r))
  BY <1>1 DEF PartialWrite, Torn
<1>2. ASSUME NEW r \in Requests, Step(r), ~CreateFile(r), ~WriteEntry(r)
      PROVE  UNCHANGED <<entries, file>>
  BY <1>2 DEF Step, Arrive, Acquire, FindRow, Verify, ScanEntries, WriteMarkdown,
     InsertRow, Reply, disk
<1>3. ASSUME NEW r \in Requests, CreateFile(r)
      PROVE  \/ UNCHANGED <<entries, file>>
             \/ /\ CreateFile(r) /\ UNCHANGED entries
                /\ file[item[r].owner][stamp[r]] = "absent"
                /\ file' = [file EXCEPT ![item[r].owner][stamp[r]] = "empty"]
                /\ Goto(r, "fill")
  BY <1>3 DEF CreateFile
<1>4. ASSUME NEW r \in Requests, WriteEntry(r)
      PROVE  \/ UNCHANGED <<entries, file>>
             \/ pc[r] \in {"fill", "append"} /\ (PutEntry(r) \/ Torn(r))
  BY <1>1, <1>4 DEF WriteEntry
<1>5. ASSUME NEW q \in Searches, Search(q) PROVE UNCHANGED <<entries, file>>
  BY <1>5 DEF Search, SearchRows, ReadContent, disk
<1>6. ASSUME Tick \/ UNCHANGED vars PROVE UNCHANGED <<entries, file>>
  BY <1>6 DEF Tick, vars, disk
<1>7. ASSUME NEW s \in Servers, Crash(s)
      PROVE  \/ UNCHANGED <<entries, file>>
             \/ \E r \in Requests :
                  pc[r] \in {"fill", "append"} /\ (PutEntry(r) \/ Torn(r))
  BY <1>1, <1>7 DEF Crash, InFlight
<1> QED BY <1>2, <1>3, <1>4, <1>5, <1>6, <1>7 DEF Next

\* A request that has arrived stays so.
LEMMA ArrivedStays ==
  ASSUME TInv, [Next]_vars, NEW r \in Requests, pc[r] # "new"
  PROVE  pc'[r] # "new"
<1>1. ASSUME NEW x \in Requests, Step(x) PROVE pc'[r] # "new"
  BY <1>1 DEF Step, Arrive, Acquire, FindRow, Verify, ScanEntries, WriteMarkdown,
     CreateFile, WriteEntry, WriteError, InsertRow, Reply, Goto, Answer, TInv, TypeOK
<1>2. ASSUME NEW q \in Searches, Search(q) PROVE pc'[r] # "new"
  BY <1>2 DEF Search, SearchRows, ReadContent, saves
<1>3. ASSUME Tick \/ UNCHANGED vars PROVE pc'[r] # "new"
  BY <1>3 DEF Tick, vars, saves
<1>4. ASSUME NEW s \in Servers, Crash(s) PROVE pc'[r] # "new"
  BY <1>4 DEF Crash
<1> QED BY <1>1, <1>2, <1>3, <1>4 DEF Next

---------------------------------------------------------------------------
(* Where rows and entries come from.  A conflict is found with one of them,   *)
(* so it is a conflict with whoever sent it.                                  *)

\* A request that has arrived asked for it.
Sent(x) == \E other \in Requests : pc[other] # "new" /\ SameContent(x, item[other])

Sources ==
  /\ \A row \in db : row \in LegacyRows \/ (row.version = 1 /\ Sent(row))
  /\ \A e \in entries : Sent(e)

SInv == Sources /\ NoSelfConflict

\* At first there are the rows of an older version only.
LEMMA SInvInit == Init => SInv
BY DEF Init, SInv, Sources, NoSelfConflict

\* What was sent stays sent.
LEMMA SentStays ==
  ASSUME TInv, [Next]_vars, NEW x, Sent(x)
  PROVE  Sent(x)'
BY ArrivedStays, Grow DEF Sent, SameContent

\* Rows and entries are added by requests that ask for them.
LEMMA SourcesStep ==
  ASSUME TInv, Sources, [Next]_vars
  PROVE  Sources'
<1>1. ASSUME NEW r \in Requests, pc[r] # "new", NEW x, SameContent(x, item[r])
      PROVE  Sent(x)
  BY <1>1 DEF Sent
<1>2. \A row \in db' : row \in LegacyRows \/ (row.version = 1 /\ Sent(row)')
  <2>1. ASSUME NEW row \in db PROVE row \in LegacyRows \/ (row.version = 1 /\ Sent(row)')
    BY <2>1, SentStays DEF Sources
  <2>2. ASSUME NEW r \in Requests, pc[r] = "insert", NEW row, row = RowOf(r)
        PROVE  row.version = 1 /\ Sent(row)'
    <3>1. SameContent(row, item[r]) /\ row.version = 1
      BY <2>2 DEF RowOf, SameContent
    <3>2. Sent(row)
      BY <1>1, <2>2, <3>1
    <3> QED BY <3>1, <3>2, SentStays
  <2> QED BY <2>1, <2>2, RowKinds
<1>3. \A e \in entries' : Sent(e)'
  <2>1. ASSUME NEW e \in entries PROVE Sent(e)'
    BY <2>1, SentStays DEF Sources
  <2>2. ASSUME NEW r \in Requests, pc[r] \in {"fill", "append"}, PutEntry(r), NEW e \in entries'
        PROVE  Sent(e)'
    <3>1. e \in entries \/ SameContent(e, item[r])
      BY <2>2 DEF PutEntry, SameContent
    <3> QED BY <1>1, <2>1, <2>2, <3>1, SentStays
  <2> QED BY <2>1, <2>2, FileKinds DEF Torn
<1> QED BY <1>2, <1>3 DEF Sources

\* A request that is told of a conflict has met something else that was sent
\* under its id.
LEMMA NoSelfConflictStep ==
  ASSUME TInv, SInv, [Next]_vars
  PROVE  NoSelfConflict'
<1> DEFINE Rival(r) ==
      \/ \E row \in LegacyRows : row.id = item[r].id
      \/ \E other \in Requests :
           /\ pc[other] # "new"
           /\ item[other].id = item[r].id
           /\ ~SameContent(item[other], item[r])
<1>0. item' = item
  BY Grow
<1>1. ASSUME NEW r \in Requests, Rival(r) PROVE Rival(r)'
  BY <1>0, <1>1, ArrivedStays DEF SameContent
<1>2. ASSUME NEW r \in Requests, NEW x, Sent(x), x.id = item[r].id, ~SameContent(x, item[r])
      PROVE  Rival(r)
  BY <1>2 DEF Sent, SameContent
<1>3. ASSUME NEW r \in Requests, FindRow(r), outcome'[r] = "conflict", outcome[r] # "conflict"
      PROVE  Rival(r)
  <2>1. PICK row \in db : row.id = item[r].id /\ ~Repeats(row, item[r])
    BY <1>3 DEF FindRow, Answer, TInv, TypeOK
  <2> QED BY <1>2, <2>1 DEF SInv, Sources, Repeats
<1>4. ASSUME NEW r \in Requests, ScanEntries(r), outcome'[r] = "conflict", outcome[r] # "conflict"
      PROVE  Rival(r)
  <2>1. PICK e \in Orphans(r) : ~SameContent(e, item[r])
    BY <1>4 DEF ScanEntries, Answer, TInv, TypeOK
  <2>2. e \in entries /\ e.id = item[r].id
    BY DEF Orphans, EntriesOf
  <2> QED BY <1>2, <2>1, <2>2 DEF SInv, Sources
<1>5. ASSUME NEW r \in Requests, NEW x \in Requests, Step(x), x # r \/ (~FindRow(r) /\ ~ScanEntries(r)),
             outcome'[r] = "conflict"
      PROVE  outcome[r] = "conflict"
  BY <1>5 DEF Step, Arrive, Acquire, FindRow, Verify, ScanEntries, WriteMarkdown,
     CreateFile, WriteEntry, WriteError, InsertRow, Reply, Answer, TInv, TypeOK
<1>6. ASSUME NEW r \in Requests, ~\E x \in Requests : Step(x), outcome'[r] = "conflict"
      PROVE  outcome[r] = "conflict"
  BY <1>6 DEF Next, Search, SearchRows, ReadContent, Tick, Crash, vars, saves
<1>7. ASSUME NEW r \in Requests, outcome'[r] = "conflict" PROVE Rival(r)
  <2>1. CASE outcome[r] = "conflict"
    BY <2>1 DEF SInv, NoSelfConflict
  <2>2. CASE outcome[r] # "conflict"
    BY <1>3, <1>4, <1>5, <1>6, <1>7, <2>2
  <2> QED BY <2>1, <2>2
<1> QED BY <1>1, <1>7 DEF NoSelfConflict

\* For any number of servers, and whatever fails: a request that is refused as a
\* conflict is not in conflict with itself or with a retry of itself.
THEOREM NeverSelfConflict == Spec => []NoSelfConflict
<1>1. TInv /\ SInv /\ [Next]_vars => SInv'
  BY SourcesStep, NoSelfConflictStep DEF SInv
<1>2. SInv => NoSelfConflict
  BY DEF SInv
<1> QED BY TInvInit, TInvStep, SInvInit, <1>1, <1>2, PTL DEF Spec

---------------------------------------------------------------------------
(* Searches.  A file that can be read has every id once, so the entry a       *)
(* search finds for a row is the one the row was saved with.                  *)

FilesInv ==
  \A o \in Owners, d \in Days :
    /\ file[o][d] \in {"absent", "empty"} => EntriesOf(o, d) = {}
    /\ file[o][d] = "ok" => \A e, f \in EntriesOf(o, d) : e.id = f.id => e = f

HitsInv ==
  \A q \in Searches : \A row \in hits[q] :
    row \in db /\ row.version = 1 /\ row.owner = asker[q]

FInv == FilesInv /\ HitsInv /\ SearchFaithful

\* There are no files and no searches.
LEMMA FInvInit == Init => FInv
BY DEF Init, FInv, FilesInv, HitsInv, SearchFaithful, EntriesOf

\* An entry is put into the file of one owner and day, and the file can still be
\* read only if the id is new to it.
LEMMA PutKeepsFiles ==
  ASSUME TInv, FilesInv, NEW r \in Requests, pc[r] \in Started, PutEntry(r)
  PROVE  FilesInv'
<1> SUFFICES ASSUME NEW o, NEW d, o = item[r].owner, d = stamp[r]
             PROVE  FilesInv'
  OBVIOUS
<1> DEFINE new == [owner |-> o, day |-> d, id |-> item[r].id, text |-> item[r].text,
                   by |-> r]
<1>1. o \in Owners /\ d \in Days
  BY DEF TInv, Dated, Valid, TypeOK, Item
<1>2. file'[o][d] = "ok" =>
        /\ file[o][d] \in {"empty", "ok"}
        /\ \A e \in EntriesOf(o, d) : e.id # new.id
  BY <1>1 DEF PutEntry, HasEntry, TInv, TypeOK
<1>3. file'[o][d] \in {"ok", "bad"}
  BY <1>1 DEF PutEntry, TInv, TypeOK
<1>4. \A p \in Owners, b \in Days : p # o \/ b # d => file'[p][b] = file[p][b]
  BY <1>1 DEF PutEntry, TInv, TypeOK
<1>5. entries' = entries \cup {new}
  BY DEF PutEntry
<1>6. new.owner = o /\ new.day = d
  OBVIOUS
<1> HIDE DEF new
<1>7. EntriesOf(o, d)' \subseteq EntriesOf(o, d) \cup {new}
  BY <1>5 DEF EntriesOf
<1>8. \A p \in Owners, b \in Days : p # o \/ b # d => EntriesOf(p, b)' = EntriesOf(p, b)
  BY <1>5, <1>6 DEF EntriesOf
<1> SUFFICES ASSUME NEW p \in Owners, NEW b \in Days
             PROVE  /\ file'[p][b] \in {"absent", "empty"} => EntriesOf(p, b)' = {}
                    /\ file'[p][b] = "ok" =>
                         \A e, f \in EntriesOf(p, b)' : e.id = f.id => e = f
  BY DEF FilesInv
<1>9. CASE p # o \/ b # d
  BY <1>4, <1>8, <1>9 DEF FilesInv
<1>10. CASE p = o /\ b = d
  BY <1>1, <1>2, <1>3, <1>7, <1>10 DEF FilesInv
<1> QED BY <1>9, <1>10

\* A file that can be read keeps an id once, whatever is torn or written twice.
LEMMA FilesStep ==
  ASSUME TInv, FilesInv, [Next]_vars
  PROVE  FilesInv'
<1>1. CASE UNCHANGED <<entries, file>>
  BY <1>1 DEF FilesInv, EntriesOf
<1>2. ASSUME NEW r \in Requests, pc[r] \in Started, UNCHANGED entries,
             \/ /\ file[item[r].owner][stamp[r]] = "absent"
                /\ file' = [file EXCEPT ![item[r].owner][stamp[r]] = "empty"]
             \/ Torn(r)
      PROVE  FilesInv'
  <2>1. item[r].owner \in Owners /\ stamp[r] \in Days
    BY <1>2 DEF TInv, Dated, Valid, TypeOK, Item
  <2>2. file \in [Owners -> [Days -> FileStates]]
    BY DEF TInv, TypeOK
  <2>3. \/ /\ file[item[r].owner][stamp[r]] = "absent"
           /\ file' = [file EXCEPT ![item[r].owner][stamp[r]] = "empty"]
        \/ file' = [file EXCEPT ![item[r].owner][stamp[r]] = "bad"]
    BY <1>2 DEF Torn
  <2>4. \A o \in Owners, d \in Days : EntriesOf(o, d)' = EntriesOf(o, d)
    BY <1>2 DEF EntriesOf
  <2>5. \A o \in Owners, d \in Days :
          \/ file'[o][d] = file[o][d] \/ file'[o][d] = "bad"
          \/ file[o][d] = "absent" /\ file'[o][d] = "empty"
    BY <2>1, <2>2, <2>3
  <2> SUFFICES ASSUME NEW o \in Owners, NEW d \in Days
               PROVE  /\ file'[o][d] \in {"absent", "empty"} => EntriesOf(o, d)' = {}
                      /\ file'[o][d] = "ok" =>
                           \A e, f \in EntriesOf(o, d)' : e.id = f.id => e = f
    BY DEF FilesInv
  <2>6. EntriesOf(o, d)' = EntriesOf(o, d)
    BY <2>4
  <2>7. /\ file'[o][d] \in {"absent", "empty"} => file[o][d] \in {"absent", "empty"}
        /\ file'[o][d] = "ok" => file[o][d] = "ok"
    BY <2>5
  <2> QED BY <2>6, <2>7 DEF FilesInv
<1>3. ASSUME NEW r \in Requests, CreateFile(r) PROVE pc[r] \in Started
  BY <1>3 DEF CreateFile, Started
<1> QED BY <1>1, <1>2, <1>3, FileKinds, PutKeepsFiles DEF Started, Torn

\* A search has found searchable rows of its owner, and none is ever lost.
LEMMA HitsStep ==
  ASSUME TInv, HitsInv, [Next]_vars
  PROVE  HitsInv'
<1>1. asker' = asker
  BY DEF Next, Step, Arrive, Acquire, FindRow, Verify, ScanEntries, WriteMarkdown,
     CreateFile, WriteEntry, InsertRow, Reply, Search, SearchRows, ReadContent, Tick,
     Crash, vars, searches
<1>2. \A q \in Searches : hits'[q] = hits[q] \/ hits'[q] \subseteq Searchable(asker[q])
  <2>1. ASSUME NEW q \in Searches, SearchRows(q)
        PROVE  hits' = hits \/ \E near \in SUBSET Searchable(asker[q]) :
                                 hits' = [hits EXCEPT ![q] = near]
    BY <2>1 DEF SearchRows, kSubset
  <2>2. ASSUME ~\E q \in Searches : SearchRows(q) PROVE hits' = hits
    BY <2>2 DEF Next, Step, Arrive, Acquire, FindRow, Verify, ScanEntries,
       WriteMarkdown, CreateFile, WriteEntry, InsertRow, Reply, Search, ReadContent,
       Tick, Crash, vars, searches
  <2> QED BY <2>1, <2>2 DEF TInv, TypeOK
<1> QED BY <1>1, <1>2, Grow DEF HitsInv, Searchable, RowsOfEveryone

\* The entry that a search reads for a row says what the row says.
LEMMA FaithfulStep ==
  ASSUME TInv, BInv, FInv, [Next]_vars
  PROVE  SearchFaithful'
<1> DEFINE Saved(q, hit) ==
      \E row \in db : row.id = hit.id /\ row.text = hit.text /\ row.owner = asker[q]
<1>1. asker' = asker /\ db \subseteq db'
  BY Grow DEF Next, Step, Arrive, Acquire, FindRow, Verify, ScanEntries, WriteMarkdown,
     CreateFile, WriteEntry, InsertRow, Reply, Search, SearchRows, ReadContent, Tick,
     Crash, vars, searches
<1>2. ASSUME NEW q \in Searches, ReadContent(q), NEW hit \in found'[q], found' # found,
             found'[q] # found[q]
      PROVE  Saved(q, hit)
  <2>1. PICK x \in entries, row \in hits[q] :
          /\ x.owner = asker[q] /\ x.day = row.day /\ x.id = row.id
          /\ hit = [id |-> x.id, text |-> x.text]
          /\ Readable(asker[q], row.day)
    BY <1>2 DEF ReadContent, TInv, TypeOK
  <2>2. row \in db /\ row.version = 1 /\ row.owner = asker[q]
    BY DEF FInv, HitsInv
  <2>3. PICK e \in EntriesOf(row.owner, row.day) : e.id = row.id /\ e.text = row.text
    BY <2>2 DEF BInv, RowsBacked
  <2>4. x \in EntriesOf(row.owner, row.day) /\ row.owner \in Owners /\ row.day \in Days
    BY <2>1, <2>2 DEF EntriesOf, TInv, TypeOK, Entry
  <2>5. x = e
    BY <2>1, <2>2, <2>3, <2>4 DEF FInv, FilesInv, Readable
  <2> QED BY <2>1, <2>2, <2>3, <2>5
<1>3. ASSUME NEW q \in Searches, NEW p \in Searches, ReadContent(p), p # q
      PROVE  found'[q] = found[q]
  BY <1>3 DEF ReadContent, TInv, TypeOK
<1>4. ASSUME ~\E q \in Searches : ReadContent(q) PROVE found' = found
  BY <1>4 DEF Next, Step, Arrive, Acquire, FindRow, Verify, ScanEntries, WriteMarkdown,
     CreateFile, WriteEntry, InsertRow, Reply, Search, SearchRows, Tick, Crash, vars,
     searches
<1>5. ASSUME NEW q \in Searches, NEW hit \in found'[q] PROVE Saved(q, hit)
  <2>1. CASE found'[q] = found[q]
    BY <1>5, <2>1 DEF FInv, SearchFaithful
  <2>2. CASE found'[q] # found[q]
    BY <1>2, <1>3, <1>4, <1>5, <2>2
  <2> QED BY <2>1, <2>2
<1> QED BY <1>1, <1>5 DEF SearchFaithful

\* For any number of servers, and whatever fails or crashes between the query and
\* the read of the files: what a search returns is what was saved for its owner.
THEOREM SearchAlwaysFaithful == Spec => []SearchFaithful
<1>1. TInv /\ BInv /\ FInv /\ [Next]_vars => FInv'
  BY FilesStep, HitsStep, FaithfulStep DEF FInv
<1>2. FInv => SearchFaithful
  BY DEF FInv
<1> QED
  BY TInvInit, TInvStep, BInvInit, BInvStep, FInvInit, <1>1, <1>2, PTL DEF Spec

---------------------------------------------------------------------------
(* One server without faults.  Whoever writes holds the mutex, so the file is *)
(* as it was found and the id is new to it: no file is ever rejected.         *)

NeverBad ==
  /\ \A o \in Owners, d \in Days : file[o][d] # "bad"
  /\ \A r \in Requests :
       /\ pc[r] = "fill" => file[item[r].owner][stamp[r]] = "empty"
       /\ pc[r] = "append" => file[item[r].owner][stamp[r]] = "ok"

\* Nothing has been written.
LEMMA NeverBadInit == Init => NeverBad
BY DEF Init, NeverBad

\* An entry goes to the file as its writer has found it, and has a new id.
LEMMA NeverBadStep ==
  ASSUME ~Faulty, \A s, t \in Servers : s = t, TInv, UInv, NeverBad, [Next]_vars
  PROVE  NeverBad'
<1>0. item' = item /\ \A r \in Requests : ServerOf[r] \in Servers
  BY Grow, ServerAssumption DEF Tasks
<1>1. ASSUME NEW r \in Requests, Step(r) PROVE NeverBad'
  <2>1. \A x \in Requests \ {r} : pc'[x] = pc[x] /\ stamp'[x] = stamp[x]
    <3>1. \A x \in Requests \ {r} : stamp'[x] = stamp[x]
      BY <1>1 DEF Step, Arrive, Acquire, FindRow, Verify, ScanEntries, WriteMarkdown,
         CreateFile, WriteEntry, InsertRow, Reply, TInv, TypeOK
    <3> QED BY <1>1, <3>1, StepMutex
  <2>2. pc[r] \in Critical => \A x \in Requests \ {r} : pc[x] \notin Critical
    BY <1>0 DEF UInv, Holder
  <2>3. CASE CreateFile(r)
    <3>1. item[r].owner \in Owners /\ stamp[r] \in Days /\ stamp' = stamp
      BY <2>3 DEF CreateFile, TInv, Dated, Started, Valid, TypeOK, Item
    <3>2. \A x \in Requests \ {r} : pc'[x] \notin {"fill", "append"}
      BY <2>1, <2>2, <2>3 DEF CreateFile, Critical, Writing
    <3>3. CASE /\ file' = [file EXCEPT ![item[r].owner][stamp[r]] = "empty"]
               /\ pc'[r] = "fill"
      BY <1>0, <3>1, <3>2, <3>3 DEF NeverBad, TInv, TypeOK
    <3>4. CASE /\ file' = file /\ pc'[r] \notin {"fill"}
               /\ pc'[r] = "append" => file[item[r].owner][stamp[r]] = "ok"
      BY <1>0, <3>1, <3>2, <3>4 DEF NeverBad
    <3> QED
      BY <2>3, <3>3, <3>4 DEF CreateFile, Goto, Answer, Readable, TInv, TypeOK
  <2>4. CASE WriteEntry(r)
    <3>1. /\ item[r].owner \in Owners /\ stamp[r] \in Days
          /\ PutEntry(r) /\ pc'[r] = "insert"
      BY <2>4 DEF WriteEntry, Goto, TInv, Dated, Started, Valid, TypeOK, Item
    <3>2. \A x \in Requests : pc'[x] \notin {"fill", "append"}
      BY <2>1, <2>2, <2>4, <3>1 DEF WriteEntry, Critical, Writing
    <3>3. ~HasEntry(item[r].owner, stamp[r], item[r].id)
      BY <2>4 DEF WriteEntry, Writing, UInv, Fresh, HasEntry, EntriesOf
    <3>4. file' = [file EXCEPT ![item[r].owner][stamp[r]] = "ok"]
      BY <2>4, <3>1, <3>3 DEF WriteEntry, PutEntry, NeverBad
    <3> QED BY <3>1, <3>2, <3>4 DEF NeverBad, TInv, TypeOK
  <2>5. CASE WriteMarkdown(r)
    BY <1>0, <2>1, <2>5 DEF WriteMarkdown, Goto, Answer, NeverBad, TInv, TypeOK, disk
  <2>6. CASE ~CreateFile(r) /\ ~WriteEntry(r) /\ ~WriteMarkdown(r)
    <3>1. UNCHANGED file /\ pc'[r] \notin {"fill", "append"}
      BY <1>1, <2>6 DEF Step, Arrive, Acquire, FindRow, Verify, ScanEntries, InsertRow,
         Reply, Goto, Answer, TInv, TypeOK, disk
    <3> QED BY <1>0, <2>1, <3>1 DEF NeverBad
  <2> QED BY <2>3, <2>4, <2>5, <2>6
<1>2. ASSUME NEW q \in Searches, Search(q) PROVE NeverBad'
  BY <1>2 DEF Search, SearchRows, ReadContent, disk, saves, NeverBad
<1>3. CASE Tick \/ UNCHANGED vars
  BY <1>3 DEF Tick, vars, disk, saves, NeverBad
<1> QED BY <1>1, <1>2, <1>3 DEF Next, Crash

\* So every file that a row names can be read and has the row's entry.
LEMMA NeverFailsStep ==
  ASSUME ~Faulty, TInv, BInv, FInv, NeverBad, SearchNeverFails, [Next]_vars
  PROVE  SearchNeverFails'
<1>1. ASSUME NEW q \in Searches, NEW row \in hits[q]
      PROVE  Readable(asker[q], row.day) /\ HasEntry(asker[q], row.day, row.id)
  <2>1. row \in db /\ row.version = 1 /\ row.owner = asker[q]
    BY DEF FInv, HitsInv
  <2>2. PICK e \in EntriesOf(asker[q], row.day) : e.id = row.id
    BY <2>1 DEF BInv, RowsBacked
  <2>3. asker[q] \in Owners /\ row.day \in Days
    BY <2>2 DEF EntriesOf, TInv, TypeOK, Entry
  <2>4. file[asker[q]][row.day] \in FileStates
    BY <2>3 DEF TInv, TypeOK
  <2> QED
    BY <2>2, <2>3, <2>4 DEF FInv, FilesInv, NeverBad, FileStates, Readable, HasEntry
<1>2. ASSUME NEW q \in Searches, SearchRows(q) PROVE SearchNeverFails'
  BY <1>2 DEF SearchRows, SearchNeverFails, TInv, TypeOK
<1>3. ASSUME NEW q \in Searches, ReadContent(q) PROVE SearchNeverFails'
  BY <1>1, <1>3 DEF ReadContent, SearchNeverFails, TInv, TypeOK
<1>4. ASSUME NEW r \in Requests, Step(r) PROVE SearchNeverFails'
  BY <1>4 DEF Step, Arrive, Acquire, FindRow, Verify, ScanEntries, WriteMarkdown,
     CreateFile, WriteEntry, InsertRow, Reply, searches, SearchNeverFails
<1>5. CASE Tick \/ UNCHANGED vars
  BY <1>5 DEF Tick, vars, searches, SearchNeverFails
<1> QED BY <1>2, <1>3, <1>4, <1>5 DEF Next, Search, Crash

\* With one server and no faults, no history of requests makes a search fail.
THEOREM SearchesNeverFail ==
  ASSUME ~Faulty, \A s, t \in Servers : s = t
  PROVE  Spec => []SearchNeverFails
<1>1. Init => SearchNeverFails
  BY DEF Init, SearchNeverFails
<1>2. TInv /\ BInv /\ FInv /\ [Next]_vars => FInv'
  BY FilesStep, HitsStep, FaithfulStep DEF FInv
<1>3. TInv /\ UInv /\ NeverBad /\ [Next]_vars => NeverBad'
  BY NeverBadStep
<1>4. TInv /\ BInv /\ FInv /\ NeverBad /\ SearchNeverFails /\ [Next]_vars
        => SearchNeverFails'
  BY NeverFailsStep
<1> QED
  BY TInvInit, TInvStep, BInvInit, BInvStep, UInvInit, UInvStep, FInvInit, NeverBadInit,
     <1>1, <1>2, <1>3, <1>4, PTL DEF Spec

---------------------------------------------------------------------------
(* The ledger.  An insert binds its id, a response is given when the client   *)
(* reads it, and nothing else is seen.                                        *)

LegacyKept == LegacyRows \subseteq db

\* Only an insert changes what is bound.
LEMMA BindStep ==
  ASSUME TInv, LegacyKept, NEW r \in Requests, pc[r] = "insert",
         ~IdTaken(item[r].id), db' = db \cup {RowOf(r)}, Answer(r, "accepted", TRUE),
         item' = item
  PROVE  Ledger!Bind(r)
<1> DEFINE it == Memory(item[r])
<1>1. RowOf(r).version = 1 /\ Memory(RowOf(r)) = it
  BY DEF RowOf, Memory
<1>2. Bound' = Bound \cup {it}
  BY <1>1 DEF Bound
<1>3. it.id = item[r].id /\ Asked[r] = it
  BY DEF Memory, Asked
<1>4. \A m \in Bound : m.id # it.id
  BY <1>3 DEF Bound, Memory, IdTaken
<1>5. it.id \notin {row.id : row \in LegacyRows}
  BY <1>3 DEF LegacyKept, IdTaken
<1>6. Verdicts' = Verdicts /\ Verdicts[r] = "pending" /\ Asked' = Asked
  BY DEF Answer, Verdicts, Verdict, Asked, TInv, TypeOK
<1> QED BY <1>2, <1>3, <1>4, <1>5, <1>6 DEF Ledger!Bind

\* A step that binds nothing and ends no request is not seen.
LEMMA Unseen ==
  ASSUME db' = db, item' = item,
         \A r \in Requests : /\ pc'[r] = "done" <=> pc[r] = "done"
                             /\ pc[r] = "done" => outcome'[r] = outcome[r]
  PROVE  UNCHANGED <<Bound, Asked, Verdicts>>
BY DEF Bound, Asked, Verdicts, Verdict

\* Every step of the store is a step of the ledger or not seen by it.
LEMMA LedgerStep ==
  ASSUME TInv, BInv, LegacyKept, [Next]_vars
  PROVE  [Ledger!Next]_<<Bound, Asked, Verdicts>>
<1>0. item' = item
  BY Grow
<1>1. ASSUME NEW r \in Requests, pc[r] = "insert", ~IdTaken(item[r].id),
             db' = db \cup {RowOf(r)}, Answer(r, "accepted", TRUE)
      PROVE  Ledger!Next
  BY <1>0, <1>1, BindStep DEF Ledger!Next
<1>2. ASSUME NEW r \in Requests, Reply(r) PROVE Ledger!Next
  <2>1. UNCHANGED <<Bound, Asked>>
    BY <1>2 DEF Reply, Bound, Asked, disk
  <2>2. Verdicts[r] = "pending" /\ Verdicts \in [Requests -> {"pending", "accepted", "refused"}]
    BY <1>2 DEF Reply, Verdicts, Verdict
  <2>3. CASE outcome[r] = "accepted"
    <3>1. Verdicts' = [Verdicts EXCEPT ![r] = "accepted"]
      BY <1>2, <2>3 DEF Reply, Goto, Verdicts, Verdict, TInv, TypeOK
    <3>2. Asked[r] \in Bound
      BY <2>3 DEF BInv, AnswersTruthful, SameContent, Asked, Bound, Memory
    <3>3. Ledger!Accept(r)
      BY <2>1, <2>2, <3>1, <3>2 DEF Ledger!Accept
    <3> QED BY <3>3 DEF Ledger!Next
  <2>4. CASE outcome[r] # "accepted"
    <3>1. Verdicts' = [x \in Requests |-> IF x \in {r} THEN "refused" ELSE Verdicts[x]]
      BY <1>2, <2>4 DEF Reply, Goto, Verdicts, Verdict, TInv, TypeOK
    <3>2. Ledger!Refuse({r})
      BY <2>1, <2>2, <3>1 DEF Ledger!Refuse
    <3> QED BY <3>2 DEF Ledger!Next
  <2> QED BY <2>3, <2>4
<1>3. ASSUME NEW s \in Servers, Crash(s) PROVE Ledger!Next
  <2>1. UNCHANGED <<Bound, Asked>>
    BY <1>3 DEF Crash, Bound, Asked
  <2>2. \A r \in InFlight(s) : Verdicts[r] = "pending"
    BY DEF InFlight, Verdicts, Verdict
  <2>3. Verdicts' = [x \in Requests |-> IF x \in InFlight(s) THEN "refused" ELSE Verdicts[x]]
    BY <1>3 DEF Crash, Verdicts, Verdict
  <2>4. Ledger!Refuse(InFlight(s))
    BY <2>1, <2>2, <2>3 DEF Ledger!Refuse
  <2> QED BY <2>4 DEF Ledger!Next, InFlight
<1>4. ASSUME NEW r \in Requests, Step(r), ~Reply(r)
      PROVE  \A x \in Requests : /\ pc'[x] = "done" <=> pc[x] = "done"
                                 /\ pc[x] = "done" => outcome'[x] = outcome[x]
  BY <1>4 DEF Step, Arrive, Acquire, FindRow, Verify, ScanEntries, WriteMarkdown,
     CreateFile, WriteEntry, WriteError, InsertRow, Goto, Answer, TInv, TypeOK
<1>5. ASSUME (\E q \in Searches : Search(q)) \/ Tick \/ UNCHANGED vars
      PROVE  UNCHANGED <<pc, outcome>>
  BY <1>5 DEF Search, SearchRows, ReadContent, Tick, vars, saves
<1> QED BY <1>0, <1>1, <1>2, <1>3, <1>4, <1>5, RowKinds, Unseen DEF Next

\* Whatever the servers do with files, rows and locks, and however many there
\* are: clients see a ledger in which an id is bound once and for good, and an
\* accepted request is in it.
THEOREM StoreImplementsLedger == Spec => LedgerSpec
<1>1. Init => LegacyKept /\ Ledger!Init
  BY LegacyAssumption DEF Init, LegacyKept, Ledger!Init, Bound, Verdicts, Verdict
<1>2. LegacyKept /\ [Next]_vars => LegacyKept'
  BY Grow DEF LegacyKept
<1>3. TInv /\ BInv /\ LegacyKept /\ [Next]_vars
        => [Ledger!Next]_<<Bound, Asked, Verdicts>>
  BY LedgerStep
<1> QED
  BY TInvInit, TInvStep, BInvInit, BInvStep, <1>1, <1>2, <1>3, PTL
     DEF Spec, LedgerSpec, Ledger!Spec

=============================================================================
