---------------------------- MODULE MemoryStore ----------------------------
(***************************************************************************)
(* The save and search pipeline of the HTTP server.                        *)
(*                                                                         *)
(* A memory is kept twice: as an entry of a Markdown file, one file per    *)
(* owner (user and agent) and UTC day, and as a row of the SQLite table    *)
(* memories with its vector.  saveMemory writes the entry first and the    *)
(* row second, under memoryMarkdownMu, a mutex of one server process.      *)
(* Between the two writes a request can fail, be refused or die with its   *)
(* server; the entry it leaves (an orphan) is adopted by a later request   *)
(* with the same id and the same text.                                     *)
(*                                                                         *)
(* The steps of a request are the points where another goroutine, another  *)
(* server on the same directory, a crash or an I/O error can come between. *)
(* A question and its answer are one Text; the seconds of RecordedAt are   *)
(* dropped and its UTC day kept, since only the day names a file.          *)
(***************************************************************************)
EXTENDS Integers, FiniteSets, FiniteSetsExt

CONSTANTS
  Servers,    \* server processes that share the database and the directory
  Requests,   \* save requests, each sent once; a retry is another request
  Searches,   \* search requests
  ServerOf,   \* the server that receives each request and each search
  Owners,     \* (user, agent) pairs with well-formed path ids
  Ids,        \* well-formed memory ids
  Texts,      \* question and answer pairs
  Malformed,  \* an owner or an id that the path or marker validation refuses
  Items,      \* what clients may ask to save
  LegacyRows, \* rows that the migration of an older database left behind
  MaxDay,     \* bound: the clock stops at this day
  Limit,      \* the limit of a search
  Faulty,     \* whether I/O errors and crashes happen
  Free        \* the mutex held by nobody

Days == 1 .. MaxDay
NoDay == 0
Tasks == Requests \cup Searches

\* "none" is a request without embedding; "invalid" has the wrong dimension or
\* a value that is not finite.
Vectors == {"none", "valid", "invalid"}
Item == [owner : Owners \cup {Malformed}, id : Ids \cup {Malformed},
         text : Texts, vec : Vectors]
Row == [owner : Owners, id : Ids, text : Texts, day : Days \cup {NoDay},
        version : {0, 1}, vec : Vectors \ {"invalid"}]

\* A block of a daily file.  The file does not say which request wrote a block:
\* "by" keeps two blocks apart that say the same, as a request writes at most one.
Entry == [owner : Owners, day : Days, id : Ids, text : Texts, by : Requests]

\* A file is "absent", "empty" when it was created and holds no entry marker
\* yet, "ok" when memoryMarkdownEntriesByID accepts it, and "bad" when it has a
\* torn entry or the same id twice: the parser then rejects all of it.
FileStates == {"absent", "empty", "ok", "bad"}
Outcomes == {"none", "accepted", "conflict", "markdown_error", "db_error",
             "invalid", "lost"}
Steps == {"new", "wait", "find", "verify", "scan", "write", "create", "fill",
          "append", "insert", "reply", "done"}

ASSUME ServerAssumption == ServerOf \in [Tasks -> Servers]
ASSUME TaskAssumption == Requests \cap Searches = {} /\ Free \notin Tasks
ASSUME ItemAssumption == Items \subseteq Item /\ Malformed \notin Owners \cup Ids
ASSUME BoundAssumption ==
  MaxDay \in Nat \ {0} /\ Limit \in Nat \ {0} /\ Faulty \in BOOLEAN
\* Rows written before storage_version existed carry version 0 and no date.
ASSUME LegacyAssumption ==
  /\ LegacyRows \subseteq {row \in Row : row.version = 0 /\ row.day = NoDay}
  /\ \A row, other \in LegacyRows : row.id = other.id => row = other

VARIABLES
  day,      \* the UTC day of h.now()
  db,       \* the committed rows, with their vectors
  entries,  \* the complete entries in the Markdown files
  file,     \* the state of the daily file of each owner
  mutex,    \* memoryMarkdownMu of each server
  pc,       \* the step each save request is at
  item,     \* what each request asks to save, after normalizeMemory
  stamp,    \* the day of item.RecordedAt
  outcome,  \* how the request ended
  synced,   \* markdownSynced of its result
  spc,      \* the step each search is at
  asker,    \* the owner each search is for
  hits,     \* the rows a search found in the database
  found     \* the (id, text) pairs a search returned, or its error

disk == <<db, entries, file>>
saves == <<pc, item, stamp, outcome, synced>>
searches == <<spc, asker, hits, found>>
vars == <<day, disk, mutex, saves, searches>>

Init ==
  /\ day = 1
  /\ db = LegacyRows
  /\ entries = {}
  /\ file = [o \in Owners |-> [d \in Days |-> "absent"]]
  /\ mutex = [s \in Servers |-> Free]
  /\ pc = [r \in Requests |-> "new"]
  /\ item \in [Requests -> Items]
  /\ stamp = [r \in Requests |-> NoDay]
  /\ outcome = [r \in Requests |-> "none"]
  /\ synced = [r \in Requests |-> FALSE]
  /\ spc = [q \in Searches |-> "new"]
  /\ asker \in [Searches -> Owners]
  /\ hits = [q \in Searches |-> {}]
  /\ found = [q \in Searches |-> {}]

---------------------------------------------------------------------------
(* What the handlers read.                                                 *)

\* memory.SameContent and parsedEntryMatchesMemory: both compare everything a
\* request says, except its embedding.
SameContent(stored, it) ==
  stored.id = it.id /\ stored.owner = it.owner /\ stored.text = it.text

\* The entries readMemoryMarkdownEntries returns for a readable file.
EntriesOf(o, d) == {e \in entries : e.owner = o /\ e.day = d}
Readable(o, d) == file[o][d] = "ok"
HasEntry(o, d, id) == \E e \in EntriesOf(o, d) : e.id = id

\* validateMemoryPathID and validateMemoryMarkerID.
ValidatesNothing(it) == TRUE
Valid(it) == it.owner # Malformed /\ it.id # Malformed

\* A stored row that the request repeats, and may succeed on again.
NothingIsARepeat(row, it) == FALSE
Repeats(row, it) == row.version = 1 /\ SameContent(row, it)

\* The days whose files findMemoryMarkdownEntry reads.
ScannedDays(r) == Days

\* The date an adopted orphan gives the row.
DateOfTheRequest(r, orphan) == stamp[r]
AdoptedDate(r, orphan) == orphan.day

\* memories.id is a primary key, over all owners.
Replaces(id) == FALSE
IdTaken(id) == \E row \in db : row.id = id

\* The rows a vector query ranges over.
RowsOfEveryone(o) == {row \in db : row.version = 1 /\ row.vec = "valid"}
Searchable(o) == {row \in RowsOfEveryone(o) : row.owner = o}

Goto(r, step) == pc' = [pc EXCEPT ![r] = step]

AnswerStillLocked(r, what, sync) ==
  /\ pc' = [pc EXCEPT ![r] = "reply"]
  /\ outcome' = [outcome EXCEPT ![r] = what]
  /\ synced' = [synced EXCEPT ![r] = sync]
  /\ UNCHANGED mutex

\* saveMemory returns: the deferred Unlock runs and the caller gets the result.
Answer(r, what, sync) ==
  /\ pc' = [pc EXCEPT ![r] = "reply"]
  /\ outcome' = [outcome EXCEPT ![r] = what]
  /\ synced' = [synced EXCEPT ![r] = sync]
  /\ mutex' = [mutex EXCEPT ![ServerOf[r]] = Free]

---------------------------------------------------------------------------
(* Saving.                                                                 *)

\* Everything before the mutex: the ids are validated and RecordedAt is taken
\* from the clock, so a request that waits over midnight keeps the day it
\* arrived on.
Arrive(r) ==
  /\ pc[r] = "new"
  /\ \/ /\ ~Valid(item[r])
        /\ Goto(r, "reply")
        /\ outcome' = [outcome EXCEPT ![r] = "invalid"]
        /\ UNCHANGED stamp
     \/ /\ Valid(item[r])
        /\ Goto(r, "wait")
        /\ stamp' = [stamp EXCEPT ![r] = day]
        /\ UNCHANGED outcome
  /\ UNCHANGED <<day, disk, mutex, item, synced, searches>>

Acquire(r) ==
  /\ pc[r] = "wait"
  /\ mutex[ServerOf[r]] = Free
  /\ mutex' = [mutex EXCEPT ![ServerOf[r]] = r]
  /\ Goto(r, "find")
  /\ UNCHANGED <<day, disk, item, stamp, outcome, synced, searches>>

\* FindByID and the decision on a stored row.
FindRow(r) ==
  /\ pc[r] = "find"
  /\ \/ Faulty /\ Answer(r, "db_error", FALSE)
     \/ \E row \in db :
          /\ row.id = item[r].id
          /\ ~Repeats(row, item[r])
          /\ Answer(r, "conflict", FALSE)
     \/ /\ \E row \in db : Repeats(row, item[r])
        /\ Goto(r, "verify")
        /\ UNCHANGED <<mutex, outcome, synced>>
     \/ /\ ~IdTaken(item[r].id)
        /\ Goto(r, "scan")
        /\ UNCHANGED <<mutex, outcome, synced>>
  /\ UNCHANGED <<day, disk, item, stamp, searches>>

\* The row is there: the request succeeds again only if the entry in the row's
\* daily file says the same.
Verify(r) ==
  LET backed == \E row \in db :
        /\ Repeats(row, item[r])
        /\ Readable(row.owner, row.day)
        /\ \E e \in EntriesOf(row.owner, row.day) : SameContent(e, item[r])
  IN /\ pc[r] = "verify"
     /\ \/ backed /\ Answer(r, "accepted", TRUE)
        \/ (~backed \/ Faulty) /\ Answer(r, "markdown_error", FALSE)
     /\ UNCHANGED <<day, disk, item, stamp, searches>>

\* findMemoryMarkdownEntry: every daily file of the owner is parsed, so one
\* rejected file, of any day, fails the request.
FindsNothing(r) == {}
Orphans(r) ==
  UNION {{e \in EntriesOf(item[r].owner, d) : e.id = item[r].id} :
           d \in ScannedDays(r)}
ScanFails(r) ==
  \/ \E d \in ScannedDays(r) : file[item[r].owner][d] \in {"empty", "bad"}
  \/ Cardinality(Orphans(r)) > 1

ScanEntries(r) ==
  LET orphans == Orphans(r)
  IN /\ pc[r] = "scan"
     /\ \/ /\ ScanFails(r) \/ Faulty
           /\ Answer(r, "markdown_error", FALSE)
           /\ UNCHANGED stamp
        \/ /\ ~ScanFails(r)
           /\ \E e \in orphans : ~SameContent(e, item[r])
           /\ Answer(r, "conflict", FALSE)
           /\ UNCHANGED stamp
        \/ /\ ~ScanFails(r)
           /\ \E e \in orphans :
                /\ SameContent(e, item[r])
                /\ stamp' = [stamp EXCEPT ![r] = AdoptedDate(r, e)]
           /\ Goto(r, "insert")
           /\ UNCHANGED <<mutex, outcome, synced>>
        \/ /\ ~ScanFails(r)
           /\ orphans = {}
           /\ Goto(r, "write")
           /\ UNCHANGED <<mutex, stamp, outcome, synced>>
     /\ UNCHANGED <<day, disk, item, searches>>

\* writeMemoryMarkdown up to its branch: a file that exists is parsed as a
\* whole before anything is appended to it.
WriteMarkdown(r) ==
  LET state == file[item[r].owner][stamp[r]]
  IN /\ pc[r] = "write"
     /\ \/ /\ state \in {"empty", "bad"} \/ Faulty
           /\ Answer(r, "markdown_error", FALSE)
        \/ /\ state = "ok"
           /\ Goto(r, "append")
           /\ UNCHANGED <<mutex, outcome, synced>>
        \/ /\ state = "absent"
           /\ Goto(r, "create")
           /\ UNCHANGED <<mutex, outcome, synced>>
     /\ UNCHANGED <<day, disk, item, stamp, searches>>

\* CreateMarkdownFile, the exclusive open: it fails with ErrExist when another
\* server made the file since the Stat, and the entry is then appended.
CreateFile(r) ==
  LET o == item[r].owner
      d == stamp[r]
  IN /\ pc[r] = "create"
     /\ \/ /\ file[o][d] = "absent"
           /\ file' = [file EXCEPT ![o][d] = "empty"]
           /\ Goto(r, "fill")
           /\ UNCHANGED <<mutex, outcome, synced>>
        \/ /\ Readable(o, d)
           /\ ~HasEntry(o, d, item[r].id)
           /\ Goto(r, "append")
           /\ UNCHANGED <<file, mutex, outcome, synced>>
        \/ /\ \/ file[o][d] \in {"empty", "bad"}
              \/ Readable(o, d) /\ HasEntry(o, d, item[r].id)
              \/ Faulty
           /\ Answer(r, "markdown_error", FALSE)
           /\ UNCHANGED file
     /\ UNCHANGED <<day, db, entries, item, stamp, searches>>

\* One more block, that of request r, is complete in its file, whatever the file
\* holds already.  A second one with the same id makes the whole file unreadable.
PutEntry(r) ==
  LET o == item[r].owner
      d == stamp[r]
      clean == file[o][d] \in {"empty", "ok"} /\ ~HasEntry(o, d, item[r].id)
  IN /\ entries' = entries \cup
          {[owner |-> o, day |-> d, id |-> item[r].id, text |-> item[r].text,
            by |-> r]}
     /\ file' = [file EXCEPT ![o][d] = IF clean THEN "ok" ELSE "bad"]

\* A write that was cut short: too little to matter, a torn entry, or all of
\* the entry although WriteString did not return.
PartialWrite(r) ==
  \/ UNCHANGED <<entries, file>>
  \/ /\ pc[r] \in {"fill", "append"}
     /\ file' = [file EXCEPT ![item[r].owner][stamp[r]] = "bad"]
     /\ UNCHANGED entries
  \/ /\ pc[r] \in {"fill", "append"}
     /\ PutEntry(r)

\* A failed write ends the request.
IgnoreWriteError(r) ==
  /\ Goto(r, "insert")
  /\ UNCHANGED <<mutex, outcome, synced>>
WriteError(r) == Answer(r, "markdown_error", FALSE)

\* WriteString of the new or the existing file.
WriteEntry(r) ==
  /\ pc[r] \in {"fill", "append"}
  /\ \/ /\ PutEntry(r)
        /\ Goto(r, "insert")
        /\ UNCHANGED <<mutex, outcome, synced>>
     \/ /\ Faulty
        /\ PartialWrite(r)
        /\ WriteError(r)
  /\ UNCHANGED <<day, db, item, stamp, searches>>

\* memoryService.Save: the embedding is validated only here, after the entry is
\* on disk; the row and its vector are one transaction, and the primary key
\* refuses an id that is already there.
InsertRow(r) ==
  LET it == item[r]
  IN /\ pc[r] = "insert"
     /\ \/ /\ it.vec = "invalid"
           /\ Answer(r, "invalid", TRUE)
           /\ UNCHANGED db
        \/ /\ it.vec # "invalid"
           /\ IdTaken(it.id) \/ Faulty
           /\ Answer(r, "db_error", TRUE)
           /\ UNCHANGED db
        \/ /\ it.vec # "invalid"
           /\ ~IdTaken(it.id)
           /\ db' = db \cup {[owner |-> it.owner, id |-> it.id, text |-> it.text,
                              day |-> stamp[r], version |-> 1,
                              vec |-> it.vec]}
           /\ Answer(r, "accepted", TRUE)
     /\ UNCHANGED <<day, entries, file, item, stamp, searches>>

\* The client reads the response.
Reply(r) ==
  /\ pc[r] = "reply"
  /\ Goto(r, "done")
  /\ UNCHANGED <<day, disk, mutex, item, stamp, outcome, synced, searches>>

---------------------------------------------------------------------------
(* Searching.                                                              *)

\* The vector query, before the mutex is taken: the nearest Limit rows of the
\* owner, whichever they are.
SearchRows(q) ==
  LET rows == Searchable(asker[q])
  IN /\ spc[q] = "new"
     /\ \/ /\ Faulty
           /\ spc' = [spc EXCEPT ![q] = "failed"]
           /\ UNCHANGED hits
        \/ \E near \in kSubset(Min({Limit, Cardinality(rows)}), rows) :
             /\ hits' = [hits EXCEPT ![q] = near]
             /\ spc' = [spc EXCEPT ![q] = IF near = {} THEN "done" ELSE "read"]
     /\ UNCHANGED <<day, disk, mutex, saves, asker, found>>

\* replaceSearchContentFromMarkdown, all of it under the mutex: one file that is
\* rejected or lacks its entry fails the whole search.
ReadContent(q) ==
  LET o == asker[q]
      complete == \A row \in hits[q] :
        Readable(o, row.day) /\ HasEntry(o, row.day, row.id)
  IN /\ spc[q] = "read"
     /\ mutex[ServerOf[q]] = Free
     /\ \/ /\ complete
           /\ found' = [found EXCEPT ![q] =
                {[id |-> e.id, text |-> e.text] : e \in
                   {x \in entries : \E row \in hits[q] :
                      x.owner = o /\ x.day = row.day /\ x.id = row.id}}]
           /\ spc' = [spc EXCEPT ![q] = "done"]
        \/ /\ ~complete \/ Faulty
           /\ spc' = [spc EXCEPT ![q] = "failed"]
           /\ UNCHANGED found
     /\ UNCHANGED <<day, disk, mutex, saves, asker, hits>>

---------------------------------------------------------------------------
(* The environment.                                                        *)

Tick ==
  /\ day < MaxDay
  /\ day' = day + 1
  /\ UNCHANGED <<disk, mutex, saves, searches>>

InFlight(s) ==
  {r \in Requests : ServerOf[r] = s /\ pc[r] \notin {"new", "done"}}

\* A server dies and comes back: its requests get no answer, the mutex is new,
\* and a write under way is cut short.  An open transaction is rolled back.
Crash(s) ==
  /\ Faulty
  /\ InFlight(s) # {}
  /\ pc' = [r \in Requests |-> IF r \in InFlight(s) THEN "done" ELSE pc[r]]
  /\ outcome' =
       [r \in Requests |-> IF r \in InFlight(s) THEN "lost" ELSE outcome[r]]
  /\ synced' =
       [r \in Requests |-> IF r \in InFlight(s) THEN FALSE ELSE synced[r]]
  /\ mutex' = [mutex EXCEPT ![s] = Free]
  /\ spc' = [q \in Searches |->
       IF ServerOf[q] = s /\ spc[q] = "read" THEN "failed" ELSE spc[q]]
  /\ \/ UNCHANGED <<entries, file>>
     \/ \E r \in InFlight(s) : mutex[s] = r /\ PartialWrite(r)
  /\ UNCHANGED <<day, db, item, stamp, asker, hits, found>>

Step(r) ==
  \/ Arrive(r) \/ Acquire(r) \/ FindRow(r) \/ Verify(r) \/ ScanEntries(r)
  \/ WriteMarkdown(r) \/ CreateFile(r) \/ WriteEntry(r) \/ InsertRow(r)
  \/ Reply(r)

Search(q) == SearchRows(q) \/ ReadContent(q)

Next ==
  \/ \E r \in Requests : Step(r)
  \/ \E q \in Searches : Search(q)
  \/ Tick
  \/ \E s \in Servers : Crash(s)

\* A goroutine that can run runs, and sync.Mutex does not starve a waiter.
\* Nothing makes the clock move, an I/O operation fail or a server crash.
Fairness ==
  /\ \A r \in Requests : WF_vars(Step(r))
  /\ \A q \in Searches : WF_vars(Search(q))

Spec == Init /\ [][Next]_vars /\ Fairness

---------------------------------------------------------------------------
(* Properties.                                                             *)

TypeOK ==
  /\ day \in Days
  /\ db \subseteq Row
  /\ entries \subseteq Entry
  /\ file \in [Owners -> [Days -> FileStates]]
  /\ mutex \in [Servers -> Tasks \cup {Free}]
  /\ pc \in [Requests -> Steps]
  /\ item \in [Requests -> Item]
  /\ stamp \in [Requests -> Days \cup {NoDay}]
  /\ outcome \in [Requests -> Outcomes]
  /\ synced \in [Requests -> BOOLEAN]
  /\ spc \in [Searches -> {"new", "read", "done", "failed"}]
  /\ asker \in [Searches -> Owners]
  /\ hits \in [Searches -> SUBSET Row]
  /\ found \in [Searches -> SUBSET [id : Ids, text : Texts]]

\* Every row that searches can return has its entry, with the same text, in the
\* daily file that the row's recorded_at names: the order of the two writes,
\* the adoption of an orphan written on an earlier day, and every crash between
\* them keep it so, whatever the number of servers.
RowsBacked ==
  \A row \in db : row.version = 1 =>
    \E e \in EntriesOf(row.owner, row.day) : e.id = row.id /\ e.text = row.text

\* The files never hold two blocks with one owner's id: a request that repeats
\* what an earlier one wrote, and may not have been told of, writes no second
\* block into that day's file or another day's, however requests of one server
\* fail, race, die with it or are sent again.  With a second server they can.
EntriesUnique ==
  \A e, f \in entries : e.owner = f.owner /\ e.id = f.id => e = f

\* What a response claims is so: an accepted request has its row, and
\* markdownSynced is only reported for an entry that is on disk, also when the
\* request failed after it.
AnswersTruthful ==
  \A r \in Requests :
    /\ outcome[r] = "accepted" =>
         synced[r] /\ \E row \in db : row.version = 1 /\ SameContent(row, item[r])
    /\ synced[r] => \E e \in entries : SameContent(e, item[r])

\* A retry is not refused as a conflict with itself: the conflict answer needs
\* a row or another request with the same id that says something else.
NoSelfConflict ==
  \A r \in Requests : outcome[r] = "conflict" =>
    \/ \E row \in LegacyRows : row.id = item[r].id
    \/ \E other \in Requests :
         /\ pc[other] # "new"
         /\ item[other].id = item[r].id
         /\ ~SameContent(item[other], item[r])

\* A search returns, for each id, the text that the request which owns the id
\* saved for this owner, although it reads the files after the query and
\* outside its transaction.
SearchFaithful ==
  \A q \in Searches : \A hit \in found[q] :
    \E row \in db : /\ row.id = hit.id
                    /\ row.text = hit.text
                    /\ row.owner = asker[q]

\* Without I/O errors, crashes or a second server, no history of requests makes
\* a search fail: no accepted memory is missing from its file and no file is
\* rejected.
SearchNeverFails == \A q \in Searches : spc[q] # "failed"

\* Every save request is answered or lost with its server, and every search
\* ends: no path through saveMemory keeps the mutex.
AllAnswered ==
  /\ \A r \in Requests : <>(pc[r] = "done")
  /\ \A q \in Searches : <>(spc[q] \in {"done", "failed"})

\* What clients see of all this: a ledger in which an id is bound once.
Memory(x) == [owner |-> x.owner, id |-> x.id, text |-> x.text]
Bound == {Memory(row) : row \in {x \in db : x.version = 1}}
Asked == [r \in Requests |-> Memory(item[r])]
Verdict(r) ==
  IF pc[r] # "done" THEN "pending"
  ELSE IF outcome[r] = "accepted" THEN "accepted" ELSE "refused"
Verdicts == [r \in Requests |-> Verdict(r)]

Ledger == INSTANCE MemoryLedger WITH
  Senders <- Requests,
  Reserved <- {row.id : row \in LegacyRows},
  bound <- Bound,
  asked <- Asked,
  verdict <- Verdicts
LedgerSpec == Ledger!Spec

=============================================================================
