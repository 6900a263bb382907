----------------------------- MODULE TaskStore -----------------------------
(***************************************************************************)
(* The table `tasks` behind BaseController and TaskService, and a client   *)
(* that walks through the pages of its list while others create, edit and  *)
(* remove tasks and imports come and are rolled back.                      *)
(*                                                                         *)
(* A page is two statements of prisma-pagination's createPaginator, a      *)
(* count and a findMany with skip and take, under one Promise.all: in any  *)
(* order, in no transaction, and without an orderBy.  The table is         *)
(* therefore a sequence, the order of the scan: a row is inserted wherever *)
(* the database has room, an update writes a new version somewhere else,   *)
(* and the planner may change the scan between two statements.             *)
(***************************************************************************)
EXTENDS RequestGate, SequencesExt, FiniteSetsExt, TLC

CONSTANTS
  Users,
  Ids,        \* cuids: a new row takes one that is out of sight
  Imports,    \* the dates of the uploads
  Sizes,      \* the page sizes clients ask for
  MaxSize,    \* PAGINATION.MAXIMUM_SIZE
  MaxPage     \* PAGINATION.MAXIMUM_PAGE

ASSUME TaskAssumption ==
  /\ Sizes \subseteq Nat /\ MaxSize \in Nat \ {0} /\ MaxPage \in Nat \ {0}
  /\ "none" \notin Imports

VARIABLES
  tasks,      \* rows [id, user, at], at: the import's date or "none"
  walk,       \* what the client is doing
  happened    \* history: what was done to the client's rows during the walk

vars == <<tasks, walk, happened>>

Rows == [id : Ids, user : Users, at : Imports \cup {"none"}]
Idle == [pc |-> "idle"]
Events == {"added", "removed", "moved", "raced"}

TypeOK ==
  /\ tasks \in Seq(Rows)
  /\ \A i, j \in DOMAIN tasks : tasks[i].id = tasks[j].id => i = j
  /\ walk = Idle \/
     /\ walk.pc \in {"ask", "read", "done", "refused"}
     /\ walk.page \in 1..MaxPage + 1 /\ walk.rows \in Seq(Seq(Ids)) /\ Len(walk.rows) <= 1
     /\ walk.seen \in Seq(Ids)
  /\ happened \subseteq Events

Init == tasks = <<>> /\ walk = Idle /\ happened = {}

---------------------------------------------------------------------------
(* The list *)

\* A scan: the positions in S, one after the other.
InOrder(S) ==
  CHOOSE at \in [1..Cardinality(S) -> S] :
    \A k, l \in 1..Cardinality(S) : k < l => at[k] < at[l]

\* Variant: the where clause is lost.
Own_Everyone(u) == [i \in DOMAIN tasks |-> tasks[i].id]

\* where: { userId: info.sub }, in the order of the scan
Own(u) ==
  LET at == InOrder({i \in DOMAIN tasks : tasks[i].user = u})
  IN [k \in DOMAIN at |-> tasks[at[k]].id]

\* createPaginator: skip, lastPage and whether there is a next page.
Skip(page, size) == (page - 1) * size
LastPage(total, size) == (total + size - 1) \div size
HasNext(page, total, size) == page < LastPage(total, size)

\* The queries clients send: any size, and one thing else.
\* Prisma.TaskScalarFieldEnum is {"title"}.
TaskScalarFieldEnum == {"title"}
Query(size) ==
  [page |-> <<1>>, size |-> <<size>>, from |-> Absent, to |-> Absent, sort |-> Absent,
   filter |-> Absent, search |-> Absent, export |-> Absent]
JsonSort(keys) == <<[json |-> TRUE, keys |-> keys]>>
Sized == {Query(size) : size \in Sizes}
Between(from, to) == [Query(1) EXCEPT !.from = from, !.to = to]
Ranged == {Between(f, t) : f, t \in {Absent, <<0>>, <<1>>, <<2>>}}
Sorted ==
  {[Query(1) EXCEPT !.sort = s] :
     s \in {JsonSort({"title"}), JsonSort({"title", "colour"}), <<[json |-> FALSE, keys |-> {}]>>}}
Matching(filter, search) == [Query(1) EXCEPT !.filter = filter, !.search = search]
Matched == {Matching(f, s) : f, s \in {<<"a">>, <<"a", "b">>}}
Exported == {[Query(1) EXCEPT !.export = e] : e \in {<<"true">>, <<"false">>, <<"">>, <<"true", "true">>}}
Queries == Sized \cup Ranged \cup Sorted \cup Matched \cup Exported

\* TaskQueryDto
StatusOf(query) == PaginationQuery(query, TaskScalarFieldEnum, MaxPage, MaxSize)
Exports(query) == query.export = <<"true">>

\* What is left of a query: the controller and the service use its page, size
\* and export, and nothing else of it.
Used(query) ==
  [pc |-> IF StatusOf(query) = 200 THEN "read" ELSE "refused",
   size |-> query.size[1], export |-> Exports(query)]
Firsts == {Used(query) : query \in Queries}

\* The client asks for the first page.
Begin(u, first) ==
  /\ walk.pc \in {"idle", "done", "refused"}
  /\ walk' = [pc |-> first.pc, size |-> first.size, export |-> first.export, user |-> u,
              page |-> 1, total |-> {}, rows |-> <<>>, seen |-> <<>>, start |-> Own(u)]
  /\ happened' = {}
  /\ UNCHANGED tasks

\* Variant: the maximum is exclusive.
Ask_Exclusive ==
  /\ walk.pc = "ask"
  /\ IF walk.page < MaxPage
     THEN walk' = [walk EXCEPT !.pc = "read", !.total = {}, !.rows = <<>>]
     ELSE walk' = [walk EXCEPT !.pc = "refused"]
  /\ UNCHANGED <<tasks, happened>>

\* It asks for the next one, with the same query.
Ask ==
  /\ walk.pc = "ask"
  /\ IF StatusOf([Query(walk.size) EXCEPT !.page = <<walk.page>>]) = 200
     THEN walk' = [walk EXCEPT !.pc = "read", !.total = {}, !.rows = <<>>]
     ELSE walk' = [walk EXCEPT !.pc = "refused"]
  /\ UNCHANGED <<tasks, happened>>

Count ==
  /\ walk.pc = "read" /\ walk.total = {}
  /\ walk' = [walk EXCEPT !.total = {Len(Own(walk.user))}]
  /\ UNCHANGED <<tasks, happened>>

\* `take` tasks of the user after the first `skip`
Slice(skip, take) ==
  LET own == Own(walk.user) IN SubSeq(own, skip + 1, Min({skip + take, Len(own)}))

\* Variants: perPage and page swapped; the page not handed over.
Find_Swapped ==
  /\ walk.pc = "read" /\ walk.rows = <<>>
  /\ walk' = [walk EXCEPT !.rows = <<Slice(Skip(walk.size, walk.page), walk.page)>>]
  /\ UNCHANGED <<tasks, happened>>

Find_FirstPage ==
  /\ walk.pc = "read" /\ walk.rows = <<>>
  /\ walk' = [walk EXCEPT !.rows = <<Slice(0, walk.size)>>]
  /\ UNCHANGED <<tasks, happened>>

\* { page: query.page, perPage: query.size }
Find ==
  /\ walk.pc = "read" /\ walk.rows = <<>>
  /\ walk' = [walk EXCEPT !.rows = <<Slice(Skip(walk.page, walk.size), walk.size)>>]
  /\ UNCHANGED <<tasks, happened>>

\* Both have resolved: data and meta, whose `next` the client follows; an
\* export is the data alone.
Answer ==
  /\ walk.pc = "read" /\ walk.rows # <<>>
  /\ \E total \in walk.total :
       LET more == HasNext(walk.page, total, walk.size) /\ ~walk.export
       IN walk' = [walk EXCEPT !.seen = @ \o walk.rows[1],
                               !.page = IF more THEN @ + 1 ELSE @,
                               !.pc = IF more THEN "ask" ELSE "done"]
  /\ UNCHANGED <<tasks, happened>>

---------------------------------------------------------------------------
(* The table *)

Walking == walk.pc \in {"ask", "read"}

\* Rows of user u are touched.  An insertion between the count and the find
\* of one page is noted apart: the total is then too small for the rows.
Note(u, event) ==
  happened' =
    IF ~Walking \/ u # walk.user THEN happened
    ELSE happened \cup {event}
           \cup (IF event = "added" /\ walk.pc = "read" /\ walk.total # {} /\ walk.rows = <<>>
                 THEN {"raced"} ELSE {})

\* Ids of no row and of none the client remembers.
Fresh ==
  Ids \ ({tasks[i].id : i \in DOMAIN tasks}
           \cup (IF walk = Idle THEN {} ELSE
                 ToSet(walk.start) \cup ToSet(walk.seen \o FlattenSeq(walk.rows))))

\* The bodies clients send: the fields of a task, one of them missing, of
\* another type or null, a status, and fields that are not theirs to set.
CreateFields == {"title", "content", "hashtag"}
UpdateFields == CreateFields \cup {"status"}
TaskStatus == {"PENDING", "CANCELED", "COMPLETE"}
Full == [f \in CreateFields |-> "text"]
Bodies ==
  {Full, Restrict(Full, {"title"}), [Full EXCEPT !["title"] = "wrong"], "title" :> "null"}
    \cup {"status" :> value : value \in TaskStatus \cup {"LOST"}}
    \cup {Full @@ ("userId" :> u) : u \in Users}
    \cup {Full @@ ("createdAt" :> d) : d \in Imports}

\* TaskCreateDto, and TaskUpdateDto, its PartialType with a status
TaskCreateDto(body) == \A f \in CreateFields : IsSwaggerString(TRUE, body, f)
TaskUpdateDto(body) ==
  /\ \A f \in CreateFields : IsSwaggerString(FALSE, body, f)
  /\ IsSwaggerEnum(FALSE, body, "status", TaskStatus)

\* What the pipes hand over; the others are refused with 400.  A null passes
\* the optional fields, and Prisma refuses it: 500, no change.
Created == {Whitelist(body, CreateFields) : body \in {b \in Bodies : TaskCreateDto(b)}}
Updated ==
  {Whitelist(body, UpdateFields) :
     body \in {b \in Bodies : TaskUpdateDto(b) /\ \A f \in DOMAIN b : b[f] # "null"}}

Or(data, f, value) == IF f \in DOMAIN data THEN data[f] ELSE value

\* New rows, in one statement, somewhere in the table.
Insert(u, at, ids, k) ==
  /\ tasks' = SubSeq(tasks, 1, k)
                \o [i \in DOMAIN ids |-> [id |-> ids[i], user |-> u, at |-> at]]
                \o SubSeq(tasks, k + 1, Len(tasks))
  /\ Note(u, "added")
  /\ UNCHANGED walk

\* POST tasks, data: { ...data, userId: info.sub }
Create(u, k) ==
  \E id \in Fresh, data \in Created : Insert(u, Or(data, "createdAt", "none"), <<id>>, k)

\* createMany of an import's batch, here of two rows.
Import(u, d, k) == \E i, j \in Fresh : i # j /\ Insert(u, d, <<i, j>>, k)

\* Variant: the edited task is created again.
Update_Creates(u, i, k) ==
  /\ tasks[i].user = u
  /\ tasks' = InsertAt(tasks, k, tasks[i])
  /\ Note(u, "moved")
  /\ UNCHANGED walk

\* PUT tasks/:id, where { id, userId }: the new version of the row is written
\* at k.  Not found, or another's: P2025 and no change.
Update(u, i, k) ==
  /\ tasks[i].user = u
  /\ \E data \in Updated :
       tasks' = InsertAt(RemoveAt(tasks, i), k,
                         [tasks[i] EXCEPT !.user = Or(data, "userId", @),
                                          !.at = Or(data, "createdAt", @)])
  /\ Note(u, "moved")
  /\ UNCHANGED walk

\* DELETE tasks/:id
RemoveTask(u, i) ==
  /\ tasks[i].user = u
  /\ tasks' = RemoveAt(tasks, i)
  /\ Note(u, "removed")
  /\ UNCHANGED walk

\* deleteMany of the report worker: the rows of one upload, edited or not.
Rollback(u, d) ==
  LET taken == {i \in DOMAIN tasks : tasks[i].user = u /\ tasks[i].at = d}
      left == InOrder(DOMAIN tasks \ taken)
  IN
  /\ taken # {}
  /\ tasks' = [k \in DOMAIN left |-> tasks[left[k]]]
  /\ Note(u, "removed")
  /\ UNCHANGED walk

\* The scan takes another order.
Replan ==
  /\ tasks' \in SetToSeqs(ToSet(tasks))
  /\ happened' = IF Walking THEN happened \cup {"moved"} ELSE happened
  /\ UNCHANGED walk

Next ==
  \/ \E u \in Users :
       \/ \E first \in Firsts : Begin(u, first)
       \/ \E k \in 0..Len(tasks) :
            \/ Create(u, k)
            \/ \E d \in Imports : Import(u, d, k)
       \/ \E i \in DOMAIN tasks :
            \/ \E k \in DOMAIN tasks : Update(u, i, k)
            \/ RemoveTask(u, i)
       \/ \E d \in Imports : Rollback(u, d)
  \/ Ask \/ Count \/ Find \/ Answer
  \/ Replan

Spec == Init /\ [][Next]_vars

---------------------------------------------------------------------------
(* Properties *)

Without(events) == walk # Idle /\ happened \cap events = {}

\* Whatever is done to the tasks of others, a walk over tasks that are left
\* alone shows them all, each once, in one order; an export shows a page.
UndisturbedWalkIsExact ==
  Without(Events) /\ walk.pc = "done" =>
    walk.seen = IF walk.export THEN SubSeq(walk.start, 1, Min({walk.size, Len(walk.start)}))
                ELSE walk.start

\* A task that was there throughout is missed by a walk that came to its end
\* only if rows before it were removed or moved, or one was inserted between
\* the count and the find of a page: insertions between requests never hide one.
MissedOnlyByRemovalOrRace ==
  Without({"removed", "moved", "raced"}) /\ walk.pc = "done" /\ ~walk.export =>
    ToSet(walk.start) \subseteq ToSet(walk.seen)

\* A task is shown twice only if rows were inserted or moved: removals hide
\* tasks and never repeat them.
RepeatedOnlyByInsertionOrMove ==
  Without({"added", "moved"}) => walk = Idle \/ IsInjective(walk.seen)

\* The server refuses a page it has offered itself only if the user has more
\* tasks than MAXIMUM_PAGE pages hold: these tasks no request can list.
RefusedOnlyBeyondTheLastPage ==
  walk.pc = "refused" /\ walk.page > 1 => \A total \in walk.total : total > MaxPage * walk.size

\* Owner and date are all that a rollback knows of the rows of its upload: no
\* edit changes either, whatever the body holds, so edited rows still go with
\* their upload and no others do.
RowsKeepTheirKey ==
  [][\A i \in DOMAIN tasks, j \in DOMAIN tasks' :
       tasks[i].id = tasks'[j].id =>
         tasks[i].user = tasks'[j].user /\ tasks[i].at = tasks'[j].at]_vars
=============================================================================
