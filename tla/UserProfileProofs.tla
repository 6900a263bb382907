------------------------- MODULE UserProfileProofs -------------------------
(***************************************************************************)
(* Theorems about UserProfile, for any users, numbers, requests, children, *)
(* attempts, pictures and crashes.                                         *)
(***************************************************************************)
EXTENDS UserProfile, ListLemmas, SequenceTheorems, FiniteSetTheorems, TLAPS

---------------------------------------------------------------------------
(* The inductive invariant *)

JobRecords == [user : Users, state : JobStates, tries : Nat, stalls : Nat, beside : BOOLEAN]
AtMostOne(S, T) == S = {} \/ \E x \in T : S = {x}
Sent(u) == \E j \in DOMAIN jobs : jobs[j].user = u

\* The list holds exactly the waiting jobs, each once; a job that was never
\* taken waits.
QueueOK ==
  /\ jobs \in Seq(JobRecords) /\ Len(jobs) <= MaxPictures
  /\ wait \in Seq(Pictures) /\ IsInjective(wait)
  /\ Range(wait) = {j \in DOMAIN jobs : jobs[j].state = "waiting"}
  /\ \A j \in DOMAIN jobs : jobs[j].tries = 0 => jobs[j].state = "waiting"

ChildrenOK == Cardinality(Active) <= Concurrency

\* As long as a picture was never taken, no newer one was, and it is ahead.
OrderOK ==
  \A i, j \in DOMAIN jobs : i < j /\ jobs[i].tries = 0 => jobs[j].tries = 0 /\ Ahead(wait, i, j)

\* A picture that was started while an older one was in its first run knows it.
BesideOK ==
  \A i, j \in DOMAIN jobs :
    /\ i < j /\ jobs[i].user = jobs[j].user
    /\ jobs[i].state = "active" /\ jobs[i].tries <= 1 /\ jobs[j].tries > 0
    => jobs[j].beside

\* The bucket holds pictures that were started, each under its user's key.
BucketOK ==
  /\ DOMAIN object = Users
  /\ \A u \in Users : AtMostOne(object[u], {j \in DOMAIN jobs : jobs[j].user = u /\ jobs[j].tries > 0})
  /\ \A j \in DOMAIN jobs : jobs[j].state = "completed" => object[jobs[j].user] # {}

TableOK ==
  /\ phone \in [Users -> SUBSET Phones] /\ \A u \in Users : AtMostOne(phone[u], Phones)
  /\ image \in [Users -> BOOLEAN] /\ \A u \in Users : image[u] => Sent(u)
  /\ crashes \in 0..MaxCrashes

\* An update that sends a picture has queued it before it writes.
Senders == {u \in Users : Sent(u)}
SlotOf(x, senders) ==
  /\ x.pc \in Steps /\ x.user \in Users
  /\ AtMostOne(x.phone, Phones)
  /\ x.pictures \in Nat /\ x.queued \in BOOLEAN
  /\ x.queued => x.pc = "write" /\ x.user \in senders
  /\ x.pc = "write" /\ x.pictures > 0 => x.queued
Slot(x) == SlotOf(x, Senders)

RequestsOK == DOMAIN req = Requests /\ \A r \in Requests : req[r] = Idle \/ Slot(req[r])

IInv ==
  /\ QueueOK /\ ChildrenOK /\ OrderOK /\ BesideOK
  /\ BucketOK /\ TableOK /\ RequestsOK

---------------------------------------------------------------------------
(* Forms *)

LEMMA FieldParts ==
  ASSUME NEW parts, NEW field \in Fields(parts)
  PROVE  /\ Len(field) \in Nat
         /\ field = Absent \/ field = <<"text">>
            \/ \E p \in parts : field = <<p>> \/ field = <<p, p>>
BY DEF Fields, Absent

LEMMA TextParts ==
  ASSUME NEW field \in Fields(Phones), IsSwaggerStringNumber(TextOf(field), Phones)
  PROVE  AtMostOne({TextOf(field)[i] : i \in DOMAIN TextOf(field)}, Phones)
<1>1. TextOf(field) = <<>> \/ \E x : TextOf(field) = <<x>>
  BY FieldParts DEF TextOf, Absent
<1>2. CASE TextOf(field) = <<>>
  BY <1>2 DEF AtMostOne
<1>3. ASSUME NEW x, TextOf(field) = <<x>>
      PROVE  AtMostOne({TextOf(field)[i] : i \in DOMAIN TextOf(field)}, Phones)
  <2>1. x \in Phones
    BY <1>3 DEF IsSwaggerStringNumber, Absent
  <2>2. {TextOf(field)[i] : i \in DOMAIN TextOf(field)} = {x}
    BY <1>3
  <2> QED BY <2>1, <2>2 DEF AtMostOne
<1> QED BY <1>1, <1>2, <1>3

LEMMA ServedData ==
  ASSUME NEW data \in Served
  PROVE  AtMostOne(data.phone, Phones) /\ data.pictures \in Nat
<1>1. PICK form \in Forms : UploadInterceptor(form) /\ Accepted(form) /\ data = Data(form)
  BY DEF Served
<1>2. form.phone \in Fields(Phones) /\ form.image \in Fields(Files)
  <2>1. CASE form \in [multipart : {TRUE}, phone : Fields(Phones), image : Fields(Files)]
    BY <2>1
  <2>2. CASE form = [multipart |-> FALSE, phone |-> Absent, image |-> Absent]
    BY <2>2 DEF Fields
  <2> QED BY <2>1, <2>2 DEF Forms
<1>3. AtMostOne({TextOf(form.phone)[i] : i \in DOMAIN TextOf(form.phone)}, Phones)
  BY <1>1, <1>2, TextParts DEF Accepted
<1>4. Len(form.image) \in Nat
  BY <1>2, FieldParts
<1> QED BY <1>1, <1>3, <1>4 DEF Data

---------------------------------------------------------------------------
(* The steps of a job *)

LEMMA JobsAre ==
  ASSUME QueueOK
  PROVE  /\ Len(jobs) \in Nat /\ DOMAIN jobs = 1..Len(jobs)
         /\ \A j \in DOMAIN jobs : jobs[j] \in JobRecords
BY LenProperties, ElementOfSeq DEF QueueOK

LEMMA SeqOfJobs ==
  ASSUME QueueOK, NEW f, DOMAIN f = DOMAIN jobs, f = [j \in DOMAIN f |-> f[j]],
         \A j \in DOMAIN jobs : f[j] \in JobRecords
  PROVE  f \in Seq(JobRecords) /\ Len(f) = Len(jobs)
<1>1. f \in [1..Len(jobs) -> JobRecords] /\ Len(jobs) \in Nat
  BY JobsAre
<1>2. f \in Seq(JobRecords)
  BY <1>1, SeqDef
<1> QED BY <1>1, <1>2, LenProperties

\* Job j goes from one state to another, and all else stays.
Moves(j, from, to) ==
  /\ j \in DOMAIN jobs /\ jobs[j].state = from
  /\ jobs' \in Seq(JobRecords) /\ Len(jobs') = Len(jobs) /\ DOMAIN jobs' = DOMAIN jobs
  /\ \A i \in DOMAIN jobs : i # j => jobs'[i] = jobs[i]
  /\ jobs'[j].state = to /\ jobs'[j].user = jobs[j].user

Keeps(j) == jobs'[j].tries = jobs[j].tries /\ jobs'[j].beside = jobs[j].beside

LEMMA TakenRecord ==
  ASSUME NEW x \in JobRecords, NEW b \in BOOLEAN, NEW y,
         y = [x EXCEPT !.state = "active", !.tries = @ + 1, !.beside = b]
  PROVE  /\ y \in JobRecords /\ y.state = "active" /\ y.user = x.user
         /\ y.tries = x.tries + 1 /\ y.beside = b
<1>1. y.state = "active" /\ y.user = x.user /\ y.tries = x.tries + 1
  BY DEF JobRecords
<1>2. y.beside = b
  BY Zenon DEF JobRecords
<1>3. y \in JobRecords
  <2>1. PICK t : t = x.tries + 1
    OBVIOUS
  <2>2. t \in Nat
    BY <2>1 DEF JobRecords
  <2>3. y = [user |-> x.user, state |-> "active", tries |-> t, stalls |-> x.stalls, beside |-> b]
    BY <2>1 DEF JobRecords
  <2>4. x.user \in Users /\ x.stalls \in Nat /\ "active" \in JobStates
    BY DEF JobRecords, JobStates
  <2> QED BY <2>2, <2>3, <2>4 DEF JobRecords
<1> QED BY <1>1, <1>2, <1>3

LEMMA StartMoves ==
  ASSUME QueueOK, Start, NEW j, j = Head(wait)
  PROVE  /\ Moves(j, "waiting", "active") /\ jobs'[j].tries = jobs[j].tries + 1
         /\ jobs'[j].beside <=> (jobs[j].beside \/ OlderRuns(j))
<1>1. j \in DOMAIN jobs /\ jobs[j].state = "waiting" /\ jobs[j] \in JobRecords
  BY TakeFromTheHead, JobsAre DEF QueueOK, Start
<1>2. jobs' = [jobs EXCEPT ![j].state = "active", ![j].tries = @ + 1, ![j].beside = @ \/ OlderRuns(j)]
  BY DEF Start, Started
<1>3. OlderRuns(j) \in BOOLEAN
  BY DEF OlderRuns
<1>4. jobs = [i \in DOMAIN jobs |-> jobs[i]]
  BY DEF QueueOK
<1>5. /\ DOMAIN jobs' = DOMAIN jobs /\ jobs' = [i \in DOMAIN jobs' |-> jobs'[i]]
      /\ \A i \in DOMAIN jobs : i # j => jobs'[i] = jobs[i]
  BY <1>1, <1>2, <1>4
<1>6. jobs'[j] = [jobs[j] EXCEPT !.state = "active", !.tries = @ + 1, !.beside = @ \/ OlderRuns(j)]
  BY <1>1, <1>2, <1>4
<1>7. /\ jobs'[j] \in JobRecords /\ jobs'[j].state = "active" /\ jobs'[j].user = jobs[j].user
      /\ jobs'[j].tries = jobs[j].tries + 1 /\ jobs'[j].beside = (jobs[j].beside \/ OlderRuns(j))
  <2>1. PICK b : b = (jobs[j].beside \/ OlderRuns(j))
    OBVIOUS
  <2>2. b \in BOOLEAN
    BY <2>1
  <2>3. jobs'[j] = [jobs[j] EXCEPT !.state = "active", !.tries = @ + 1, !.beside = b]
    BY <1>6, <2>1
  <2>4. /\ jobs'[j] \in JobRecords /\ jobs'[j].state = "active" /\ jobs'[j].user = jobs[j].user
        /\ jobs'[j].tries = jobs[j].tries + 1 /\ jobs'[j].beside = b
    <3>1. PICK x \in JobRecords : x = jobs[j]
      BY <1>1
    <3>2. PICK y : y = jobs'[j]
      OBVIOUS
    <3>3. y = [x EXCEPT !.state = "active", !.tries = @ + 1, !.beside = b]
      BY <2>3, <3>1, <3>2
    <3>4. /\ y \in JobRecords /\ y.state = "active" /\ y.user = x.user
          /\ y.tries = x.tries + 1 /\ y.beside = b
      BY <2>2, <3>3, TakenRecord, ZenonT(30)
    <3> QED BY <3>1, <3>2, <3>4
  <2> QED BY <2>1, <2>4
<1>8. \A i \in DOMAIN jobs : jobs'[i] \in JobRecords
  BY <1>5, <1>7, JobsAre
<1> QED BY <1>1, <1>5, <1>7, <1>8, SeqOfJobs DEF Moves

LEMMA StateMoves ==
  ASSUME QueueOK, NEW j \in DOMAIN jobs, NEW to \in JobStates,
         \/ jobs' = [jobs EXCEPT ![j].state = to]
         \/ jobs' = [jobs EXCEPT ![j].state = to, ![j].stalls = @ + 1]
  PROVE  Moves(j, jobs[j].state, to) /\ Keeps(j)
<1>1. jobs[j] \in JobRecords
  BY JobsAre
<1>2. jobs = [i \in DOMAIN jobs |-> jobs[i]]
  BY DEF QueueOK
<1>3. /\ DOMAIN jobs' = DOMAIN jobs /\ jobs' = [i \in DOMAIN jobs' |-> jobs'[i]]
      /\ \A i \in DOMAIN jobs : i # j => jobs'[i] = jobs[i]
  BY <1>1, <1>2
<1>4. \/ jobs'[j] = [jobs[j] EXCEPT !.state = to]
      \/ jobs'[j] = [jobs[j] EXCEPT !.state = to, !.stalls = @ + 1]
  BY <1>1, <1>2
<1>5. jobs'[j] \in JobRecords /\ jobs'[j].state = to /\ jobs'[j].user = jobs[j].user /\ Keeps(j)
  BY <1>1, <1>4 DEF JobRecords, Keeps
<1>6. \A i \in DOMAIN jobs : jobs'[i] \in JobRecords
  BY <1>3, <1>5, JobsAre
<1> QED BY <1>1, <1>3, <1>5, <1>6, SeqOfJobs DEF Moves

LEMMA WorkerMoves ==
  ASSUME QueueOK, NEW j \in DOMAIN jobs
  PROVE  /\ Complete(j) => Moves(j, "active", "completed") /\ Keeps(j) /\ wait' = wait
         /\ JobFails(j) => \E to \in {"delayed", "failed"} :
                             Moves(j, "active", to) /\ Keeps(j) /\ wait' = wait
         /\ Promote(j) => Moves(j, "delayed", "waiting") /\ Keeps(j) /\ wait' = Append(wait, j)
         /\ Reclaim(j) => \/ Moves(j, "stalled", "waiting") /\ Keeps(j) /\ wait' = <<j>> \o wait
                          \/ Moves(j, "stalled", "failed") /\ Keeps(j) /\ wait' = wait
<1>1. "completed" \in JobStates /\ "waiting" \in JobStates /\ "delayed" \in JobStates /\ "failed" \in JobStates
  BY DEF JobStates
<1>2. Complete(j) => Moves(j, "active", "completed") /\ Keeps(j) /\ wait' = wait
  BY <1>1, StateMoves DEF Complete
<1>3. Promote(j) => Moves(j, "delayed", "waiting") /\ Keeps(j) /\ wait' = Append(wait, j)
  BY <1>1, StateMoves DEF Promote
<1>4. ASSUME JobFails(j)
      PROVE  \E to \in {"delayed", "failed"} : Moves(j, "active", to) /\ Keeps(j) /\ wait' = wait
  <2>1. PICK to \in {"delayed", "failed"} : jobs' = [jobs EXCEPT ![j].state = to]
    BY <1>4 DEF JobFails
  <2>2. Moves(j, jobs[j].state, to) /\ Keeps(j)
    BY <1>1, <2>1, StateMoves
  <2> QED BY <1>4, <2>2 DEF JobFails
<1>5. ASSUME Reclaim(j)
      PROVE  \/ Moves(j, "stalled", "waiting") /\ Keeps(j) /\ wait' = <<j>> \o wait
             \/ Moves(j, "stalled", "failed") /\ Keeps(j) /\ wait' = wait
  <2>1. CASE jobs[j].stalls < MaxStalls
    <3>1. Moves(j, jobs[j].state, "waiting") /\ Keeps(j)
      BY <1>1, <1>5, <2>1, StateMoves DEF Reclaim
    <3> QED BY <1>5, <2>1, <3>1 DEF Reclaim
  <2>2. CASE ~(jobs[j].stalls < MaxStalls)
    <3>1. Moves(j, jobs[j].state, "failed") /\ Keeps(j)
      BY <1>1, <1>5, <2>2, StateMoves DEF Reclaim
    <3> QED BY <1>5, <2>2, <3>1 DEF Reclaim
  <2> QED BY <2>1, <2>2
<1> QED BY <1>2, <1>3, <1>4, <1>5

\* A picture is added, whose number is the next.
Adds(n, u) ==
  /\ n = Len(jobs) + 1 /\ n \in Pictures /\ n \notin DOMAIN jobs
  /\ jobs' \in Seq(JobRecords) /\ Len(jobs') = n /\ DOMAIN jobs' = DOMAIN jobs \cup {n}
  /\ \A i \in DOMAIN jobs : i < n /\ jobs'[i] = jobs[i]
  /\ jobs'[n].state = "waiting" /\ jobs'[n].tries = 0 /\ jobs'[n].user = u
  /\ wait' = Append(wait, n)

LEMMA AddAdds ==
  ASSUME QueueOK, NEW r \in Requests, req[r].user \in Users, Add(r)
  PROVE  Adds(Len(jobs) + 1, req[r].user)
<1> DEFINE u == req[r].user
<1>1. NewJob(u) \in JobRecords
  BY DEF NewJob, JobRecords, JobStates
<1>2. jobs' = Append(jobs, NewJob(u)) /\ wait' = Append(wait, Len(jobs) + 1) /\ Len(jobs) < MaxPictures
  BY DEF Add
<1>3. /\ jobs' \in Seq(JobRecords) /\ Len(jobs') = Len(jobs) + 1
      /\ \A i \in 1..Len(jobs) : jobs'[i] = jobs[i]
      /\ jobs'[Len(jobs) + 1] = NewJob(u)
  BY <1>1, <1>2, AppendProperties DEF QueueOK
<1>4. DOMAIN jobs' = 1..(Len(jobs) + 1) /\ DOMAIN jobs = 1..Len(jobs) /\ Len(jobs) \in Nat
  BY <1>3, JobsAre, LenProperties
<1>5. Len(jobs) + 1 \in Pictures
  BY <1>2, <1>4, ProfileAssumption DEF Pictures
<1> QED BY <1>2, <1>3, <1>4, <1>5 DEF Adds, NewJob

\* The process is lost: pictures that were worked on have stalled.
LEMMA CrashJobs ==
  ASSUME QueueOK, Crash
  PROVE  /\ jobs' \in Seq(JobRecords) /\ Len(jobs') = Len(jobs) /\ DOMAIN jobs' = DOMAIN jobs
         /\ \A j \in DOMAIN jobs :
              /\ Keeps(j) /\ jobs'[j].user = jobs[j].user
              /\ jobs'[j].state = IF jobs[j].state = "active" THEN "stalled" ELSE jobs[j].state
         /\ wait' = wait
<1>1. /\ DOMAIN jobs' = DOMAIN jobs /\ jobs' = [i \in DOMAIN jobs' |-> jobs'[i]] /\ wait' = wait
      /\ \A j \in DOMAIN jobs : jobs'[j] =
           IF jobs[j].state = "active" THEN [jobs[j] EXCEPT !.state = "stalled"] ELSE jobs[j]
  BY DEF Crash, Active
<1>2. ASSUME NEW j \in DOMAIN jobs
      PROVE  /\ jobs'[j] \in JobRecords
             /\ Keeps(j) /\ jobs'[j].user = jobs[j].user
             /\ jobs'[j].state = IF jobs[j].state = "active" THEN "stalled" ELSE jobs[j].state
  <2>1. jobs[j] \in JobRecords
    BY JobsAre
  <2> QED BY <1>1, <2>1 DEF Keeps, JobRecords, JobStates
<1> QED BY <1>1, <1>2, SeqOfJobs

\* What can happen to the pictures in a step.
LEMMA QueueSteps ==
  ASSUME QueueOK, RequestsOK, [Next]_vars
  PROVE  \/ UNCHANGED <<queue, object>>
         \/ \E n \in Pictures : \E u \in Users : Adds(n, u) /\ UNCHANGED object
         \/ Start
         \/ \E j \in DOMAIN jobs : Complete(j) \/ JobFails(j) \/ Promote(j) \/ Reclaim(j)
         \/ Crash
<1>1. ASSUME NEW r \in Requests, Queue(r) \/ Fails(r)
      PROVE  UNCHANGED <<queue, object>> \/ \E n \in Pictures : \E u \in Users : Adds(n, u) /\ UNCHANGED object
  <2>1. req[r].user \in Users
    BY <1>1 DEF RequestsOK, Slot, SlotOf, Queue, Fails, Idle, Steps
  <2>2. UNCHANGED <<queue, object>> \/ (Add(r) /\ UNCHANGED object)
    BY <1>1 DEF Queue, Fails
  <2>3. Add(r) => Adds(Len(jobs) + 1, req[r].user)
    BY <2>1, AddAdds
  <2> QED BY <2>1, <2>2, <2>3 DEF Adds
<1>2. ASSUME NEW r \in Requests, Lookup(r) \/ Write(r) \/ \E u \in Users, data \in Served : Receive(r, u, data)
      PROVE  UNCHANGED <<queue, object>>
  BY <1>2 DEF Lookup, Write, Receive
<1> QED BY <1>1, <1>2 DEF Next, vars

\* Pictures stay, with their users, and once taken stay so.
LEMMA Grows ==
  ASSUME QueueOK, RequestsOK, [Next]_vars, NEW j \in DOMAIN jobs
  PROVE  /\ j \in DOMAIN jobs' /\ jobs'[j].user = jobs[j].user
         /\ jobs[j].tries > 0 => jobs'[j].tries > 0
<1>1. CASE UNCHANGED <<queue, object>>
  BY <1>1 DEF queue
<1>2. ASSUME NEW n \in Pictures, NEW u \in Users, Adds(n, u)
      PROVE  j \in DOMAIN jobs' /\ jobs'[j] = jobs[j]
  BY <1>2 DEF Adds
<1>3. CASE Start
  <2>1. jobs[j] \in JobRecords
    BY JobsAre
  <2>2. jobs[j].tries \in Nat
    BY <2>1 DEF JobRecords
  <2> QED BY <1>3, <2>2, StartMoves DEF Moves
<1>4. ASSUME NEW i \in DOMAIN jobs, Complete(i) \/ JobFails(i) \/ Promote(i) \/ Reclaim(i)
      PROVE  /\ j \in DOMAIN jobs' /\ jobs'[j].user = jobs[j].user
             /\ jobs[j].tries > 0 => jobs'[j].tries > 0
  BY <1>4, WorkerMoves DEF Moves, Keeps
<1>5. CASE Crash
  BY <1>5, CrashJobs DEF Keeps
<1> QED BY <1>1, <1>2, <1>3, <1>4, <1>5, QueueSteps

---------------------------------------------------------------------------
(* The queue *)

\* Job j leaves its state for another one, and the list follows.
LEMMA QueueMoves ==
  ASSUME QueueOK, NEW j, NEW from, NEW to, Moves(j, from, to), Keeps(j), from # "waiting",
         \/ to # "waiting" /\ wait' = wait
         \/ to = "waiting" /\ (wait' = Append(wait, j) \/ wait' = <<j>> \o wait)
  PROVE  QueueOK'
<1>1. j \in Pictures /\ j \notin Range(wait) /\ Len(jobs') <= MaxPictures
  BY JobsAre, ProfileAssumption DEF QueueOK, Moves, Pictures
<1>2. /\ wait' \in Seq(Pictures) /\ IsInjective(wait')
      /\ Range(wait') = IF to = "waiting" THEN Range(wait) \cup {j} ELSE Range(wait)
  <2>1. wait \in Seq(Pictures) /\ IsInjective(wait)
    BY DEF QueueOK
  <2>2. CASE to # "waiting"
    BY <2>1, <2>2
  <2>3. CASE to = "waiting" /\ wait' = Append(wait, j)
    BY <1>1, <2>1, <2>3, PutAtTheEnd, InjectiveAtTheEnd
  <2>4. CASE to = "waiting" /\ wait' = <<j>> \o wait
    <3>1. IsInjective(<<j>> \o wait)
      BY <1>1, <2>1, InjectiveAtTheHead
    <3>2. <<j>> \o wait \in Seq(Pictures) /\ Range(<<j>> \o wait) = Range(wait) \cup {j}
      BY <1>1, <2>1, PutAtTheHead
    <3> QED BY <2>4, <3>1, <3>2
  <2> QED BY <2>2, <2>3, <2>4
<1>3. Range(wait') = {i \in DOMAIN jobs' : jobs'[i].state = "waiting"}
  BY <1>1, <1>2 DEF QueueOK, Moves
<1>4. \A i \in DOMAIN jobs' : jobs'[i].tries = 0 => jobs'[i].state = "waiting"
  BY SMTT(20) DEF QueueOK, Moves, Keeps
<1> QED BY <1>1, <1>2, <1>3, <1>4 DEF QueueOK, Moves

LEMMA QueueStep == QueueOK /\ RequestsOK /\ [Next]_vars => QueueOK'
<1> SUFFICES ASSUME QueueOK, RequestsOK, [Next]_vars PROVE QueueOK'
  OBVIOUS
<1>1. CASE UNCHANGED <<queue, object>>
  BY <1>1 DEF queue, QueueOK
<1>2. ASSUME NEW n \in Pictures, NEW u \in Users, Adds(n, u) PROVE QueueOK'
  <2>1. n \notin Range(wait) /\ Len(jobs') <= MaxPictures
    BY <1>2, ProfileAssumption DEF QueueOK, Adds, Pictures
  <2>2. wait' \in Seq(Pictures) /\ IsInjective(wait') /\ Range(wait') = Range(wait) \cup {n}
    BY <1>2, <2>1, PutAtTheEnd, InjectiveAtTheEnd DEF QueueOK, Adds
  <2>3. Range(wait') = {i \in DOMAIN jobs' : jobs'[i].state = "waiting"}
    BY <1>2, <2>2 DEF QueueOK, Adds
  <2>4. \A i \in DOMAIN jobs' : jobs'[i].tries = 0 => jobs'[i].state = "waiting"
    BY <1>2 DEF QueueOK, Adds
  <2> QED BY <1>2, <2>1, <2>2, <2>3, <2>4 DEF QueueOK, Adds
<1>3. CASE Start
  <2>1. wait # <<>> /\ wait' = Tail(wait)
    BY <1>3 DEF Start
  <2>2. PICK j : j = Head(wait)
    OBVIOUS
  <2>3. Moves(j, "waiting", "active") /\ jobs'[j].tries = jobs[j].tries + 1
    BY <1>3, <2>2, StartMoves
  <2>4. /\ wait' \in Seq(Pictures) /\ IsInjective(wait')
        /\ j \in Range(wait) /\ j \notin Range(wait') /\ Range(wait') \subseteq Range(wait)
    BY <2>1, <2>2, TakeFromTheHead, InjectiveTail DEF QueueOK
  <2>5. \A i \in Range(wait) : i = j \/ i \in Range(wait')
    BY <2>1, <2>2, RestOfTheList DEF QueueOK
  <2>6. Range(wait') = {i \in DOMAIN jobs' : jobs'[i].state = "waiting"}
    BY <2>3, <2>4, <2>5 DEF QueueOK, Moves
  <2>7. \A i \in DOMAIN jobs' : jobs'[i].tries = 0 => jobs'[i].state = "waiting"
    <3>1. jobs[j].tries \in Nat
      BY <2>3, JobsAre DEF Moves, JobRecords
    <3> QED BY <2>3, <3>1 DEF QueueOK, Moves
  <2> QED BY <2>3, <2>4, <2>6, <2>7 DEF QueueOK, Moves
<1>4. ASSUME NEW j \in DOMAIN jobs, Complete(j) \/ JobFails(j) \/ Promote(j) \/ Reclaim(j)
      PROVE  QueueOK'
  <2>1. CASE Complete(j)
    BY <2>1, WorkerMoves, QueueMoves
  <2>2. CASE JobFails(j)
    BY <2>2, WorkerMoves, QueueMoves
  <2>3. CASE Promote(j)
    BY <2>3, WorkerMoves, QueueMoves
  <2>4. CASE Reclaim(j)
    BY <2>4, WorkerMoves, QueueMoves
  <2> QED BY <1>4, <2>1, <2>2, <2>3, <2>4
<1>5. CASE Crash
  <2>1. {j \in DOMAIN jobs' : jobs'[j].state = "waiting"} = {j \in DOMAIN jobs : jobs[j].state = "waiting"}
    BY <1>5, CrashJobs
  <2>2. \A i \in DOMAIN jobs' : jobs'[i].tries = 0 => jobs'[i].state = "waiting"
    BY <1>5, CrashJobs DEF QueueOK, Keeps
  <2> QED BY <1>5, <2>1, <2>2, CrashJobs DEF QueueOK
<1> QED BY <1>1, <1>2, <1>3, <1>4, <1>5, QueueSteps

\* Children are a part of the pictures, and those are numbered.
LEMMA ActiveIsFinite == QueueOK => IsFiniteSet(Active) /\ Cardinality(Active) \in Nat
<1> SUFFICES ASSUME QueueOK PROVE IsFiniteSet(Active)
  BY FS_CardinalityType
<1>1. Active \in SUBSET (1..Len(jobs)) /\ Len(jobs) \in Nat
  BY JobsAre DEF Active
<1>2. IsFiniteSet(1..Len(jobs))
  BY <1>1, FS_Interval
<1> QED BY <1>1, <1>2, FS_Subset

LEMMA ChildrenStep == QueueOK /\ RequestsOK /\ ChildrenOK /\ [Next]_vars => ChildrenOK'
<1> SUFFICES ASSUME QueueOK, RequestsOK, ChildrenOK, [Next]_vars PROVE ChildrenOK'
  OBVIOUS
<1>0. Concurrency \in Nat
  BY ProfileAssumption
<1>1. ASSUME Active' \subseteq Active PROVE ChildrenOK'
  <2>1. Cardinality(Active') <= Cardinality(Active) /\ Cardinality(Active') \in Nat
    BY <1>1, ActiveIsFinite, FS_Subset, FS_CardinalityType
  <2> QED BY <1>0, <2>1, ActiveIsFinite DEF ChildrenOK
<1>2. CASE UNCHANGED <<queue, object>>
  BY <1>1, <1>2 DEF queue, Active
<1>3. ASSUME NEW n \in Pictures, NEW u \in Users, Adds(n, u) PROVE ChildrenOK'
  BY <1>1, <1>3 DEF Adds, Active
<1>4. CASE Start
  <2>1. PICK j : j = Head(wait)
    OBVIOUS
  <2>2. Moves(j, "waiting", "active")
    BY <1>4, <2>1, StartMoves
  <2>3. Active' = Active \cup {j} /\ j \notin Active
    BY <2>2 DEF Moves, Active
  <2>4. Cardinality(Active') = Cardinality(Active) + 1
    BY <2>3, ActiveIsFinite, FS_AddElement
  <2> QED BY <1>0, <1>4, <2>4, ActiveIsFinite DEF ChildrenOK, Start
<1>5. ASSUME NEW j \in DOMAIN jobs, Complete(j) \/ JobFails(j) \/ Promote(j) \/ Reclaim(j)
      PROVE  ChildrenOK'
  <2>1. Active' \subseteq Active
    BY <1>5, WorkerMoves DEF Moves, Active
  <2> QED BY <1>1, <2>1
<1>6. CASE Crash
  BY <1>1, <1>6, CrashJobs DEF Active
<1> QED BY <1>2, <1>3, <1>4, <1>5, <1>6, QueueSteps

---------------------------------------------------------------------------
(* Older and newer pictures *)

LEMMA OrderStep == QueueOK /\ RequestsOK /\ OrderOK /\ [Next]_vars => OrderOK'
<1> SUFFICES ASSUME QueueOK, RequestsOK, OrderOK, [Next]_vars,
                    NEW i \in DOMAIN jobs', NEW j \in DOMAIN jobs', i < j, jobs'[i].tries = 0
             PROVE  jobs'[j].tries = 0 /\ Ahead(wait', i, j)
  BY DEF OrderOK, Ahead
<1>1. CASE UNCHANGED <<queue, object>>
  BY <1>1 DEF queue, OrderOK
<1>2. ASSUME NEW n \in Pictures, NEW u \in Users, Adds(n, u)
      PROVE  jobs'[j].tries = 0 /\ Ahead(wait', i, j)
  <2>1. i \in DOMAIN jobs /\ jobs[i].tries = 0
    <3>1. n \in Nat /\ DOMAIN jobs' = 1..n
      BY <1>2, ProfileAssumption, LenProperties DEF Adds, Pictures
    <3>2. i # n
      BY <3>1
    <3> QED BY <1>2, <3>2 DEF Adds
  <2>2. i \in Range(wait) /\ wait \in Seq(Pictures) /\ wait' = Append(wait, n)
    BY <1>2, <2>1 DEF QueueOK, Adds
  <2>3. CASE j = n
    BY <1>2, <2>2, <2>3, AheadAtTheEnd DEF Adds
  <2>4. CASE j # n
    <3>1. j \in DOMAIN jobs /\ jobs'[j] = jobs[j]
      BY <1>2, <2>4 DEF Adds
    <3>2. jobs[j].tries = 0 /\ Ahead(wait, i, j)
      BY <2>1, <3>1 DEF OrderOK
    <3> QED BY <2>2, <3>1, <3>2, AheadAtTheEnd
  <2> QED BY <2>3, <2>4
<1>3. CASE Start
  <2>1. PICK h : h = Head(wait)
    OBVIOUS
  <2>2. Moves(h, "waiting", "active") /\ jobs'[h].tries = jobs[h].tries + 1
    BY <1>3, <2>1, StartMoves
  <2>3. jobs[h].tries \in Nat
    BY <2>2, JobsAre DEF Moves, JobRecords
  <2>4. i # h /\ i \in DOMAIN jobs /\ j \in DOMAIN jobs /\ jobs[i].tries = 0
    BY <2>2, <2>3 DEF Moves
  <2>5. jobs[j].tries = 0 /\ Ahead(wait, i, j)
    BY <2>4 DEF OrderOK
  <2>6. j # h /\ Ahead(Tail(wait), i, j)
    BY <2>1, <2>4, <2>5, AheadInTheTail DEF QueueOK
  <2> QED BY <1>3, <2>2, <2>4, <2>5, <2>6 DEF Moves, Start
<1>4. ASSUME NEW k \in DOMAIN jobs, Complete(k) \/ JobFails(k) \/ Promote(k) \/ Reclaim(k)
      PROVE  jobs'[j].tries = 0 /\ Ahead(wait', i, j)
  <2>1. /\ i \in DOMAIN jobs /\ j \in DOMAIN jobs
        /\ jobs'[i].tries = jobs[i].tries /\ jobs'[j].tries = jobs[j].tries
        /\ wait' = wait \/ wait' = Append(wait, k) \/ wait' = <<k>> \o wait
    BY <1>4, WorkerMoves DEF Moves, Keeps
  <2>2. k \in Pictures /\ wait \in Seq(Pictures)
    BY JobsAre, ProfileAssumption DEF QueueOK, Pictures
  <2>3. jobs[j].tries = 0 /\ Ahead(wait, i, j)
    BY <2>1 DEF OrderOK
  <2>4. Ahead(Append(wait, k), i, j) /\ Ahead(<<k>> \o wait, i, j)
    BY <2>2, <2>3, AheadAtTheEnd, AheadAtTheHead
  <2> QED BY <2>1, <2>3, <2>4
<1>5. CASE Crash
  BY <1>5, CrashJobs DEF OrderOK, Keeps
<1> QED BY <1>1, <1>2, <1>3, <1>4, <1>5, QueueSteps

LEMMA BesideStep ==
  QueueOK /\ RequestsOK /\ OrderOK /\ BesideOK /\ [Next]_vars => BesideOK'
<1> SUFFICES ASSUME QueueOK, RequestsOK, OrderOK, BesideOK, [Next]_vars,
                    NEW i \in DOMAIN jobs', NEW j \in DOMAIN jobs', i < j,
                    jobs'[i].user = jobs'[j].user, jobs'[i].state = "active",
                    jobs'[i].tries <= 1, jobs'[j].tries > 0
             PROVE  jobs'[j].beside
  BY DEF BesideOK
<1>1. CASE UNCHANGED <<queue, object>>
  BY <1>1 DEF queue, BesideOK
<1>2. ASSUME NEW n \in Pictures, NEW u \in Users, Adds(n, u) PROVE jobs'[j].beside
  <2>1. i # n /\ j # n
    BY <1>2 DEF Adds
  <2>2. i \in DOMAIN jobs /\ j \in DOMAIN jobs /\ jobs'[i] = jobs[i] /\ jobs'[j] = jobs[j]
    BY <1>2, <2>1 DEF Adds
  <2> QED BY <2>2 DEF BesideOK
<1>3. CASE Start
  <2>1. PICK h : h = Head(wait)
    OBVIOUS
  <2>2. /\ Moves(h, "waiting", "active") /\ jobs'[h].tries = jobs[h].tries + 1
        /\ jobs'[h].beside <=> (jobs[h].beside \/ OlderRuns(h))
    BY <1>3, <2>1, StartMoves
  <2>3. jobs[h].tries \in Nat /\ i \in DOMAIN jobs /\ j \in DOMAIN jobs
    BY <2>2, JobsAre DEF Moves, JobRecords
  <2>4. CASE i = h
    <3>1. jobs[i].tries = 0 /\ jobs'[j] = jobs[j]
      BY <2>2, <2>3, <2>4, JobsAre DEF Moves
    <3>2. jobs[j].tries = 0
      BY <2>3, <3>1 DEF OrderOK
    <3> QED BY <3>1, <3>2
  <2>5. CASE j = h /\ i # h
    <3>1. jobs'[i] = jobs[i] /\ jobs'[j].user = jobs[j].user
      BY <2>2, <2>3, <2>5 DEF Moves
    <3>2. OlderRuns(j)
      BY <2>3, <3>1 DEF OlderRuns, Active
    <3> QED BY <2>2, <2>5, <3>2
  <2>6. CASE i # h /\ j # h
    <3>1. jobs'[i] = jobs[i] /\ jobs'[j] = jobs[j]
      BY <2>2, <2>3, <2>6 DEF Moves
    <3> QED BY <2>3, <3>1 DEF BesideOK
  <2> QED BY <2>4, <2>5, <2>6
<1>4. ASSUME NEW k \in DOMAIN jobs, Complete(k) \/ JobFails(k) \/ Promote(k) \/ Reclaim(k)
      PROVE  jobs'[j].beside
  <2>1. /\ i # k /\ i \in DOMAIN jobs /\ j \in DOMAIN jobs /\ jobs'[i] = jobs[i]
        /\ jobs'[j].user = jobs[j].user /\ jobs'[j].tries = jobs[j].tries
        /\ jobs'[j].beside = jobs[j].beside
    BY <1>4, WorkerMoves DEF Moves, Keeps
  <2>2. jobs[j].beside
    BY <2>1 DEF BesideOK
  <2> QED BY <2>1, <2>2
<1>5. CASE Crash
  BY <1>5, CrashJobs
<1> QED BY <1>1, <1>2, <1>3, <1>4, <1>5, QueueSteps

---------------------------------------------------------------------------
(* The bucket and the table *)

\* A picture that is worked on may be put under its user's key.
LEMMA BucketTakes ==
  ASSUME QueueOK, BucketOK, NEW j \in DOMAIN jobs, NEW to,
         Moves(j, "active", to), Keeps(j),
         Upload(j) \/ (UNCHANGED object /\ to # "completed")
  PROVE  BucketOK'
<1>1. jobs[j].user \in Users /\ jobs[j].tries > 0
  BY JobsAre DEF QueueOK, Moves, JobRecords
<1>2. DOMAIN object' = Users
  BY DEF BucketOK, Upload
<1>3. ASSUME NEW u \in Users
      PROVE  AtMostOne(object'[u], {i \in DOMAIN jobs' : jobs'[i].user = u /\ jobs'[i].tries > 0})
  <2>1. \A i \in DOMAIN jobs : jobs'[i].user = jobs[i].user /\ jobs'[i].tries = jobs[i].tries
    BY DEF Moves, Keeps
  <2>2. {i \in DOMAIN jobs' : jobs'[i].user = u /\ jobs'[i].tries > 0}
          = {i \in DOMAIN jobs : jobs[i].user = u /\ jobs[i].tries > 0}
    BY <2>1 DEF Moves
  <2>3. AtMostOne(object[u], {i \in DOMAIN jobs : jobs[i].user = u /\ jobs[i].tries > 0})
    BY DEF BucketOK
  <2>4. object'[u] = object[u] \/ (object'[u] = {j} /\ jobs[j].user = u)
    BY <1>1 DEF Upload, BucketOK
  <2> QED BY <1>1, <2>2, <2>3, <2>4 DEF AtMostOne
<1>4. ASSUME NEW i \in DOMAIN jobs', jobs'[i].state = "completed" PROVE object'[jobs'[i].user] # {}
  <2>1. i \in DOMAIN jobs /\ jobs'[i].user = jobs[i].user /\ jobs[i].user \in Users
    BY JobsAre DEF Moves, JobRecords
  <2>2. CASE i = j
    BY <1>1, <1>4, <2>1, <2>2 DEF Upload, BucketOK, Moves
  <2>3. CASE i # j
    BY <1>1, <1>4, <2>1, <2>3 DEF Upload, BucketOK, Moves
  <2> QED BY <2>2, <2>3
<1> QED BY <1>2, <1>3, <1>4 DEF BucketOK

\* Otherwise what is in it stays.
LEMMA BucketKept ==
  ASSUME QueueOK, RequestsOK, BucketOK, [Next]_vars, UNCHANGED object,
         \A j \in DOMAIN jobs' : jobs'[j].state = "completed" =>
           j \in DOMAIN jobs /\ jobs[j].state = "completed"
  PROVE  BucketOK'
<1>1. ASSUME NEW u \in Users
      PROVE  AtMostOne(object'[u], {i \in DOMAIN jobs' : jobs'[i].user = u /\ jobs'[i].tries > 0})
  <2>1. {i \in DOMAIN jobs : jobs[i].user = u /\ jobs[i].tries > 0}
          \subseteq {i \in DOMAIN jobs' : jobs'[i].user = u /\ jobs'[i].tries > 0}
    BY Grows
  <2>2. AtMostOne(object[u], {i \in DOMAIN jobs : jobs[i].user = u /\ jobs[i].tries > 0})
    BY DEF BucketOK
  <2> QED BY <2>1, <2>2 DEF AtMostOne
<1>2. ASSUME NEW i \in DOMAIN jobs', jobs'[i].state = "completed" PROVE object'[jobs'[i].user] # {}
  BY <1>2, Grows DEF BucketOK
<1> QED BY <1>1, <1>2 DEF BucketOK

LEMMA BucketStep == QueueOK /\ RequestsOK /\ BucketOK /\ [Next]_vars => BucketOK'
<1> SUFFICES ASSUME QueueOK, RequestsOK, BucketOK, [Next]_vars PROVE BucketOK'
  OBVIOUS
<1>1. CASE UNCHANGED <<queue, object>>
  BY <1>1, BucketKept DEF queue
<1>2. ASSUME NEW n \in Pictures, NEW u \in Users, Adds(n, u), UNCHANGED object PROVE BucketOK'
  BY <1>2, BucketKept DEF Adds
<1>3. CASE Start
  <2>1. PICK h : h = Head(wait)
    OBVIOUS
  <2>2. Moves(h, "waiting", "active")
    BY <1>3, <2>1, StartMoves
  <2> QED BY <1>3, <2>2, BucketKept DEF Start, Moves
<1>4. ASSUME NEW j \in DOMAIN jobs, Complete(j) PROVE BucketOK'
  <2>1. Moves(j, "active", "completed") /\ Keeps(j) /\ Upload(j)
    BY <1>4, WorkerMoves DEF Complete
  <2> QED BY <2>1, BucketTakes
<1>5. ASSUME NEW j \in DOMAIN jobs, JobFails(j) PROVE BucketOK'
  <2>1. PICK to \in {"delayed", "failed"} : Moves(j, "active", to) /\ Keeps(j)
    BY <1>5, WorkerMoves
  <2>2. Upload(j) \/ UNCHANGED object
    BY <1>5 DEF JobFails, UploadRejects
  <2> QED BY <2>1, <2>2, BucketTakes
<1>6. ASSUME NEW j \in DOMAIN jobs, Promote(j) \/ Reclaim(j) PROVE BucketOK'
  <2>1. UNCHANGED object
    BY <1>6 DEF Promote, Reclaim
  <2>2. \A i \in DOMAIN jobs' : jobs'[i].state = "completed" =>
          i \in DOMAIN jobs /\ jobs[i].state = "completed"
    BY <1>6, WorkerMoves DEF Moves
  <2> QED BY <2>1, <2>2, BucketKept
<1>7. CASE Crash
  <2>1. UNCHANGED object
    BY <1>7 DEF Crash
  <2> QED BY <1>7, <2>1, CrashJobs, BucketKept
<1> QED BY <1>1, <1>2, <1>3, <1>4, <1>5, <1>6, <1>7, QueueSteps

LEMMA SentStays ==
  ASSUME QueueOK, RequestsOK, [Next]_vars, NEW u, Sent(u)
  PROVE  Sent(u)'
BY Grows DEF Sent

LEMMA TableStep == QueueOK /\ RequestsOK /\ TableOK /\ [Next]_vars => TableOK'
<1> SUFFICES ASSUME QueueOK, RequestsOK, TableOK, [Next]_vars PROVE TableOK'
  OBVIOUS
<1>1. ASSUME UNCHANGED table, crashes' \in 0..MaxCrashes PROVE TableOK'
  BY <1>1, SentStays DEF TableOK, table
<1>2. ASSUME NEW r \in Requests, req[r].pc = "write", Update(r), UNCHANGED crashes PROVE TableOK'
  <2> DEFINE x == req[r]
  <2>1. x.user \in Users /\ AtMostOne(x.phone, Phones) /\ (x.pictures > 0 => Sent(x.user))
    BY <1>2 DEF RequestsOK, Slot, SlotOf, Senders, Idle
  <2>2. phone' \in [Users -> SUBSET Phones] /\ \A u \in Users : AtMostOne(phone'[u], Phones)
    BY <1>2, <2>1 DEF TableOK, Update, AtMostOne
  <2>3. image' = [image EXCEPT ![x.user] = @ \/ Sends(r)]
    BY <1>2 DEF Update
  <2>4. Sends(r) => Sent(x.user)
    BY <2>1 DEF Sends
  <2>5. Sends(r) \in BOOLEAN /\ image \in [Users -> BOOLEAN]
    BY DEF Sends, TableOK
  <2>6. image' \in [Users -> BOOLEAN] /\ \A u \in Users : image'[u] => image[u] \/ (u = x.user /\ Sends(r))
    BY <2>1, <2>3, <2>5
  <2>7. \A u \in Users : image'[u] => Sent(u)'
    BY <2>4, <2>6, SentStays DEF TableOK
  <2> QED BY <1>2, <2>2, <2>6, <2>7 DEF TableOK
<1>3. crashes \in 0..MaxCrashes
  BY DEF TableOK
<1>4. ASSUME NEW r \in Requests,
             Lookup(r) \/ Queue(r) \/ Write(r) \/ Fails(r)
               \/ \E u \in Users, data \in Served : Receive(r, u, data)
      PROVE  TableOK'
  <2>1. UNCHANGED crashes /\ (UNCHANGED table \/ (req[r].pc = "write" /\ Update(r)))
    BY <1>4 DEF Lookup, Queue, Write, Fails, Receive
  <2> QED BY <1>1, <1>2, <1>3, <2>1
<1>5. CASE Start
  BY <1>1, <1>3, <1>5 DEF Start, Others
<1>6. ASSUME NEW j \in DOMAIN jobs, Complete(j) \/ JobFails(j) \/ Promote(j) \/ Reclaim(j) PROVE TableOK'
  BY <1>1, <1>3, <1>6 DEF Complete, JobFails, Promote, Reclaim, Others
<1>7. CASE Crash
  <2>1. UNCHANGED table /\ crashes' \in 0..MaxCrashes
    BY <1>3, <1>7, ProfileAssumption DEF Crash
  <2> QED BY <1>1, <2>1
<1>8. CASE UNCHANGED vars
  BY <1>1, <1>3, <1>8 DEF vars
<1> QED BY <1>4, <1>5, <1>6, <1>7, <1>8 DEF Next

---------------------------------------------------------------------------
(* Updates *)

LEMMA SlotStays ==
  ASSUME QueueOK, RequestsOK, [Next]_vars, NEW x, Slot(x)
  PROVE  SlotOf(x, Senders')
<1>1. Senders \subseteq Senders'
  BY SentStays DEF Senders
<1> QED BY <1>1 DEF Slot, SlotOf

LEMMA RequestsStep == QueueOK /\ RequestsOK /\ [Next]_vars => RequestsOK'
<1> SUFFICES ASSUME QueueOK, RequestsOK, [Next]_vars PROVE RequestsOK'
  OBVIOUS
<1>1. ASSUME UNCHANGED req PROVE RequestsOK'
  BY <1>1, SlotStays DEF RequestsOK, Slot
<1>2. ASSUME NEW r \in Requests, NEW x, req' = [req EXCEPT ![r] = x], x = Idle \/ SlotOf(x, Senders')
      PROVE  RequestsOK'
  <2>1. DOMAIN req' = Requests /\ \A q \in Requests : req'[q] = IF q = r THEN x ELSE req[q]
    BY <1>2 DEF RequestsOK
  <2>2. ASSUME NEW q \in Requests PROVE req'[q] = Idle \/ SlotOf(req'[q], Senders')
    BY <1>2, <2>1, SlotStays DEF RequestsOK
  <2> QED BY <2>1, <2>2 DEF RequestsOK, Slot
<1>3. ASSUME NEW r \in Requests, Done(r) PROVE RequestsOK'
  BY <1>2, <1>3 DEF Done
<1>4. ASSUME NEW r \in Requests, NEW u \in Users, NEW data \in Served, Receive(r, u, data)
      PROVE  RequestsOK'
  <2> DEFINE x == [pc |-> IF data.phone # {} THEN "lookup"
                          ELSE IF data.pictures > 0 THEN "queue" ELSE "write",
                   user |-> u, phone |-> data.phone, pictures |-> data.pictures, queued |-> FALSE]
  <2>1. req' = [req EXCEPT ![r] = x]
    BY <1>4 DEF Receive
  <2>2. SlotOf(x, Senders')
    BY ServedData DEF Slot, SlotOf, Steps
  <2> HIDE DEF x
  <2> QED BY <1>2, <2>1, <2>2
<1>5. ASSUME NEW r \in Requests, Lookup(r) PROVE RequestsOK'
  <2>1. Slot(req[r]) /\ req[r].pc = "lookup"
    BY <1>5 DEF RequestsOK, Lookup, Idle
  <2>2. CASE Conflict(r) # {}
    BY <1>3, <1>5, <2>2 DEF Lookup
  <2>3. CASE Conflict(r) = {}
    <3> DEFINE x == [req[r] EXCEPT !.pc = IF Sends(r) THEN "queue" ELSE "write"]
    <3>1. req' = [req EXCEPT ![r] = x]
      BY <1>5, <2>3 DEF Lookup, RequestsOK
    <3>2. SlotOf(x, Senders')
      BY <2>1 DEF Slot, SlotOf, Sends, Steps
    <3> HIDE DEF x
    <3> QED BY <1>2, <3>1, <3>2
  <2> QED BY <2>2, <2>3
<1>6. ASSUME NEW r \in Requests, Queue(r) PROVE RequestsOK'
  <2>1. Slot(req[r]) /\ req[r].pc = "queue"
    BY <1>6 DEF RequestsOK, Queue, Idle
  <2>2. req[r].user \in Senders'
    <3>1. req[r].user \in Users /\ Add(r)
      BY <1>6, <2>1 DEF Slot, SlotOf, Queue
    <3>2. Adds(Len(jobs) + 1, req[r].user)
      BY <3>1, AddAdds
    <3>3. PICK u \in Users : u = req[r].user
      BY <3>1
    <3>4. Sent(u)'
      BY <3>2, <3>3 DEF Adds, Sent
    <3> QED BY <3>3, <3>4 DEF Senders
  <2> DEFINE x == [req[r] EXCEPT !.queued = TRUE, !.pc = "write"]
  <2>3. req' = [req EXCEPT ![r] = x]
    BY <1>6 DEF Queue, RequestsOK
  <2>4. SlotOf(x, Senders')
    BY <2>1, <2>2 DEF Slot, SlotOf, Steps
  <2> HIDE DEF x
  <2> QED BY <1>2, <2>3, <2>4
<1>7. ASSUME NEW r \in Requests, Write(r) \/ Fails(r) PROVE RequestsOK'
  BY <1>3, <1>7 DEF Write, Fails
<1>8. CASE Start
  BY <1>1, <1>8 DEF Start, Others
<1>9. ASSUME NEW j \in DOMAIN jobs, Complete(j) \/ JobFails(j) \/ Promote(j) \/ Reclaim(j) PROVE RequestsOK'
  BY <1>1, <1>9 DEF Complete, JobFails, Promote, Reclaim, Others
<1>10. CASE Crash
  BY <1>10 DEF Crash, RequestsOK
<1>11. CASE UNCHANGED vars
  BY <1>1, <1>11 DEF vars
<1> QED BY <1>3, <1>4, <1>5, <1>6, <1>7, <1>8, <1>9, <1>10, <1>11 DEF Next

---------------------------------------------------------------------------
(* The theorems *)

LEMMA IInvInit == Init => IInv
<1> SUFFICES ASSUME Init PROVE IInv
  OBVIOUS
<1> USE DEF Init
<1>1. DOMAIN jobs = {} /\ Len(jobs) = 0 /\ jobs \in Seq(JobRecords) /\ wait \in Seq(Pictures)
  BY EmptySeq
<1>2. Range(wait) = {} /\ IsInjective(wait)
  BY DEF Range, IsInjective
<1>3. QueueOK
  BY <1>1, <1>2, ProfileAssumption DEF QueueOK
<1>4. ChildrenOK
  <2>1. Active = {}
    BY <1>1 DEF Active
  <2> QED BY <2>1, FS_EmptySet, ProfileAssumption DEF ChildrenOK
<1>5. OrderOK /\ BesideOK
  BY <1>1 DEF OrderOK, BesideOK
<1>6. BucketOK
  BY <1>1 DEF BucketOK, AtMostOne
<1>7. TableOK
  BY ProfileAssumption DEF TableOK, AtMostOne
<1>8. RequestsOK
  BY DEF RequestsOK
<1> QED BY <1>3, <1>4, <1>5, <1>6, <1>7, <1>8 DEF IInv

LEMMA IInvStep == IInv /\ [Next]_vars => IInv'
BY QueueStep, ChildrenStep, OrderStep, BesideStep, BucketStep, TableStep, RequestsStep DEF IInv

LEMMA Inductive == Spec => []IInv
BY IInvInit, IInvStep, PTL DEF Spec

\* The type invariant, the bound on children among it: no job is in two
\* children, and no more than Concurrency are worked on.
THEOREM TypeInvariant == Spec => []TypeOK
<1>1. IInv => TypeOK
  <2> SUFFICES ASSUME IInv PROVE TypeOK
    OBVIOUS
  <2> USE DEF IInv
  <2>1. ASSUME NEW S, NEW T, AtMostOne(S, T) PROVE S \subseteq T /\ Cardinality(S) <= 1
    BY <2>1, FS_EmptySet, FS_Singleton, SMTT(20) DEF AtMostOne
  <2>2. \A u \in Users : Cardinality(phone[u]) <= 1
    BY <2>1 DEF TableOK
  <2>3. ASSUME NEW u \in Users PROVE object[u] \subseteq Pictures /\ Cardinality(object[u]) <= 1
    <3>1. DOMAIN jobs \subseteq Pictures
      BY JobsAre, ProfileAssumption DEF QueueOK, Pictures
    <3>2. AtMostOne(object[u], {i \in DOMAIN jobs : jobs[i].user = u /\ jobs[i].tries > 0})
      BY DEF BucketOK
    <3> QED BY <2>1, <3>1, <3>2
  <2>4. \A r \in Requests : req[r] = Idle \/ req[r].pc \in Steps
    BY DEF RequestsOK, Slot, SlotOf
  <2> QED BY <2>2, <2>3, <2>4 DEF TypeOK, TableOK, QueueOK, ChildrenOK, JobRecords
<1> QED BY <1>1, Inductive, PTL

\* Whoever's profile names an avatar has one, or a picture of theirs is where
\* a worker, the backoff or the stalled check will find it, or has failed
\* (AvatarIsOnItsWay): an update queues before it writes, and the queue loses
\* nothing.
THEOREM AvatarsArrive == Spec => []AvatarIsOnItsWay
<1>1. IInv => AvatarIsOnItsWay
  <2> SUFFICES ASSUME IInv, NEW u \in Users, image[u], Link(u) = {}
               PROVE  \E j \in DOMAIN jobs :
                        /\ jobs[j].user = u /\ jobs[j].state # "completed"
                        /\ jobs[j].state = "waiting" => j \in Range(wait)
    BY DEF AvatarIsOnItsWay
  <2>1. object[u] = {}
    BY DEF Link, SignURL
  <2>2. PICK j \in DOMAIN jobs : jobs[j].user = u
    BY DEF IInv, TableOK, Sent
  <2> QED BY <2>1, <2>2 DEF IInv, BucketOK, QueueOK
<1> QED BY <1>1, Inductive, PTL

\* A 409 tells the client that the number is someone's, and by its code
\* whether the picture was queued (ConflictsTellWhatWasDone).
THEOREM ConflictsTell == Spec => []ConflictsTellWhatWasDone
<1>1. IInv => ConflictsTellWhatWasDone
  <2> SUFFICES ASSUME IInv, NEW r \in Requests, NEW code \in Conflict(r)
               PROVE  /\ Status(code) = 409 /\ Taken(req[r].phone)
                      /\ req[r].queued => code = "P2002"
    BY DEF ConflictsTellWhatWasDone
  <2>1. CASE code = "PHONE_EXISTED" /\ req[r].pc = "lookup" /\ Taken(req[r].phone)
    <3>1. Slot(req[r])
      BY <2>1 DEF IInv, RequestsOK, Idle
    <3> QED BY <2>1, <3>1 DEF Slot, SlotOf, Status
  <2>2. CASE code = "P2002" /\ ~Unique(r)
    BY <2>2 DEF Status, PrismaStatus, Unique, Taken
  <2> QED BY <2>1, <2>2 DEF Conflict
<1> QED BY <1>1, Inductive, PTL

\* An older picture takes the place of a newer one only if it had to be tried
\* again, or the newer one was started beside it (NewerPicturesWin): first
\* runs start in the order of the list, which is that of the updates.
THEOREM NewerWin == Spec => NewerPicturesWin
<1>1. IInv /\ [Next]_vars =>
        \A u \in Users : \A j \in object[u], i \in object'[u] : i < j => jobs[i].tries > 1 \/ jobs[j].beside
  <2> SUFFICES ASSUME IInv, [Next]_vars, NEW u \in Users, NEW j \in object[u], NEW i \in object'[u], i < j
               PROVE  jobs[i].tries > 1 \/ jobs[j].beside
    OBVIOUS
  <2>1. j \in DOMAIN jobs /\ jobs[j].user = u /\ jobs[j].tries > 0 /\ object[u] = {j}
    BY DEF IInv, BucketOK, AtMostOne
  <2>2. object' # object
    <3>1. i # j
      BY <2>1, JobsAre DEF IInv
    <3> QED BY <2>1, <3>1
  <2>3. PICK k \in DOMAIN jobs : Complete(k) \/ JobFails(k)
    BY <2>2, QueueSteps DEF IInv, Start, Promote, Reclaim, Crash
  <2>4. jobs[k].state = "active" /\ object' = [object EXCEPT ![jobs[k].user] = {k}]
    BY <2>2, <2>3 DEF Complete, JobFails, UploadRejects, Upload
  <2>5. i = k /\ jobs[k].user = u
    BY <2>1, <2>2, <2>4, JobsAre DEF IInv, BucketOK
  <2>6. jobs[i].tries \in Nat
    BY <2>5, JobsAre DEF IInv, JobRecords
  <2> QED BY <2>1, <2>3, <2>4, <2>5, <2>6 DEF IInv, BesideOK
<1> QED BY <1>1, Inductive, PTL DEF NewerPicturesWin, Spec
=============================================================================
