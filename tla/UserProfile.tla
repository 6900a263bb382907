---------------------------- MODULE UserProfile ----------------------------
(***************************************************************************)
(* PATCH user/profile (UserService.update) and the queue that converts and *)
(* uploads the pictures.  An update is validated, looks the phone number   *)
(* up, hands the picture to the queue, then writes the row, each an await; *)
(* the picture of a user always goes to one key,                           *)
(* `photos/${sub}_avatar.webp`.                                            *)
(* Jobs run in child processes, up to Concurrency at once, and are tried   *)
(* up to Attempts times.                                                   *)
(*                                                                         *)
(* Pictures are numbered in the order the queue accepted them.             *)
(***************************************************************************)
EXTENDS RequestGate, FiniteSets, Functions

CONSTANTS
  Users, Phones,
  Requests,      \* slots for updates being served
  Concurrency,   \* of the processor: 10
  Attempts,      \* of defaultJobOptions: 3
  MaxPictures,   \* bound: pictures queued
  MaxStalls,     \* BullMQ's maxStalledCount
  MaxCrashes     \* bound: crashes of the process

ASSUME ProfileAssumption ==
  /\ Concurrency \in Nat \ {0} /\ Attempts \in Nat \ {0}
  /\ MaxPictures \in Nat /\ MaxStalls \in Nat /\ MaxCrashes \in Nat

VARIABLES
  phone,     \* users.phone: {} (null) or {a number}
  image,     \* users.image is `${sub}_avatar.webp`, not null or a provider's url
  req,       \* what each update is doing
  jobs,      \* the pictures queued: [user, state, tries, stalls, beside]; beside
             \*   is history: started while an older one of the user was running
  wait,      \* the wait list of the queue, consumed from its head
  object,    \* the key of each user in the bucket: {} or {a picture}
  crashes

table == <<phone, image>>
queue == <<jobs, wait>>
vars == <<table, req, queue, object, crashes>>

Pictures == 1..MaxPictures
Idle == [pc |-> "idle"]
JobStates == {"waiting", "active", "delayed", "stalled", "completed", "failed"}
Steps == {"lookup", "queue", "write"}

\* The bodies clients send: a form, with one part, none, or two under a name.
\* Bound: two pictures come without a number.
Fields(parts) == {Absent, <<"text">>} \cup {<<p>> : p \in parts} \cup {<<p, p>> : p \in parts}
Forms ==
  {[multipart |-> FALSE, phone |-> Absent, image |-> Absent]} \cup
  {form \in [multipart : {TRUE}, phone : Fields(Phones), image : Fields(Files)] :
     Len(form.image) = 2 => form.phone = Absent}
Active == {j \in DOMAIN jobs : jobs[j].state = "active"}

TypeOK ==
  /\ phone \in [Users -> SUBSET Phones] /\ \A u \in Users : Cardinality(phone[u]) <= 1
  /\ image \in [Users -> BOOLEAN]
  /\ \A r \in Requests : req[r] = Idle \/ req[r].pc \in Steps
  /\ jobs \in Seq([user : Users, state : JobStates, tries : Nat, stalls : Nat, beside : BOOLEAN])
  /\ wait \in Seq(Pictures) /\ \A j \in Range(wait) : jobs[j].state = "waiting"
  /\ \A u \in Users : object[u] \subseteq Pictures /\ Cardinality(object[u]) <= 1
  /\ crashes \in 0..MaxCrashes
  /\ Cardinality(Active) <= Concurrency

Init ==
  /\ phone = [u \in Users |-> {}] /\ image = [u \in Users |-> FALSE]
  /\ req = [r \in Requests |-> Idle]
  /\ jobs = <<>> /\ wait = <<>>
  /\ object = [u \in Users |-> {}]
  /\ crashes = 0

---------------------------------------------------------------------------
(* update *)

\* UserUpdateDto.  A number sent twice is dropped, two pictures pass.
Accepted(form) ==
  /\ IsSwaggerStringNumber(TextOf(form.phone), Phones)
  /\ IsSwaggerFile(FALSE, form.image, MimetypeImage)

\* What the handler is given of each form that UploadInterceptor and the pipe
\* let through; the others are answered 400, and nothing changes.
Data(form) ==
  [phone |-> {TextOf(form.phone)[i] : i \in DOMAIN TextOf(form.phone)},
   pictures |-> Len(form.image)]
Served == {Data(form) : form \in {f \in Forms : UploadInterceptor(f) /\ Accepted(f)}}

\* updateProfile, up to the first await of the service
Receive(r, u, data) ==
  /\ req[r] = Idle
  /\ req' = [req EXCEPT ![r] =
       [pc |-> IF data.phone # {} THEN "lookup"
               ELSE IF data.pictures > 0 THEN "queue" ELSE "write",
        user |-> u, phone |-> data.phone, pictures |-> data.pictures, queued |-> FALSE]]
  /\ UNCHANGED <<table, queue, object, crashes>>

Sends(r) == req[r].pictures > 0

\* The request ends; what was done before stays.
Done(r) == req' = [req EXCEPT ![r] = Idle]

\* findUnique: anyone, the user too, has the number.
Taken(number) == \E u \in Users : number \cap phone[u] # {}

\* The unique index on users.phone.
Unique(r) == \A u \in Users \ {req[r].user} : req[r].phone \cap phone[u] = {}

\* The conflict the next step of an update will end with.
Conflict(r) ==
  IF req[r].pc = "lookup" /\ Taken(req[r].phone) THEN {"PHONE_EXISTED"}
  ELSE IF req[r].pc = "write" /\ ~Unique(r) THEN {"P2002"} ELSE {}

Lookup(r) ==
  /\ req[r].pc = "lookup"
  /\ IF Conflict(r) # {}
     THEN Done(r)
     ELSE req' = [req EXCEPT ![r].pc = IF Sends(r) THEN "queue" ELSE "write"]
  /\ UNCHANGED <<table, queue, object, crashes>>

NewJob(u) == [user |-> u, state |-> "waiting", tries |-> 0, stalls |-> 0, beside |-> FALSE]

\* Variant: the job option `lifo`.
Add_Lifo(r) ==
  /\ req[r].pictures = 1
  /\ Len(jobs) < MaxPictures
  /\ jobs' = Append(jobs, NewJob(req[r].user))
  /\ wait' = <<Len(jobs) + 1>> \o wait

\* data.image.toBuffer(): two pictures are an array, which has none.
Add(r) ==
  /\ req[r].pictures = 1
  /\ Len(jobs) < MaxPictures
  /\ jobs' = Append(jobs, NewJob(req[r].user))
  /\ wait' = Append(wait, Len(jobs) + 1)

\* Variant: the picture is queued before the number is looked up.
Queue_First(r) ==
  /\ req[r].pc \in {"lookup", "queue"} /\ Sends(r) /\ ~req[r].queued
  /\ Add(r)
  /\ req' = [req EXCEPT ![r].queued = TRUE,
                        ![r].pc = IF @ = "lookup" THEN @ ELSE "write"]
  /\ UNCHANGED <<table, object, crashes>>

\* await queue.add
Queue(r) ==
  /\ req[r].pc = "queue"
  /\ Add(r)
  /\ req' = [req EXCEPT ![r].queued = TRUE, ![r].pc = "write"]
  /\ UNCHANGED <<table, object, crashes>>

\* prisma.user.update: phone and image in one statement.
Update(r) ==
  /\ Conflict(r) = {}
  /\ phone' = [phone EXCEPT ![req[r].user] = IF req[r].phone # {} THEN req[r].phone ELSE @]
  /\ image' = [image EXCEPT ![req[r].user] = @ \/ Sends(r)]

\* The profile, or P2002 of the index.
Write(r) ==
  /\ req[r].pc = "write"
  /\ \/ Update(r) /\ Done(r)
     \/ Conflict(r) # {} /\ Done(r) /\ UNCHANGED table
  /\ UNCHANGED <<queue, object, crashes>>

\* Redis or the database fails, before or after it has done what it was told,
\* or there were two pictures: 500.
Fails(r) ==
  /\ req[r].pc \in Steps
  /\ Done(r)
  /\ \/ UNCHANGED <<table, queue>>
     \/ req[r].pc = "queue" /\ Add(r) /\ UNCHANGED table
     \/ req[r].pc = "write" /\ Update(r) /\ UNCHANGED queue
  /\ UNCHANGED <<object, crashes>>

---------------------------------------------------------------------------
(* What the link in a profile leads to: {} or {a picture}.  getSignURL signs *)
(* the bucket's address followed by whatever it is given: of these only the  *)
(* name of an avatar is there, null and a provider's url lead nowhere.       *)

SignURL(u, isAvatar) == IF isAvatar THEN object[u] ELSE {}

\* getOne, and the answer of update
Link(u) == SignURL(u, image[u])

---------------------------------------------------------------------------
(* user-image.processor *)

Others == UNCHANGED <<table, req, crashes>>
OlderRuns(j) == \E i \in Active : i < j /\ jobs[i].user = jobs[j].user
Started(j) == [jobs EXCEPT ![j].state = "active", ![j].tries = @ + 1,
                           ![j].beside = @ \/ OlderRuns(j)]

\* Variant: a job is not taken off the list while it is worked on.
Start_NoTake ==
  /\ wait # <<>> /\ Cardinality(Active) < Concurrency
  /\ UNCHANGED wait
  /\ jobs' = Started(Head(wait))
  /\ UNCHANGED object /\ Others

Start ==
  /\ wait # <<>> /\ Cardinality(Active) < Concurrency
  /\ wait' = Tail(wait)
  /\ jobs' = Started(Head(wait))
  /\ UNCHANGED object /\ Others

\* sharp, unless it is webp already; then s3.upload to the user's key, in place
\* of what is there.
Upload(j) == object' = [object EXCEPT ![jobs[j].user] = {j}]

\* Variant: s3.upload is not awaited.
Complete_NoAwait(j) ==
  /\ jobs[j].state = "active"
  /\ Upload(j) \/ UNCHANGED object
  /\ jobs' = [jobs EXCEPT ![j].state = "completed"]
  /\ UNCHANGED wait /\ Others

Complete(j) ==
  /\ jobs[j].state = "active"
  /\ Upload(j)
  /\ jobs' = [jobs EXCEPT ![j].state = "completed"]
  /\ UNCHANGED wait /\ Others

\* s3.upload throws, whatever it was: parts in parallel, then completed;
\* leavePartsOnError is off, so the key is replaced as a whole or not at all, and
\* the answer may be lost.
UploadRejects(j) == Upload(j) \/ UNCHANGED object

\* sharp or the upload rejects: attempts and backoff of defaultJobOptions.
JobFails(j) ==
  /\ jobs[j].state = "active"
  /\ UploadRejects(j)
  /\ jobs' = [jobs EXCEPT ![j].state = IF jobs[j].tries < Attempts THEN "delayed" ELSE "failed"]
  /\ UNCHANGED wait /\ Others

\* The delay of the backoff is over: to the end of the list.
Promote(j) ==
  /\ jobs[j].state = "delayed"
  /\ jobs' = [jobs EXCEPT ![j].state = "waiting"]
  /\ wait' = Append(wait, j)
  /\ UNCHANGED object /\ Others

\* The stalled check: back to the head of the list, or failed.
Reclaim(j) ==
  /\ jobs[j].state = "stalled"
  /\ IF jobs[j].stalls < MaxStalls
     THEN /\ jobs' = [jobs EXCEPT ![j].state = "waiting", ![j].stalls = @ + 1]
          /\ wait' = <<j>> \o wait
     ELSE /\ jobs' = [jobs EXCEPT ![j].state = "failed", ![j].stalls = @ + 1]
          /\ UNCHANGED wait
  /\ UNCHANGED object /\ Others

\* The process is lost, with its requests and the locks of its jobs.
Crash ==
  /\ crashes < MaxCrashes
  /\ crashes' = crashes + 1
  /\ req' = [r \in Requests |-> Idle]
  /\ jobs' = [j \in DOMAIN jobs |->
       IF j \in Active THEN [jobs[j] EXCEPT !.state = "stalled"] ELSE jobs[j]]
  /\ UNCHANGED <<table, wait, object>>

Next ==
  \/ \E r \in Requests :
       \/ \E u \in Users, data \in Served : Receive(r, u, data)
       \/ Lookup(r) \/ Queue(r) \/ Write(r) \/ Fails(r)
  \/ Start
  \/ \E j \in DOMAIN jobs : Complete(j) \/ JobFails(j) \/ Promote(j) \/ Reclaim(j)
  \/ Crash

Spec == Init /\ [][Next]_vars

---------------------------------------------------------------------------
(* Properties *)

\* A link to an avatar leads to a picture, or a picture is still to come or
\* has failed for good; and one that is to come is where a worker, the backoff
\* or the stalled check will find it, whatever dies on the way.
AvatarIsOnItsWay ==
  \A u \in Users : image[u] /\ Link(u) = {} =>
    \E j \in DOMAIN jobs :
      /\ jobs[j].user = u /\ jobs[j].state # "completed"
      /\ jobs[j].state = "waiting" => j \in Range(wait)

\* All pictures of a user go to one key, whoever writes last: an older one
\* takes the place of a newer one only if it had to be tried again, or the
\* newer one was started beside it.
NewerPicturesWin ==
  [][\A u \in Users : \A j \in object[u], i \in object'[u] :
       i < j => jobs[i].tries > 1 \/ jobs[j].beside]_vars

\* A client told of a conflict can tell what was done, whatever other updates
\* did meanwhile: someone has the number; if the lookup found that, nothing was
\* done, and only if the index did may the picture replace the avatar.
ConflictsTellWhatWasDone ==
  \A r \in Requests : \A code \in Conflict(r) :
    /\ Status(code) = 409 /\ Taken(req[r].phone)
    /\ req[r].queued => code = "P2002"
=============================================================================
