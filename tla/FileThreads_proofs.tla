------------------------- MODULE FileThreads_proofs -------------------------
(***************************************************************************)
(* Proofs about threads over the file manager, for any number of threads,  *)
(* files, blocks, calls and restarts: the locks are what LockTable says,   *)
(* and every call takes effect at one instant on files without a cache,    *)
(* although the cache of sizes is read and filled outside the mutex, also  *)
(* by threads that race on it.                                             *)
(***************************************************************************)
EXTENDS FileThreads, LockTable_proofs, SequenceTheorems

Stages == [length |-> {"look", "size", "store"},
           append |-> {"enter", "look", "size", "store", "extend", "keep"},
           read   |-> {"enter", "read"},
           write  |-> {"enter", "write", "update"}]

(* A request is none, or stands at a stage of its call.                    *)
Request(r) == \/ r = NoReq
              \/ /\ r.op \in Ops /\ r.file \in Block
                 /\ r.at \in Stages[r.op]
                 /\ r.op \in {"read", "write"} => r.blk \in Nat
                 /\ r.op = "write" => r.val \in Value

ReqOK == \A t \in Tx : Request(req[t])

(* The mutex is held exactly through the stages after Enter. *)
Within(r) == r.op \in {"append", "read", "write"} /\ r.at # "enter"

MutexOK == \A t \in Tx : mutex = t <=> Within(req[t])

(* A number of blocks the file had since the process started; after a race *)
(* it may be one that no length has read.                                  *)
Fits(n, f) == n <= Len(files[f]) /\ (raced \/ old[f] <= n)

NumberOK(r) == /\ r.at \in {"store", "extend", "keep"} => Fits(r.n, r.file)
               /\ r.at = "keep" => r.n < Len(files[r.file])

SizesOK == /\ \A f \in Block : /\ old[f] <= Len(files[f])
                               /\ open_files[f] # None => Fits(open_files[f], f)
           /\ \A t \in Tx : NumberOK(req[t])

FileInv == FileTypeOK /\ ReqOK /\ MutexOK /\ SizesOK

ThreadInv == TypeOK /\ LockCount /\ ReqOK /\ MutexOK /\ SizesOK

----------------------------------------------------------------------------
(* What a request is at most. *)
ReqType == [op : Ops \cup {"none"}, file : Block \cup {None},
            blk : Nat \cup {None}, val : Content \cup {None},
            at : {"done", "enter", "look", "size", "store", "extend",
                  "keep", "read", "write", "update"},
            n : Nat]

LEMMA NoReqIs ==
  /\ NoReq \in ReqType /\ Request(NoReq)
  /\ NoReq.op = "none" /\ NoReq.at = "done" /\ NoReq.file = None /\ NoReq.n = 0
BY DEF NoReq, ReqType, Request

(* What the invariant says of the variables. *)
LEMMA Typed ==
  ASSUME ThreadInv
  PROVE  /\ files \in [Block -> Seq(Content)]
         /\ \A f \in Block : files[f] \in Seq(Content) /\ Len(files[f]) \in Nat
         /\ open_files \in [Block -> Nat \cup {None}]
         /\ mutex \in Tx \cup {None} /\ None \notin Tx \cup Block \cup Nat
         /\ req \in [Tx -> ReqType]
         /\ reply \in [Tx -> Nat \cup Content \cup {None}]
         /\ raced \in BOOLEAN /\ old \in [Block -> Nat]
<1>1. /\ files \in [Block -> Seq(Content)]
      /\ open_files \in [Block -> Nat \cup {None}]
      /\ mutex \in Tx \cup {None}
      /\ req \in [Tx -> ReqType]
      /\ reply \in [Tx -> Nat \cup Content \cup {None}]
      /\ raced \in BOOLEAN /\ old \in [Block -> Nat]
  BY DEF ThreadInv, TypeOK, FileTypeOK, ReqType
<1>2. \A f \in Block : files[f] \in Seq(Content) /\ Len(files[f]) \in Nat
  BY <1>1, LenProperties
<1>. QED
  BY <1>1, <1>2, FileThreadsAssumption

(* Where a thread may stand in its call. *)
LEMMA StageOf ==
  ASSUME ThreadInv, NEW t \in Tx
  PROVE  /\ req[t] \in ReqType /\ Request(req[t])
         /\ ~At(t, "done") => req[t] # NoReq /\ Mine(t) \in Block /\ req[t].op \in Ops
         /\ At(t, "enter") => req[t].op \in {"append", "read", "write"}
         /\ (At(t, "look") \/ At(t, "size") \/ At(t, "store")) => req[t].op \in {"length", "append"}
         /\ (At(t, "extend") \/ At(t, "keep")) => req[t].op = "append"
         /\ At(t, "read") => req[t].op = "read"
         /\ (At(t, "write") \/ At(t, "update")) => req[t].op = "write"
<1>1. req[t] \in ReqType /\ Request(req[t])
  BY Typed DEF ThreadInv, ReqOK
<1>2. CASE req[t] = NoReq
  BY <1>1, <1>2, NoReqIs DEF At
<1>3. CASE req[t] # NoReq
  <2>1. req[t].op \in Ops /\ req[t].file \in Block /\ req[t].at \in Stages[req[t].op]
    BY <1>1, <1>3 DEF Request
  <2>. QED
    BY <1>1, <1>3, <2>1 DEF Stages, Ops, At, Mine
<1>. QED
  BY <1>2, <1>3

(* The mutex is taken by a thread that finds it free, given back by its    *)
(* holder, or left alone.                                                  *)
MutexMoves(t, r) == \/ mutex' = mutex /\ (Within(r) <=> Within(req[t]))
                    \/ mutex = None /\ mutex' = t /\ Within(r)
                    \/ mutex = t /\ mutex' = None /\ ~Within(r)

LEMMA MutexKept ==
  ASSUME ThreadInv, NEW t \in Tx, NEW r \in ReqType,
         req' = [req EXCEPT ![t] = r], MutexMoves(t, r)
  PROVE  MutexOK' /\ mutex' \in Tx \cup {None}
<1>1. req \in [Tx -> ReqType] /\ mutex \in Tx \cup {None} /\ None \notin Tx
  BY Typed
<1>2. req'[t] = r /\ \A u \in Tx \ {t} : req'[u] = req[u]
  BY <1>1
<1>3. \A u \in Tx : mutex = u <=> Within(req[u])
  BY DEF ThreadInv, MutexOK
<1>4. \A u \in Tx : mutex' = u <=> Within(req'[u])
  BY <1>1, <1>2, <1>3 DEF MutexMoves
<1>5. MutexOK'
  BY <1>4 DEF MutexOK, Within
<1>6. mutex' \in Tx \cup {None}
  BY <1>1 DEF MutexMoves
<1>. QED
  BY <1>5, <1>6

(* The holder of the mutex is at a stage after Enter. *)
LEMMA HolderStage ==
  ASSUME ReqOK', MutexOK', mutex' \in Tx \cup {None}, mutex' # None
  PROVE  req'[mutex'].at \notin {"done", "enter"}
<1>1. PICK u \in Tx : mutex' = u
  OBVIOUS
<1>2. req'[u].op \in {"append", "read", "write"} /\ req'[u].at # "enter"
  BY <1>1 DEF MutexOK, Within
<1>3. req'[u] # NoReq
  BY <1>2 DEF NoReq
<1>4. req'[u].at \in Stages[req'[u].op]
  BY <1>3 DEF ReqOK, Request
<1>. QED
  BY <1>1, <1>2, <1>4 DEF Stages

(* One thread goes on to r: files grow, the cache takes a number that will *)
(* fit or stays, and r carries one that will.                              *)
WillFit(n, f) == n <= Len(files'[f]) /\ (raced' \/ old'[f] <= n)

NumberWillDo(r) == /\ r.at \in {"store", "extend", "keep"} => WillFit(r.n, r.file)
                   /\ r.at = "keep" => r.n < Len(files'[r.file])

Grows == /\ files' \in [Block -> Seq(Content)]
         /\ \A f \in Block : Len(files[f]) <= Len(files'[f])
         /\ raced' \in BOOLEAN /\ (raced => raced') /\ old' = old

Caches == /\ open_files' \in [Block -> Nat \cup {None}]
          /\ \A f \in Block : \/ open_files'[f] = open_files[f]
                              \/ WillFit(open_files'[f], f)

LEMMA StepInv ==
  ASSUME ThreadInv, NEW t \in Tx, NEW r \in ReqType, req' = [req EXCEPT ![t] = r],
         Request(r), MutexMoves(t, r), Grows, Caches, NumberWillDo(r),
         reply' \in [Tx -> Nat \cup Content \cup {None}]
  PROVE  FileInv'
<1>1. /\ req \in [Tx -> ReqType] /\ old \in [Block -> Nat]
      /\ open_files \in [Block -> Nat \cup {None}]
      /\ \A f \in Block : Len(files[f]) \in Nat
  BY Typed
<1>2. req' \in [Tx -> ReqType] /\ req'[t] = r /\ \A u \in Tx \ {t} : req'[u] = req[u]
  BY <1>1
<1>3. \A f \in Block : Len(files'[f]) \in Nat
  BY LenProperties DEF Grows
<1>4. ReqOK'
  <2>1. \A u \in Tx : Request(req'[u])
    BY <1>2 DEF ThreadInv, ReqOK
  <2>. QED
    BY <2>1 DEF ReqOK, Request
<1>5. MutexOK' /\ mutex' \in Tx \cup {None}
  BY MutexKept
<1>6. FileTypeOK'
  BY <1>1, <1>2, <1>4, <1>5, HolderStage DEF FileTypeOK, ReqType, Grows, Caches
<1>7. ASSUME NEW f \in Block, NEW n \in Nat, Fits(n, f)
      PROVE  WillFit(n, f)
  BY <1>1, <1>3, <1>7 DEF Fits, WillFit, Grows
<1>8. ASSUME NEW f \in Block
      PROVE  old'[f] <= Len(files'[f]) /\ (open_files'[f] # None => WillFit(open_files'[f], f))
  <2>1. old[f] <= Len(files[f]) /\ (open_files[f] # None => Fits(open_files[f], f))
    BY DEF ThreadInv, SizesOK
  <2>2. old'[f] <= Len(files'[f])
    BY <1>1, <1>3, <2>1 DEF Grows
  <2>3. ASSUME open_files'[f] = open_files[f], open_files[f] # None
        PROVE  WillFit(open_files'[f], f)
    <3>1. PICK n \in Nat : n = open_files[f]
      BY <1>1, <2>3
    <3>. QED
      BY <1>7, <2>1, <2>3, <3>1
  <2>. QED
    BY <2>2, <2>3 DEF Caches
<1>9. ASSUME NEW u \in Tx \ {t}
      PROVE  NumberWillDo(req'[u])
  <2>1. NumberOK(req[u])
    BY DEF ThreadInv, SizesOK
  <2>2. CASE req[u].at \in {"store", "extend", "keep"}
    <3>1. Mine(u) \in Block /\ req[u].n \in Nat
      BY <1>1, <2>2, StageOf DEF At, ReqType
    <3>2. PICK f \in Block, n \in Nat : f = req[u].file /\ n = req[u].n
      BY <3>1 DEF Mine
    <3>3. Fits(n, f) /\ (req[u].at = "keep" => n < Len(files[f]))
      BY <2>1, <2>2, <3>2 DEF NumberOK
    <3>4. WillFit(n, f) /\ (req[u].at = "keep" => n < Len(files'[f]))
      BY <1>1, <1>3, <1>7, <3>3 DEF Grows
    <3>5. req'[u].file = f /\ req'[u].n = n /\ req'[u].at = req[u].at
      BY <1>2, <3>2
    <3>. QED
      BY <3>4, <3>5 DEF NumberWillDo
  <2>3. CASE req[u].at \notin {"store", "extend", "keep"}
    BY <1>2, <2>3 DEF NumberWillDo
  <2>. QED
    BY <2>2, <2>3
<1>10. SizesOK'
  <2>1. \A u \in Tx : NumberWillDo(req'[u])
    BY <1>2, <1>9
  <2>. QED
    BY <1>8, <2>1 DEF SizesOK, NumberOK, Fits, NumberWillDo, WillFit
<1>. QED
  BY <1>4, <1>5, <1>6, <1>10 DEF FileInv

----------------------------------------------------------------------------
(* The promise, as the callers see it.                                     *)
Promise == [Blocks!BlockNext]_(Blocks!blockVars)

LEMMA CallsAre ==
  ASSUME ThreadInv, NEW t \in Tx, NEW r \in ReqType, req' = [req EXCEPT ![t] = r]
  PROVE  /\ Calls[t] = Pending(req[t])
         /\ Calls' = [Calls EXCEPT ![t] = Pending(r)]
<1>1. req \in [Tx -> ReqType]
  BY Typed
<1>2. Calls = [u \in Tx |-> Pending(req[u])] /\ Calls' = [u \in Tx |-> Pending(req'[u])]
  BY DEF Calls, Pending
<1>3. \A u \in Tx : req'[u] = IF u = t THEN r ELSE req[u]
  BY <1>1
<1>. QED
  BY <1>2, <1>3

(* What a thread outside the last stage of a write waits for. *)
LEMMA PendingIs ==
  ASSUME NEW r, r.at # "update"
  PROVE  /\ Pending(r).op = IF r.at = "keep" THEN "added" ELSE r.op
         /\ Pending(r).file = r.file /\ Pending(r).blk = r.blk /\ Pending(r).val = r.val
BY DEF Pending

(* Two threads are in the map at once only while one of them is in a       *)
(* length: everybody else has the mutex.                                   *)
Races == /\ raced' \in BOOLEAN /\ old' = old /\ (raced => raced')
         /\ raced' => raced \/ \E u \in Tx : Calls[u].op = "length"

LEMMA AccessRaces ==
  ASSUME ThreadInv, NEW t \in Tx, Accesses(t), MapAccess(t)
  PROVE  Races
<1>1. raced' \in BOOLEAN /\ old' = old /\ (raced => raced')
  BY Typed DEF MapAccess
<1>2. ASSUME raced', ~raced
      PROVE  \E u \in Tx : Calls[u].op = "length"
  <2>1. PICK u \in Tx \ {t} : Accesses(u)
    BY <1>2 DEF MapAccess, Overlaps
  <2>2. \A v \in Tx : Accesses(v) => req[v].op = "length" \/ mutex = v
    <3>1. ASSUME NEW v \in Tx, Accesses(v), req[v].op # "length"
          PROVE  Within(req[v])
      BY <3>1, StageOf DEF Accesses, Assigns, Within, At
    <3>. QED
      BY <3>1 DEF ThreadInv, MutexOK
  <2>3. PICK v \in Tx : Accesses(v) /\ req[v].op = "length"
    BY <2>1, <2>2
  <2>4. req[v].at # "update" /\ req[v].at # "keep"
    BY <2>3, StageOf DEF At
  <2>5. Calls[v].op = "length"
    BY <2>3, <2>4, PendingIs DEF Calls
  <2>. QED
    BY <2>5
<1>. QED
  BY <1>1, <1>2 DEF Races

(* Without an access nothing races. *)
LEMMA NoAccessRaces ==
  ASSUME ThreadInv, NoAccess
  PROVE  Races
BY Typed DEF Races, NoAccess

(* A step that its caller does not see. *)
LEMMA SilentStep ==
  ASSUME ThreadInv, NEW t \in Tx, NEW r \in ReqType, req' = [req EXCEPT ![t] = r],
         Races, UNCHANGED <<files, reply>>, Pending(r) = Pending(req[t])
  PROVE  Promise
<1>1. req \in [Tx -> ReqType]
  BY Typed
<1>2. Calls' = Calls
  <2>1. \A u \in Tx : req'[u] = IF u = t THEN r ELSE req[u]
    BY <1>1
  <2>2. \A u \in Tx : Pending(req'[u]) = Pending(req[u])
    BY <2>1
  <2>. QED
    BY <2>2 DEF Calls, Pending
<1>3. Blocks!BlockStep(t)
  BY <1>2 DEF Blocks!BlockStep, Blocks!Asked, Races
<1>. QED
  BY <1>3 DEF Promise, Blocks!BlockNext

(* A thread's call ends with the answer v. *)
LEMMA Answered ==
  ASSUME ThreadInv, NEW t \in Tx, NEW v, req' = [req EXCEPT ![t] = NoReq],
         reply' = [reply EXCEPT ![t] = v]
  PROVE  Blocks!Answer(t, v)
<1>1. Pending(NoReq) = Blocks!NoCall
  BY NoReqIs DEF Pending, NoReq, Blocks!NoCall
<1>2. Calls' = [Calls EXCEPT ![t] = Pending(NoReq)]
  BY NoReqIs, CallsAre
<1>. QED
  BY <1>1, <1>2 DEF Blocks!Answer

----------------------------------------------------------------------------
(* A request at another stage of the same call. *)
Moved(r, at, n) == [op |-> r.op, file |-> r.file, blk |-> r.blk, val |-> r.val,
                    at |-> at, n |-> n]

LEMMA MovedIs ==
  ASSUME ThreadInv, NEW t \in Tx, NEW n \in Nat, ~At(t, "done"),
         NEW at \in Stages[req[t].op]
  PROVE  /\ Moved(req[t], at, n) \in ReqType /\ Request(Moved(req[t], at, n))
         /\ [req EXCEPT ![t].at = at, ![t].n = n] = [req EXCEPT ![t] = Moved(req[t], at, n)]
         /\ req[t].n = n =>
               [req EXCEPT ![t].at = at] = [req EXCEPT ![t] = Moved(req[t], at, n)]
<1>1. req \in [Tx -> ReqType] /\ req[t].op \in Ops
  BY Typed, StageOf
<1>2. req[t] \in ReqType /\ at \in {"enter", "look", "size", "store", "extend", "keep",
                                    "read", "write", "update"}
  BY <1>1 DEF Stages, Ops
<1>3. Moved(req[t], at, n) \in ReqType
  BY <1>2 DEF Moved, ReqType
<1>4. [req[t] EXCEPT !.at = at] = Moved(req[t], at, req[t].n)
  BY <1>2 DEF Moved, ReqType
<1>5. [Moved(req[t], at, req[t].n) EXCEPT !.n = n] = Moved(req[t], at, n)
  BY DEF Moved
<1>6. [req EXCEPT ![t].at = at, ![t].n = n] = [req EXCEPT ![t] = Moved(req[t], at, n)]
  BY <1>1, <1>4, <1>5
<1>7. req[t].n = n => [req EXCEPT ![t].at = at] = [req EXCEPT ![t] = Moved(req[t], at, n)]
  BY <1>1, <1>4
<1>8. Request(Moved(req[t], at, n))
  BY <1>1, StageOf DEF Moved, Request
<1>. QED
  BY <1>3, <1>6, <1>7, <1>8

LEMMA GoIs ==
  ASSUME ThreadInv, NEW t \in Tx, ~At(t, "done"), NEW at \in Stages[req[t].op],
         NEW n \in Nat, req[t].n = n, Go(t, at)
  PROVE  req' = [req EXCEPT ![t] = Moved(req[t], at, n)]
<1>1. /\ Moved(req[t], at, n) \in ReqType
      /\ req[t].n = n =>
            [req EXCEPT ![t].at = at] = [req EXCEPT ![t] = Moved(req[t], at, n)]
  BY MovedIs
<1>2. req' = [req EXCEPT ![t].at = at]
  BY DEF Go
<1>. QED
  BY <1>1, <1>2, Zenon

(* A thread goes on inside its call and touches no file. *)
LEMMA StageStep ==
  ASSUME ThreadInv, NEW t \in Tx, NEW n \in Nat, NEW at \in Stages[req[t].op],
         at \notin {"enter", "keep", "update"}, req[t].at \notin {"done", "keep", "update"},
         req' = [req EXCEPT ![t] = Moved(req[t], at, n)],
         at \in {"store", "extend"} => WillFit(n, Mine(t)),
         UNCHANGED <<files, reply>>, Caches, Races,
         MutexMoves(t, Moved(req[t], at, n))
  PROVE  FileInv' /\ Promise
<1>1. ~At(t, "done") /\ req[t] \in ReqType
  BY StageOf DEF At
<1>2. PICK r \in ReqType : r = Moved(req[t], at, n)
  BY <1>1, MovedIs
<1>3. Request(r)
  BY <1>1, <1>2, MovedIs
<1>4. r.at = at /\ r.n = n /\ r.file = Mine(t) /\ Pending(r) = Pending(req[t])
  BY <1>2 DEF Moved, Mine, Pending
<1>5. NumberWillDo(r)
  BY <1>4 DEF NumberWillDo
<1>6. Grows
  BY Typed DEF Grows, Races
<1>7. reply' \in [Tx -> Nat \cup Content \cup {None}]
  BY Typed
<1>8. FileInv'
  BY <1>2, <1>3, <1>5, <1>6, <1>7, StepInv
<1>9. Promise
  BY <1>2, <1>4, SilentStep
<1>. QED
  BY <1>8, <1>9

(* The cache is left alone. *)
LEMMA CacheStays ==
  ASSUME ThreadInv, UNCHANGED open_files
  PROVE  Caches
BY Typed DEF Caches

(* A number that fits in a file that has only grown still does. *)
LEMMA FitsOn ==
  ASSUME ThreadInv, NEW f \in Block, NEW n \in Nat, Fits(n, f), UNCHANGED files, Races
  PROVE  WillFit(n, f)
BY DEF Fits, WillFit, Races

LEMMA EnterStep ==
  ASSUME ThreadInv, NEW t \in Tx, Enter(t)
  PROVE  FileInv' /\ Promise
<1>1. /\ req[t].at = "enter" /\ req[t].op \in {"append", "read", "write"} /\ ~At(t, "done")
      /\ req[t] \in ReqType
  BY StageOf DEF Enter, At
<1>2. PICK at \in Stages[req[t].op] :
        /\ at = IF req[t].op = "append" THEN "look" ELSE req[t].op
        /\ at \in {"look", "read", "write"}
  BY <1>1 DEF Stages
<1>3. PICK n \in Nat : n = req[t].n
  BY <1>1 DEF ReqType
<1>4. req' = [req EXCEPT ![t] = Moved(req[t], at, n)]
  <2>1. Go(t, at)
    BY <1>2 DEF Enter
  <2>. QED
    BY <1>1, <1>3, <2>1, GoIs, Zenon
<1>5. MutexMoves(t, Moved(req[t], at, n))
  BY <1>1, <1>2 DEF MutexMoves, Enter, Within, Moved
<1>6. Caches /\ Races
  BY CacheStays, NoAccessRaces DEF Enter
<1>. QED
  BY <1>1, <1>2, <1>4, <1>5, <1>6, StageStep DEF Enter

LEMMA LookMissStep ==
  ASSUME ThreadInv, NEW t \in Tx, LookMiss(t)
  PROVE  FileInv' /\ Promise
<1>1. /\ req[t].at = "look" /\ req[t].op \in {"append", "length"} /\ ~At(t, "done")
      /\ req[t] \in ReqType /\ Accesses(t)
  BY StageOf DEF LookMiss, At, Accesses
<1>2. PICK at \in Stages[req[t].op] : at = "size"
  BY <1>1 DEF Stages
<1>3. PICK n \in Nat : n = req[t].n
  BY <1>1 DEF ReqType
<1>4. req' = [req EXCEPT ![t] = Moved(req[t], at, n)]
  <2>1. Go(t, at)
    BY <1>2 DEF LookMiss
  <2>. QED
    BY <1>1, <1>3, <2>1, GoIs, Zenon
<1>5. MutexMoves(t, Moved(req[t], at, n))
  BY <1>1, <1>2 DEF MutexMoves, LookMiss, Within, Moved
<1>6. Caches /\ Races
  BY <1>1, CacheStays, AccessRaces DEF LookMiss
<1>. QED
  BY <1>1, <1>2, <1>4, <1>5, <1>6, StageStep DEF LookMiss

(* The file system's answer is the true length. *)
LEMMA FileSizeStep ==
  ASSUME ThreadInv, NEW t \in Tx, FileSize(t)
  PROVE  FileInv' /\ Promise
<1>1. /\ req[t].at = "size" /\ req[t].op \in {"append", "length"} /\ ~At(t, "done")
      /\ req[t] \in ReqType /\ Mine(t) \in Block
  BY StageOf DEF FileSize, At
<1>2. PICK at \in Stages[req[t].op] : at = "store"
  BY <1>1 DEF Stages
<1>3. PICK n \in Nat : n = Length(Mine(t))
  BY <1>1, Typed DEF Length
<1>4. req' = [req EXCEPT ![t] = Moved(req[t], at, n)]
  BY <1>1, <1>2, <1>3, MovedIs DEF FileSize
<1>5. MutexMoves(t, Moved(req[t], at, n))
  BY <1>1, <1>2 DEF MutexMoves, FileSize, Within, Moved
<1>6. Caches /\ Races
  BY CacheStays, NoAccessRaces DEF FileSize
<1>7. Fits(n, Mine(t))
  BY <1>1, <1>3 DEF Fits, Length, ThreadInv, SizesOK
<1>8. WillFit(n, Mine(t))
  BY <1>1, <1>6, <1>7, FitsOn DEF FileSize
<1>. QED
  BY <1>1, <1>2, <1>4, <1>5, <1>6, <1>8, StageStep DEF FileSize

(* A call returns v: the mutex is free if it was the thread's.             *)
LEMMA ReturnMoves ==
  ASSUME ThreadInv, NEW t \in Tx, NEW v, Return(t, v)
  PROVE  /\ req' = [req EXCEPT ![t] = NoReq] /\ MutexMoves(t, NoReq)
         /\ NoReq \in ReqType /\ Request(NoReq) /\ NumberWillDo(NoReq)
         /\ Blocks!Answer(t, v)
<1>1. /\ NoReq \in ReqType /\ Request(NoReq) /\ NoReq.op = "none" /\ NoReq.at = "done"
      /\ req' = [req EXCEPT ![t] = NoReq] /\ reply' = [reply EXCEPT ![t] = v]
  BY NoReqIs DEF Return
<1>2. mutex = t <=> Within(req[t])
  BY DEF ThreadInv, MutexOK
<1>3. MutexMoves(t, NoReq)
  BY <1>1, <1>2 DEF MutexMoves, Return, Within
<1>4. NumberWillDo(NoReq)
  BY <1>1 DEF NumberWillDo
<1>. QED
  BY <1>1, <1>3, <1>4, Answered

(* length has its number n, which fits: append goes on, or n is the answer. *)
LEMMA FoundStep ==
  ASSUME ThreadInv, NEW t \in Tx, NEW n \in Nat, Found(t, n), WillFit(n, Mine(t)),
         At(t, "look") \/ At(t, "store"), UNCHANGED files, Caches, Races
  PROVE  FileInv' /\ Promise
<1>1. /\ req[t].at \in {"look", "store"} /\ req[t] \in ReqType /\ Mine(t) \in Block
      /\ ~At(t, "done") /\ req[t].op \in {"append", "length"}
  BY StageOf DEF At
<1>2. CASE req[t].op = "append"
  <2>1. PICK at \in Stages[req[t].op] : at = "extend"
    BY <1>2 DEF Stages
  <2>2. req' = [req EXCEPT ![t] = Moved(req[t], at, n)] /\ UNCHANGED <<mutex, reply>>
    BY <1>1, <1>2, <2>1, MovedIs DEF Found
  <2>3. MutexMoves(t, Moved(req[t], at, n))
    BY <1>1, <1>2, <2>1, <2>2 DEF MutexMoves, Within, Moved
  <2>. QED
    BY <1>1, <2>1, <2>2, <2>3, StageStep
<1>3. CASE req[t].op = "length"
  <2>1. Return(t, n)
    BY <1>3 DEF Found
  <2>2. reply' \in [Tx -> Nat \cup Content \cup {None}]
    BY <2>1, Typed DEF Return
  <2>3. Grows
    BY Typed DEF Grows, Races
  <2>4. FileInv'
    BY <2>1, <2>2, <2>3, ReturnMoves, StepInv
  <2>5. Calls[t].op = "length" /\ Calls[t].file = Mine(t)
    BY <1>1, <1>3, PendingIs DEF Calls, Mine
  <2>6. n \in Blocks!Floor(Blocks!Own(t))..Len(Blocks!Blocks(t))
    <3>1. n <= Len(files[Mine(t)]) /\ (raced' \/ old[Mine(t)] <= n)
      BY DEF WillFit, Races
    <3>2. Len(files[Mine(t)]) \in Nat /\ old[Mine(t)] \in Nat
      BY <1>1, Typed
    <3>. QED
      BY <2>5, <3>1, <3>2 DEF Blocks!Floor, Blocks!Own, Blocks!Blocks
  <2>7. Blocks!Sizes(t)
    BY <2>1, <2>5, <2>6, ReturnMoves DEF Blocks!Sizes, Blocks!Asked
  <2>8. Blocks!BlockStep(t)
    BY <2>7 DEF Blocks!BlockStep, Blocks!Asked, Races
  <2>. QED
    BY <2>4, <2>8 DEF Promise, Blocks!BlockNext
<1>. QED
  BY <1>1, <1>2, <1>3

(* What a look finds fits, race or not. *)
LEMMA LookHitStep ==
  ASSUME ThreadInv, NEW t \in Tx, LookHit(t)
  PROVE  FileInv' /\ Promise
<1>1. At(t, "look") /\ Mine(t) \in Block /\ Accesses(t)
  BY StageOf DEF LookHit, At, Accesses
<1>2. Caches /\ Races /\ UNCHANGED files
  BY <1>1, CacheStays, AccessRaces DEF LookHit
<1>3. PICK n \in Entries(Mine(t)) \ {None} : Found(t, n)
  BY DEF LookHit
<1>4. n \in Nat /\ WillFit(n, Mine(t))
  <2>1. CASE raced'
    <3>1. Len(files[Mine(t)]) \in Nat
      BY <1>1, Typed
    <3>. QED
      BY <1>2, <2>1, <3>1 DEF Entries, Length, WillFit
  <2>2. CASE ~raced'
    <3>1. n = open_files[Mine(t)] /\ n # None
      BY <2>2 DEF Entries
    <3>2. n \in Nat /\ Fits(n, Mine(t))
      BY <1>1, <3>1, Typed DEF ThreadInv, SizesOK
    <3>. QED
      BY <1>1, <1>2, <3>2, FitsOn
  <2>. QED
    BY <2>1, <2>2
<1>. QED
  BY <1>1, <1>2, <1>3, <1>4, FoundStep

LEMMA StoreStep ==
  ASSUME ThreadInv, NEW t \in Tx, Store(t)
  PROVE  FileInv' /\ Promise
<1>1. /\ At(t, "store") /\ Mine(t) \in Block /\ Accesses(t) /\ req[t] \in ReqType
      /\ req[t].at = "store"
  BY StageOf DEF Store, At, Accesses, Assigns
<1>2. Races /\ UNCHANGED files
  BY <1>1, AccessRaces DEF Store
<1>3. PICK n \in Nat : n = req[t].n
  BY <1>1 DEF ReqType
<1>4. Fits(n, Mine(t))
  BY <1>1, <1>3 DEF ThreadInv, SizesOK, NumberOK, Mine
<1>5. WillFit(n, Mine(t))
  BY <1>1, <1>2, <1>4, FitsOn
<1>6. Caches
  BY <1>1, <1>3, <1>5, Typed DEF Caches, Store
<1>. QED
  BY <1>1, <1>2, <1>3, <1>5, <1>6, FoundStep DEF Store

----------------------------------------------------------------------------
(* A sequence with a block put into it, or behind a gap of zeros. *)
LEMMA PutIs ==
  ASSUME NEW s \in Seq(Content), NEW b \in Nat, NEW v \in Content
  PROVE  /\ Put(s, b, v) \in Seq(Content)
         /\ Len(s) <= Len(Put(s, b, v))
         /\ Blocks!Put(s, b, v) = Put(s, b, v)
<1>1. Len(s) \in Nat
  BY LenProperties
<1>2. CASE b < Len(s)
  <2>1. PICK c \in 1..Len(s) : c = b + 1
    BY <1>1, <1>2
  <2>2. [s EXCEPT ![c] = v] \in Seq(Content) /\ Len([s EXCEPT ![c] = v]) = Len(s)
    BY <2>1, ExceptSeq
  <2>. QED
    BY <1>1, <1>2, <2>1, <2>2 DEF Put, Blocks!Put
<1>3. CASE ~(b < Len(s))
  <2>1. Grown(s, b) = Blocks!Grown(s, b)
    BY DEF Grown, Blocks!Grown
  <2>2. \A i \in 1..b : (IF i <= Len(s) THEN s[i] ELSE Zero) \in Content
    <3>1. \A i \in 1..Len(s) : s[i] \in Content
      BY ElementOfSeq
    <3>. QED
      BY <1>1, <3>1 DEF Content
  <2>3. Grown(s, b) \in Seq(Content) /\ Len(Grown(s, b)) = b
    BY <2>2, IsASeq DEF Grown
  <2>4. Put(s, b, v) = Append(Grown(s, b), v) /\ Blocks!Put(s, b, v) = Append(Grown(s, b), v)
    BY <1>3, <2>1 DEF Put, Blocks!Put
  <2>5. Append(Grown(s, b), v) \in Seq(Content) /\ Len(Append(Grown(s, b), v)) = b + 1
    BY <2>3, AppendProperties
  <2>. QED
    BY <1>1, <1>3, <2>4, <2>5
<1>. QED
  BY <1>2, <1>3

(* One file becomes s, which is not shorter. *)
LEMMA FileGrows ==
  ASSUME ThreadInv, NEW f \in Block, NEW s \in Seq(Content), Len(files[f]) <= Len(s),
         files' = [files EXCEPT ![f] = s], NoAccess
  PROVE  Grows /\ files'[f] = s
<1>1. /\ files \in [Block -> Seq(Content)] /\ raced \in BOOLEAN
      /\ \A g \in Block : Len(files[g]) \in Nat
  BY Typed
<1>2. \A g \in Block : files'[g] = IF g = f THEN s ELSE files[g]
  BY <1>1
<1>3. \A g \in Block : Len(files[g]) <= Len(files'[g])
  BY <1>1, <1>2
<1>. QED
  BY <1>1, <1>2, <1>3 DEF Grows, NoAccess

(* The block is at the end of the file, whatever number the append has. *)
LEMMA ExtendStep ==
  ASSUME ThreadInv, NEW t \in Tx, Extend(t)
  PROVE  FileInv' /\ Promise
<1>1. /\ req[t].at = "extend" /\ req[t].op = "append" /\ ~At(t, "done")
      /\ req[t] \in ReqType /\ Mine(t) \in Block
  BY StageOf DEF Extend, At
<1>2. PICK at \in Stages[req[t].op] : at = "keep"
  BY <1>1 DEF Stages
<1>3. PICK n \in Nat : n = req[t].n
  BY <1>1 DEF ReqType
<1>4. PICK r \in ReqType : r = Moved(req[t], at, n) /\ Request(r)
  BY <1>1, MovedIs
<1>5. req' = [req EXCEPT ![t] = r] /\ Request(r)
  <2>1. Go(t, at) /\ ~At(t, "done")
    BY <1>1, <1>2 DEF Extend
  <2>2. req' = [req EXCEPT ![t] = Moved(req[t], at, n)]
    BY <1>3, <2>1, GoIs
  <2>. QED
    BY <1>4, <2>2
<1>6. r.at = "keep" /\ r.n = n /\ r.file = Mine(t) /\ r.op = "append"
  BY <1>1, <1>2, <1>4 DEF Moved, Mine
<1>7. PICK s \in Seq(Content) : /\ s = Append(files[Mine(t)], Zero)
                                /\ Len(s) = Len(files[Mine(t)]) + 1
  <2>1. files[Mine(t)] \in Seq(Content) /\ Zero \in Content
    BY <1>1, Typed DEF Content
  <2>2. /\ Append(files[Mine(t)], Zero) \in Seq(Content)
        /\ Len(Append(files[Mine(t)], Zero)) = Len(files[Mine(t)]) + 1
    BY <2>1, AppendProperties
  <2>. QED
    BY <2>2, Zenon
<1>8. Len(files[Mine(t)]) \in Nat
  BY <1>1, Typed
<1>9. Grows /\ files'[Mine(t)] = s /\ files' = [files EXCEPT ![Mine(t)] = s]
  <2>1. Len(files[Mine(t)]) <= Len(s)
    BY <1>7, <1>8
  <2>2. files' = [files EXCEPT ![Mine(t)] = s] /\ NoAccess
    BY <1>7 DEF Extend
  <2>. QED
    BY <1>1, <2>1, <2>2, FileGrows
<1>10. Fits(n, Mine(t))
  BY <1>1, <1>3 DEF ThreadInv, SizesOK, NumberOK, Mine
<1>11. NumberWillDo(r)
  BY <1>6, <1>7, <1>8, <1>9, <1>10 DEF NumberWillDo, WillFit, Fits, Grows
<1>12. MutexMoves(t, r) /\ Caches /\ Races
  <2>1. MutexMoves(t, r)
    BY <1>1, <1>6 DEF MutexMoves, Extend, Within
  <2>. QED
    BY <2>1, CacheStays, NoAccessRaces DEF Extend
<1>13. reply' \in [Tx -> Nat \cup Content \cup {None}] /\ reply' = reply
  BY Typed DEF Extend
<1>14. FileInv'
  BY <1>5, <1>9, <1>11, <1>12, <1>13, StepInv
<1>15. Blocks!Add(t)
  <2>1. Calls[t].op = "append" /\ Calls[t].file = Mine(t)
    BY <1>1, PendingIs DEF Calls, Mine
  <2>2. Calls' = [Calls EXCEPT ![t] = Pending(r)] /\ Calls[t] = Pending(req[t])
    BY <1>5, CallsAre
  <2>3. Pending(r) = [Pending(req[t]) EXCEPT !.op = "added"]
    BY <1>1, <1>2, <1>4 DEF Pending, Moved
  <2>4. Calls' = [Calls EXCEPT ![t].op = "added"]
    BY <2>2, <2>3 DEF Calls
  <2>. QED
    BY <1>7, <1>9, <1>13, <2>1, <2>4 DEF Blocks!Add, Blocks!Asked, Blocks!Own
<1>16. Blocks!BlockStep(t)
  BY <1>12, <1>15 DEF Blocks!BlockStep, Blocks!Asked, Races
<1>. QED
  BY <1>14, <1>16 DEF Promise, Blocks!BlockNext

(* The append answers with its number, and the cache has the next. *)
LEMMA KeepStep ==
  ASSUME ThreadInv, NEW t \in Tx, Keep(t)
  PROVE  FileInv' /\ Promise
<1>1. /\ req[t].at = "keep" /\ req[t].op = "append" /\ req[t] \in ReqType
      /\ Mine(t) \in Block /\ Accesses(t)
  BY StageOf DEF Keep, At, Accesses, Assigns
<1>2. PICK n \in Nat : n = req[t].n
  BY <1>1 DEF ReqType
<1>3. /\ Return(t, n) /\ UNCHANGED files /\ Races
      /\ open_files' = [open_files EXCEPT ![Mine(t)] = n + 1]
  BY <1>1, <1>2, AccessRaces DEF Keep
<1>4. Fits(n, Mine(t)) /\ n < Len(files[Mine(t)])
  BY <1>1, <1>2 DEF ThreadInv, SizesOK, NumberOK, Mine
<1>5. /\ Len(files[Mine(t)]) \in Nat /\ old[Mine(t)] \in Nat
      /\ open_files \in [Block -> Nat \cup {None}]
      /\ reply \in [Tx -> Nat \cup Content \cup {None}]
  BY <1>1, Typed
<1>6. WillFit(n, Mine(t)) /\ WillFit(n + 1, Mine(t))
  BY <1>3, <1>4, <1>5 DEF Fits, WillFit, Races
<1>7. Caches /\ Grows
  BY <1>1, <1>3, <1>5, <1>6, Typed DEF Caches, Grows, Races
<1>8. reply' \in [Tx -> Nat \cup Content \cup {None}]
  BY <1>3, <1>5 DEF Return
<1>9. FileInv'
  BY <1>3, <1>7, <1>8, ReturnMoves, StepInv
<1>10. Calls[t].op = "added" /\ Calls[t].file = Mine(t)
  BY <1>1, PendingIs DEF Calls, Mine
<1>11. n \in Blocks!Floor(Blocks!Own(t))..(Len(Blocks!Blocks(t)) - 1)
  BY <1>3, <1>4, <1>5, <1>6, <1>10 DEF WillFit, Races, Blocks!Floor, Blocks!Own, Blocks!Blocks
<1>12. Blocks!Sizes(t)
  BY <1>3, <1>10, <1>11, ReturnMoves DEF Blocks!Sizes, Blocks!Asked
<1>13. Blocks!BlockStep(t)
  BY <1>3, <1>12 DEF Blocks!BlockStep, Blocks!Asked, Races
<1>. QED
  BY <1>9, <1>13 DEF Promise, Blocks!BlockNext

(* A block is read, or the page keeps its bytes. *)
LEMMA ReadStep ==
  ASSUME ThreadInv, NEW t \in Tx, ReadBlock(t)
  PROVE  FileInv' /\ Promise
<1>1. /\ req[t].at = "read" /\ req[t].op = "read" /\ req[t] \in ReqType /\ req[t] # NoReq
      /\ Mine(t) \in Block /\ Request(req[t])
  BY StageOf DEF ReadBlock, At
<1>2. PICK b \in Nat, p \in Content \cup {None} : b = req[t].blk /\ p = req[t].val
  BY <1>1 DEF Request, ReqType
<1>3. PICK v : v = IF b < Len(files[Mine(t)]) THEN files[Mine(t)][b + 1] ELSE p
  OBVIOUS
<1>4. Return(t, v) /\ UNCHANGED <<files, open_files>> /\ Races
  BY <1>2, <1>3, NoAccessRaces DEF ReadBlock, Length
<1>5. v \in Content \cup {None}
  <2>1. files[Mine(t)] \in Seq(Content) /\ Len(files[Mine(t)]) \in Nat
    BY <1>1, Typed
  <2>2. CASE b < Len(files[Mine(t)])
    <3>1. b + 1 \in 1..Len(files[Mine(t)])
      BY <2>1, <2>2
    <3>. QED
      BY <1>3, <2>1, <2>2, <3>1, ElementOfSeq
  <2>. QED
    BY <1>3, <2>2
<1>6. reply' \in [Tx -> Nat \cup Content \cup {None}]
  BY <1>4, <1>5, Typed DEF Return
<1>7. Caches /\ Grows
  BY <1>4, CacheStays, Typed DEF Grows, Races
<1>8. FileInv'
  BY <1>4, <1>6, <1>7, ReturnMoves, StepInv
<1>9. Calls[t].op = "read" /\ Calls[t].file = Mine(t) /\ Calls[t].blk = b /\ Calls[t].val = p
  BY <1>1, <1>2, PendingIs DEF Calls, Mine
<1>10. Blocks!Read(t)
  BY <1>3, <1>4, <1>9, ReturnMoves
     DEF Blocks!Read, Blocks!Asked, Blocks!Blk, Blocks!Own, Blocks!Blocks
<1>11. Blocks!BlockStep(t)
  BY <1>4, <1>10 DEF Blocks!BlockStep, Blocks!Asked, Races
<1>. QED
  BY <1>8, <1>11 DEF Promise, Blocks!BlockNext

(* What a thread in a write has asked for. *)
LEMMA WriteAsked ==
  ASSUME ThreadInv, NEW t \in Tx, At(t, "write")
  PROVE  /\ req[t].at = "write" /\ req[t].op = "write" /\ req[t] \in ReqType
         /\ ~At(t, "done") /\ Mine(t) \in Block /\ req[t].blk \in Nat /\ req[t].val \in Value
         /\ Calls[t].op = "write" /\ Calls[t].file = Mine(t)
         /\ Calls[t].blk = req[t].blk /\ Calls[t].val = req[t].val
<1>1. /\ req[t].at = "write" /\ req[t].op = "write" /\ req[t] \in ReqType /\ req[t] # NoReq
      /\ ~At(t, "done") /\ Mine(t) \in Block /\ Request(req[t])
  BY StageOf DEF At
<1>. QED
  BY <1>1, PendingIs DEF Request, Calls, Mine

(* A write has its effect at once; its caller need not wait for the cache. *)
LEMMA WriteStep ==
  ASSUME ThreadInv, NEW t \in Tx, WriteBlock(t)
  PROVE  FileInv' /\ Promise
<1>1. /\ req[t].at = "write" /\ req[t].op = "write" /\ req[t] \in ReqType
      /\ ~At(t, "done") /\ Mine(t) \in Block
      /\ Calls[t].op = "write" /\ Calls[t].file = Mine(t)
  BY WriteAsked DEF WriteBlock
<1>2. PICK b \in Nat, v \in Value : /\ b = req[t].blk /\ v = req[t].val
                                    /\ Calls[t].blk = b /\ Calls[t].val = v
  BY WriteAsked DEF WriteBlock
<1>3. PICK at \in Stages[req[t].op] : at = "update"
  BY <1>1 DEF Stages
<1>4. PICK n \in Nat : n = req[t].n
  BY <1>1 DEF ReqType
<1>5. PICK r \in ReqType : r = Moved(req[t], at, n) /\ Request(r)
  BY <1>1, MovedIs
<1>6. req' = [req EXCEPT ![t] = r] /\ Request(r)
  <2>1. Go(t, at) /\ ~At(t, "done")
    BY <1>1, <1>3 DEF WriteBlock
  <2>2. req' = [req EXCEPT ![t] = Moved(req[t], at, n)]
    BY <1>4, <2>1, GoIs
  <2>. QED
    BY <1>5, <2>2
<1>7. r.at = "update" /\ r.op = "write" /\ Pending(r) = Blocks!NoCall
  BY <1>1, <1>3, <1>5 DEF Moved, Pending, NoCall, Blocks!NoCall
<1>8. PICK s \in Seq(Content) : /\ s = Put(files[Mine(t)], b, v)
                                /\ s = Blocks!Put(files[Mine(t)], b, v)
                                /\ Len(files[Mine(t)]) <= Len(s)
  <2>1. files[Mine(t)] \in Seq(Content) /\ v \in Content
    BY <1>1, Typed DEF Content
  <2>. QED
    BY <2>1, PutIs
<1>9. Grows /\ files' = [files EXCEPT ![Mine(t)] = s]
  BY <1>1, <1>2, <1>8, FileGrows DEF WriteBlock
<1>10. NumberWillDo(r)
  BY <1>7 DEF NumberWillDo
<1>11. MutexMoves(t, r) /\ Caches /\ Races
  <2>1. MutexMoves(t, r)
    BY <1>1, <1>7 DEF MutexMoves, WriteBlock, Within
  <2>. QED
    BY <2>1, CacheStays, NoAccessRaces DEF WriteBlock
<1>12. reply \in [Tx -> Nat \cup Content \cup {None}] /\ reply' = reply
  BY Typed DEF WriteBlock
<1>13. FileInv'
  BY <1>6, <1>9, <1>10, <1>11, <1>12, StepInv
<1>14. Blocks!Answer(t, reply[t])
  <2>1. reply' = [reply EXCEPT ![t] = reply[t]]
    BY <1>12
  <2>2. Calls' = [Calls EXCEPT ![t] = Blocks!NoCall]
    BY <1>6, <1>7, CallsAre
  <2>. QED
    BY <2>1, <2>2 DEF Blocks!Answer
<1>15. files[Mine(t)] # <<>>
  BY DEF WriteBlock, Length
<1>16. Blocks!Write(t)
  BY <1>1, <1>2, <1>8, <1>9, <1>14, <1>15
     DEF Blocks!Write, Blocks!Asked, Blocks!Blk, Blocks!Own, Blocks!Blocks
<1>17. Blocks!BlockStep(t)
  BY <1>11, <1>16 DEF Blocks!BlockStep, Blocks!Asked, Races
<1>. QED
  BY <1>13, <1>17 DEF Promise, Blocks!BlockNext

(* A return that touches neither files nor answers. *)
LEMMA PlainReturn ==
  ASSUME ThreadInv, NEW t \in Tx, Return(t, reply[t]), UNCHANGED files, Caches, Races
  PROVE  FileInv' /\ reply' = reply
<1>1. reply \in [Tx -> Nat \cup Content \cup {None}] /\ reply' = reply
  BY Typed DEF Return
<1>2. Grows
  BY Typed DEF Grows, Races
<1>. QED
  BY <1>1, <1>2, ReturnMoves, StepInv

LEMMA WriteFailsStep ==
  ASSUME ThreadInv, NEW t \in Tx, WriteFails(t)
  PROVE  FileInv' /\ Promise
<1>1. Calls[t].op = "write" /\ Calls[t].file = Mine(t) /\ Mine(t) \in Block
  BY WriteAsked DEF WriteFails
<1>2. Return(t, reply[t]) /\ UNCHANGED files /\ Caches /\ Races
  BY CacheStays, NoAccessRaces DEF WriteFails
<1>3. files[Mine(t)] = <<>>
  <2>1. files[Mine(t)] \in Seq(Content)
    BY <1>1, Typed
  <2>. QED
    BY <2>1, EmptySeq DEF WriteFails, Length
<1>4. Blocks!Write(t)
  BY <1>1, <1>2, <1>3, ReturnMoves DEF Blocks!Write, Blocks!Asked, Blocks!Own, Blocks!Blocks
<1>5. Blocks!BlockStep(t)
  BY <1>2, <1>4 DEF Blocks!BlockStep, Blocks!Asked, Races
<1>. QED
  BY <1>2, <1>5, PlainReturn DEF Promise, Blocks!BlockNext

LEMMA UpdateSizeStep ==
  ASSUME ThreadInv, NEW t \in Tx, UpdateSize(t)
  PROVE  FileInv' /\ Promise
<1>1. /\ req[t].at = "update" /\ Mine(t) \in Block /\ Accesses(t)
  BY StageOf DEF UpdateSize, At, Accesses, Assigns
<1>2. Return(t, reply[t]) /\ UNCHANGED files /\ Races
  BY <1>1, AccessRaces DEF UpdateSize
<1>3. PICK n \in Nat : n = Len(files[Mine(t)])
  BY <1>1, Typed
<1>4. WillFit(n, Mine(t))
  BY <1>1, <1>2, <1>3, Typed DEF WillFit, Races, ThreadInv, SizesOK
<1>5. Caches
  BY <1>1, <1>3, <1>4, Typed DEF Caches, UpdateSize, Length
<1>6. Pending(NoReq) = Pending(req[t]) /\ NoReq \in ReqType
  BY <1>1, NoReqIs DEF Pending, NoReq, NoCall
<1>7. FileInv' /\ reply' = reply
  BY <1>2, <1>5, PlainReturn
<1>8. Promise
  BY <1>2, <1>6, <1>7, ReturnMoves, SilentStep
<1>. QED
  BY <1>7, <1>8

LEMMA FileStepInv ==
  ASSUME ThreadInv, NEW t \in Tx, FileStep(t)
  PROVE  FileInv' /\ Promise
BY EnterStep, LookHitStep, LookMissStep, FileSizeStep, StoreStep, ExtendStep, KeepStep,
   ReadStep, WriteStep, WriteFailsStep, UpdateSizeStep DEF FileStep

(* A thread calls: its call stands where it starts, and is asked for. *)
LEMMA CallStep ==
  ASSUME ThreadInv, NEW t \in Tx, NEW op \in Ops, NEW f \in Block,
         NEW b \in Nat \cup {None}, NEW v \in Content \cup {None},
         Call(t, op, f, b, v),
         op \in {"read", "write"} => b \in Nat,
         op = "write" => v \in Value
  PROVE  FileInv' /\ Promise
<1>1. PICK r \in ReqType : r = [op |-> op, file |-> f, blk |-> b, val |-> v,
                                at |-> FirstStep(op), n |-> 0]
  <2>1. PICK at \in {"enter", "look"} : at = FirstStep(op)
    BY DEF FirstStep
  <2>2. [op |-> op, file |-> f, blk |-> b, val |-> v, at |-> at, n |-> 0] \in ReqType
    BY <2>1 DEF ReqType
  <2>. QED
    BY <2>1, <2>2
<1>2. /\ req[t] = NoReq /\ req' = [req EXCEPT ![t] = r]
      /\ UNCHANGED <<files, open_files, mutex, reply, raced, old>>
  BY <1>1 DEF Call
<1>3. /\ r.op = op /\ r.file = f /\ r.blk = b /\ r.val = v
      /\ r.at = FirstStep(op) /\ r.at \in Stages[op] \cap {"enter", "look"}
  BY <1>1 DEF FirstStep, Stages, Ops
<1>4. Request(r) /\ NumberWillDo(r)
  BY <1>3 DEF Request, NumberWillDo
<1>5. MutexMoves(t, r)
  BY <1>2, <1>3, NoReqIs DEF MutexMoves, Within, FirstStep, Ops
<1>6. Grows /\ Caches /\ Races
  BY <1>2, Typed DEF Grows, Caches, Races
<1>7. FileInv'
  BY <1>2, <1>4, <1>5, <1>6, Typed, StepInv
<1>8. Blocks!Ask(t)
  <2>1. Calls[t] = Blocks!NoCall
    BY <1>2, NoReqIs DEF Calls, Pending, NoReq, Blocks!NoCall
  <2>2. Pending(r) = [op |-> op, file |-> f, blk |-> b, val |-> v]
    BY <1>3 DEF Pending
  <2>3. Pending(r) \in Blocks!Calls
    BY <2>2 DEF Blocks!Calls, Ops, Content
  <2>4. Calls' = [Calls EXCEPT ![t] = Pending(r)] /\ Calls'[t] = Pending(r)
    <3>1. Calls' = [Calls EXCEPT ![t] = Pending(r)]
      BY <1>2, CallsAre
    <3>. QED
      BY <3>1 DEF Calls
  <2>. QED
    BY <1>2, <2>1, <2>3, <2>4 DEF Blocks!Ask
<1>9. Blocks!BlockStep(t)
  BY <1>6, <1>8 DEF Blocks!BlockStep, Blocks!Asked, Races
<1>. QED
  BY <1>7, <1>9 DEF Promise, Blocks!BlockNext

LEMMA CallsStep ==
  ASSUME ThreadInv, NEW t \in Tx, NEW f \in Block,
         \/ Size(t, f) \/ AppendBlock(t, f)
         \/ \E b \in 0..(MaxBlocks - 1) :
              \/ \E v \in Content : Load(t, f, b, v)
              \/ \E v \in Value : Flush(t, f, b, v)
  PROVE  FileInv' /\ Promise
<1>1. CASE Size(t, f)
  <2>1. Call(t, "length", f, None, None) /\ "length" \in Ops
    BY <1>1 DEF Size, Ops
  <2>. QED
    BY <2>1, CallStep
<1>2. CASE AppendBlock(t, f)
  <2>1. Call(t, "append", f, None, None) /\ "append" \in Ops
    BY <1>2 DEF AppendBlock, Ops
  <2>. QED
    BY <2>1, CallStep
<1>3. ASSUME NEW b \in 0..(MaxBlocks - 1), NEW v \in Content, Load(t, f, b, v)
      PROVE  FileInv' /\ Promise
  <2>1. Call(t, "read", f, b, v) /\ "read" \in Ops /\ b \in Nat
    BY <1>3 DEF Load, Ops
  <2>. QED
    BY <2>1, CallStep
<1>4. ASSUME NEW b \in 0..(MaxBlocks - 1), NEW v \in Value, Flush(t, f, b, v)
      PROVE  FileInv' /\ Promise
  <2>1. Call(t, "write", f, b, v) /\ "write" \in Ops /\ b \in Nat /\ v \in Content
    BY <1>4 DEF Flush, Ops, Content
  <2>. QED
    BY <2>1, CallStep
<1>. QED
  BY <1>1, <1>2, <1>3, <1>4

(* A new process: empty temporary files, the others as they were. *)
LEMMA RestartStep ==
  ASSUME ThreadInv, Restart
  PROVE  FileInv' /\ Promise
<1>1. FileRestart /\ NewProcess
  BY DEF Restart, FileRestart
<1>2. files' \in [Block -> Seq(Content)] /\ \A f \in Block : Len(files'[f]) \in Nat
  <2>1. files' \in [Block -> Seq(Content)]
    BY <1>1, Typed, EmptySeq DEF FileRestart
  <2>. QED
    BY <2>1, LenProperties
<1>3. /\ \A t \in Tx : req'[t] = NoReq
      /\ req' \in [Tx -> ReqType] /\ reply' \in [Tx -> Nat \cup Content \cup {None}]
      /\ open_files' \in [Block -> Nat \cup {None}] /\ \A f \in Block : open_files'[f] = None
      /\ mutex' = None /\ raced' = FALSE /\ None \notin Tx
      /\ old' = [f \in Block |-> Len(files'[f])] /\ old' \in [Block -> Nat]
  BY <1>1, <1>2, NoReqIs, Typed DEF NewProcess, NoReqs, NoReplies, NoSizes
<1>4. ReqOK' /\ MutexOK'
  BY <1>3, NoReqIs DEF ReqOK, Request, MutexOK, Within
<1>5. SizesOK'
  BY <1>2, <1>3, NoReqIs DEF SizesOK, NumberOK
<1>6. FileTypeOK'
  BY <1>2, <1>3 DEF FileTypeOK, ReqType
<1>7. Calls' = [t \in Tx |-> Blocks!NoCall]
  BY <1>3, NoReqIs DEF Calls, Pending, NoReq, Blocks!NoCall
<1>8. Blocks!BlockRestart
  BY <1>1, <1>3, <1>7 DEF Blocks!BlockRestart, NewProcess, NoReplies, FileRestart
<1>. QED
  BY <1>4, <1>5, <1>6, <1>8 DEF FileInv, Promise, Blocks!BlockNext

LEMMA StillStep ==
  ASSUME ThreadInv, UNCHANGED mgrVars
  PROVE  FileInv' /\ Promise
<1>1. UNCHANGED <<files, open_files, mutex, req, reply, raced, old>>
  BY DEF mgrVars
<1>2. FileInv'
  BY <1>1 DEF ThreadInv, TypeOK, FileInv, FileTypeOK, ReqOK, MutexOK, SizesOK, Request,
              Within, NumberOK, Fits
<1>3. Calls' = Calls
  BY <1>1 DEF Calls, Pending
<1>. QED
  BY <1>1, <1>2, <1>3 DEF Promise, Blocks!blockVars

----------------------------------------------------------------------------
LEMMA LockStep ==
  ASSUME LockInv, Next
  PROVE  [LockNext]_lockVars \/ LockInit'
<1>1. CASE Restart
  BY <1>1 DEF Restart, LockInit
<1>2. ASSUME NEW t \in Tx, Work(t)
      PROVE  UNCHANGED lockVars
  BY <1>2 DEF Work
<1>3. ASSUME NEW t \in Tx, End(t)
      PROVE  LockNext
  BY <1>3 DEF End, LockNext
<1>4. ASSUME NEW t \in Tx, NEW f \in Block, Size(t, f) \/ AppendBlock(t, f)
      PROVE  [LockNext]_lockVars
  BY <1>4 DEF Size, AppendBlock, LockNext
<1>5. ASSUME NEW t \in Tx, NEW f \in Block, NEW b \in 0..(MaxBlocks - 1), NEW v \in Content,
             Load(t, f, b, v) \/ Flush(t, f, b, v)
      PROVE  UNCHANGED lockVars
  BY <1>5 DEF Load, Flush
<1>. QED
  BY <1>1, <1>2, <1>3, <1>4, <1>5 DEF Next, Content

LEMMA LockStepInv ==
  ASSUME LockInv, [Next]_vars
  PROVE  LockInv'
<1>1. CASE Next
  <2>1. LockInit' => LockInv'
    <3>1. LockInit' => LockTypeOK'
      BY DEF LockInit, NoLocks, NoModes, LockTypeOK, Modes
    <3>2. LockInit' => \A b \in Block : Holders(b)' = {}
      BY DEF LockInit, NoModes, Holders
    <3>. QED
      BY <3>1, <3>2, FS_EmptySet DEF LockInit, NoLocks, LockInv, LockCount
  <2>. QED
    BY <1>1, <2>1, LockStep, LockNext_Inv
<1>2. CASE UNCHANGED vars
  <2>1. UNCHANGED lockVars
    BY <1>2 DEF vars
  <2>. QED
    BY <2>1, LockNext_Inv
<1>. QED
  BY <1>1, <1>2

LEMMA ThreadInv_Init == Init => ThreadInv /\ Blocks!BlockInit
<1>. SUFFICES ASSUME Init PROVE ThreadInv /\ Blocks!BlockInit
  OBVIOUS
<1>1. LockInv
  BY LockInit_Inv DEF Init
<1>2. /\ files = [f \in Block |-> <<>>] /\ open_files = NoSizes /\ mutex = None
      /\ req = NoReqs /\ reply = NoReplies /\ raced = FALSE /\ old = [f \in Block |-> 0]
      /\ calls = 0 /\ restarts = 0
  BY DEF Init, FileInit
<1>3. /\ files \in [Block -> Seq(Content)] /\ None \notin Tx
      /\ \A f \in Block : Len(files[f]) = 0
  BY <1>2, EmptySeq, FileThreadsAssumption
<1>4. /\ NoSizes \in [Block -> Nat \cup {None}] /\ NoReqs \in [Tx -> ReqType]
      /\ NoReplies \in [Tx -> Nat \cup Content \cup {None}]
      /\ \A t \in Tx : NoReqs[t] = NoReq
      /\ \A f \in Block : NoSizes[f] = None
  BY NoReqIs DEF NoSizes, NoReqs, NoReplies
<1>5. ReqOK /\ MutexOK /\ SizesOK
  BY <1>2, <1>3, <1>4, NoReqIs DEF ReqOK, MutexOK, Within, SizesOK, NumberOK
<1>6. FileTypeOK
  BY <1>2, <1>3, <1>4 DEF FileTypeOK, ReqType
<1>7. calls \in 0..MaxCalls /\ restarts \in 0..MaxRestarts
  BY <1>2, FileThreadsAssumption
<1>8. Calls = [t \in Tx |-> Blocks!NoCall]
  BY <1>2, <1>4, NoReqIs DEF Calls, Pending, NoReq, Blocks!NoCall
<1>9. Blocks!BlockInit
  BY <1>2, <1>8 DEF Blocks!BlockInit, NoReplies
<1>. QED
  BY <1>1, <1>5, <1>6, <1>7, <1>9 DEF ThreadInv, TypeOK, LockInv

LEMMA CountersInv ==
  ASSUME ThreadInv, [Next]_vars
  PROVE  calls' \in 0..MaxCalls /\ restarts' \in 0..MaxRestarts
<1>1. /\ calls \in 0..MaxCalls /\ restarts \in 0..MaxRestarts
      /\ MaxCalls \in Nat /\ MaxRestarts \in Nat
  BY FileThreadsAssumption DEF ThreadInv, TypeOK
<1>2. \/ UNCHANGED <<calls, restarts>>
      \/ calls < MaxCalls /\ calls' = calls + 1 /\ UNCHANGED restarts
      \/ restarts < MaxRestarts /\ restarts' = restarts + 1 /\ UNCHANGED calls
  BY DEF Next, vars, Restart, Work, End, Size, AppendBlock, Load, Flush, Counted
<1>. QED
  BY <1>1, <1>2

LEMMA ThreadInv_Next == ThreadInv /\ [Next]_vars => ThreadInv' /\ Promise
<1>. SUFFICES ASSUME ThreadInv, [Next]_vars PROVE ThreadInv' /\ Promise
  OBVIOUS
<1>1. LockInv'
  BY LockStepInv DEF ThreadInv, TypeOK, LockInv
<1>2. FileInv' /\ Promise
  <2>1. CASE Restart
    BY <2>1, RestartStep
  <2>2. ASSUME NEW t \in Tx, Work(t) PROVE FileInv' /\ Promise
    BY <2>2, FileStepInv DEF Work
  <2>3. ASSUME NEW t \in Tx, NEW f \in Block,
               \/ Size(t, f) \/ AppendBlock(t, f)
               \/ \E b \in 0..(MaxBlocks - 1) :
                    \/ \E v \in Content : Load(t, f, b, v)
                    \/ \E v \in Value : Flush(t, f, b, v)
        PROVE  FileInv' /\ Promise
    BY <2>3, CallsStep
  <2>4. ASSUME NEW t \in Tx, End(t) PROVE FileInv' /\ Promise
    BY <2>4, StillStep DEF End
  <2>5. CASE UNCHANGED vars
    BY <2>5, StillStep DEF vars
  <2>. QED
    BY <2>1, <2>2, <2>3, <2>4, <2>5 DEF Next
<1>. QED
  BY <1>1, <1>2, CountersInv DEF ThreadInv, TypeOK, FileInv, LockInv

(* A thread past Enter is the only one there, every request stands at a    *)
(* stage of its call, and the entries of the lock table count the          *)
(* transactions that hold the blocks, whatever calls, releases and         *)
(* restarts interleave (filemgr.cpp, locktable.cpp, concurrencymgr.cpp).   *)
THEOREM ThreadsKeepTypes == Spec => [](TypeOK /\ LockCount)
<1>. QED
  BY ThreadInv_Init, ThreadInv_Next, PTL DEF Spec, ThreadInv

(* No step weakens a lock but a release, which drops all of them, and the  *)
(* end of the process (Transaction::size and append, commit and rollback). *)
THEOREM ThreadsStrictTwoPhase == Spec => StrictTwoPhase
<1>1. LockTypeOK /\ [Next]_vars =>
        [\A t \in Tx : Weakened(t) => \A b \in Block : held'[t][b] = "none"]_lockVars
  <2>. SUFFICES ASSUME LockTypeOK, [Next]_vars, NEW t \in Tx, Weakened(t), NEW b \in Block,
                       ~UNCHANGED lockVars
                PROVE  held'[t][b] = "none"
    OBVIOUS
  <2>1. Next
    BY DEF vars
  <2>2. CASE Restart
    BY <2>2 DEF Restart, NoModes
  <2>3. ASSUME NEW u \in Tx, End(u)
        PROVE  held'[t][b] = "none"
    BY <2>3 DEF End, Release, Weakened, LockTypeOK
  <2>4. ASSUME NEW u \in Tx, NEW f \in Block, Size(u, f) \/ AppendBlock(u, f)
        PROVE  FALSE
    <3>1. SLock(u, f) \/ XLock(u, f)
      BY <2>4 DEF Size, AppendBlock
    <3>. QED
      BY <3>1 DEF SLock, XLock, Weakened, LockTypeOK
  <2>5. ASSUME NEW u \in Tx, NEW f \in Block, NEW c \in 0..(MaxBlocks - 1), NEW v \in Content,
               Load(u, f, c, v) \/ Flush(u, f, c, v)
        PROVE  FALSE
    BY <2>5 DEF Load, Flush
  <2>6. ASSUME NEW u \in Tx, Work(u)
        PROVE  FALSE
    BY <2>6 DEF Work
  <2>. QED
    BY <2>1, <2>2, <2>3, <2>4, <2>5, <2>6 DEF Next, Content
<1>. QED
  BY <1>1, ThreadsKeepTypes, PTL DEF Spec, StrictTwoPhase, TypeOK

(* For any threads, files and calls, whether clients keep a size and an    *)
(* append apart or race on the cache: every call takes effect at one       *)
(* instant on files without a cache, across restarts.  An append never     *)
(* writes over a block, a read finds the last write, and in a process that *)
(* has not raced the numbers a length or an append answers with are ones   *)
(* the file had since the process started (filemgr.cpp read, write, append *)
(* and length).                                                            *)
THEOREM FileMgrKeepsBlocks == Spec => ImplementsBlockFiles
<1>1. Init => ThreadInv /\ Blocks!BlockInit
  BY ThreadInv_Init
<1>2. ThreadInv /\ [Next]_vars => ThreadInv' /\ [Blocks!BlockNext]_(Blocks!blockVars)
  BY ThreadInv_Next DEF Promise
<1>. QED
  BY <1>1, <1>2, PTL DEF Spec, ImplementsBlockFiles, Blocks!BlockSpec
============================================================================
