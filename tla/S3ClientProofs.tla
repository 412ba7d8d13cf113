---------------------------- MODULE S3ClientProofs ----------------------------
(* What holds of the S3 client for every set of contents, every limit and   *)
(* any number of faults: it implements S3Promise, and it leaves no upload   *)
(* open that it knows of.                                                   *)
EXTENDS S3Client, FiniteSetTheorems, SequenceTheorems, TLAPS

-----------------------------------------------------------------------------
(* The inductive invariants.                                               *)

Chunks == Versions \X Nat

Pcs == {"rest", "put", "bytes", "delete", "create", "part", "complete", "abort",
        "get", "publish", "text", "list"}

AtOK ==
  /\ at = [pc |-> at.pc, attempt |-> at.attempt, uid |-> at.uid, etags |-> at.etags,
           offset |-> at.offset, names |-> at.names, token |-> at.token, pages |-> at.pages]
  /\ at.pc \in Pcs /\ at.uid \in Nat /\ at.etags \in Nat /\ at.offset \in Nat

Reasons == {"no", "unheard", "uncompleted", "unaborted", "crash"}
Uploads == [id : Nat, parts : Seq(Chunks), left : Reasons]
UploadsOK == uploads \subseteq Uploads /\ IsFiniteSet(uploads)

Versioned == Keys \X Seq(Chunks)
Pasts ==
  [done : BOOLEAN, steady : BOOLEAN, cut : BOOLEAN, misled : BOOLEAN,
   seen : SUBSET Versioned, held : SUBSET Versioned, had : SUBSET Bodies]

StoreOK == store \in [Keys -> Seq(Chunks)]
CallOK == call \in Calls \union {NoCall}
PartOK == part \in Seq(Chunks)
PastOK == past \in Pasts

Typed == StoreOK /\ CallOK /\ PartOK /\ PastOK /\ AtOK /\ UploadsOK

(* A call is where its kind takes it, and has reported nothing.            *)
Placed ==
  /\ call = NoCall <=> at.pc = "rest"
  /\ at.pc \in {"put", "create", "part", "complete", "abort"} => call.kind = "put"
  /\ at.pc \in {"get", "publish"} => call.kind = "get"
  /\ at.pc \in {"bytes", "delete", "text", "list"} => call.kind = at.pc
  /\ call # NoCall => ~outcome.ok

(* The first n chunks of two contents are the same.                        *)
Agree(p, s, n) == \A i \in 1 .. n : p[i] = s[i]

(* The first n chunks are each one that the file had at that place.        *)
Fits(had, p, n) == \A i \in 1 .. n : \E f \in had : i <= Len(f) /\ p[i] = f[i]

(* The upload in hand has the parts sent so far, perhaps one more that was *)
(* not acknowledged; it has all of them when it is completed, and is gone  *)
(* only because it took effect.  Only the upload in hand is open.          *)
Assembled ==
  /\ at.pc = "create" => \A u \in uploads : u.parts = <<>>
  /\ at.pc = "part" =>
       /\ Mine # {} /\ at.etags < Len(call.body)
       /\ \A u \in Mine : Len(u.parts) >= at.etags /\ Fits(past.had, u.parts, at.etags)
  /\ at.pc = "complete" =>
       /\ \A u \in Mine : Len(u.parts) = Len(call.body) /\ Fits(past.had, u.parts, Len(call.body))
       /\ Mine = {} => past.done
  /\ \A u \in uploads :
       u.left = "no" => u.id = at.uid /\ at.pc \in {"part", "complete", "abort"}

(* What is read of the file to upload is what it had during the call.      *)
Sourced ==
  /\ source \in [now : Seq(Chunks), read : Seq(Chunks)]
  /\ call.kind \in {"put", "bytes"} => call.body \in past.had
  /\ at.pc \in {"put", "create", "part"} => source.now \in past.had /\ source.read \in past.had

(* What a download has written is a prefix of the object, as long as it is *)
(* the object whose size the caller was told, and a resumed attempt asks   *)
(* for exactly the bytes that are missing.                                 *)
Fetched ==
  /\ at.pc = "get" => at.offset = 0 \/ at.offset = Len(part)
  /\ at.pc \in {"get", "publish"} /\ past.steady =>
       /\ Len(store[call.key]) = Len(call.body)
       /\ Len(part) <= Len(store[call.key])
       /\ Agree(part, store[call.key], Len(part))

ClientInv == Typed /\ Placed /\ Assembled /\ Fetched /\ Sourced

-----------------------------------------------------------------------------
(* Contents, calls and positions.                                          *)

LEMMA BodyShape ==
  ASSUME NEW b \in Bodies
  PROVE  b \in Seq(Chunks) /\ b # Nothing /\ Len(b) \in Nat \ {0}
<1>1. PICK v \in Versions : b = Body(v)
  BY DEF Bodies
<1>2. Size[v] \in Nat \ {0}
  BY S3ClientAssumption DEF Versions
<1> QED
  BY <1>1, <1>2 DEF Body, Chunks, Nothing

LEMMA ObjectShape ==
  ASSUME NEW b \in Bodies \union {Nothing}
  PROVE  b \in Seq(Chunks) /\ Len(b) \in Nat
  BY BodyShape, EmptySeq DEF Nothing

LEMMA ContentShape == \A k \in Keys : Contents(k) \subseteq Bodies \union {Nothing}
  BY S3ClientAssumption DEF Contents, Bodies, Versions

LEMMA CallShape ==
  ASSUME CallOK, call # NoCall
  PROVE  /\ call \in Calls
         /\ call.kind \in {"put", "bytes", "get", "delete", "text", "list"}
         /\ call.kind \in {"put", "bytes", "get"} => call.body \in Bodies
         /\ call.kind \in {"delete", "text"} => call.body = Nothing
         /\ call.kind # "list" => call.key \in Keys
         /\ call.kind # "get" => ~call.hash
<1>1. call \in Calls
  BY DEF CallOK
<1> QED
  BY <1>1, S3ClientAssumption DEF Calls, NoCall

LEMMA NoCallShape == NoCall \notin Calls /\ NoCall.kind = "none"
  BY DEF NoCall, Calls

(* What a step of the client does to the file it reads: leave it alone,    *)
(* begin a new reading, or be through with it.                             *)
Feeds ==
  \/ UNCHANGED source
  \/ source' = [source EXCEPT !.read = source.now]
  \/ source' = NoSource /\ at'.pc \in {"rest", "abort", "complete"}

(* What a step does to the position, in the fields the invariants read.    *)
Stands(pc, uid, etags, offset) ==
  AtOK' /\ Feeds /\ at'.pc = pc /\ at'.uid = uid /\ at'.etags = etags /\ at'.offset = offset

LEMMA AgainMoves ==
  ASSUME AtOK, Again
  PROVE  Stands(at.pc, at.uid, at.etags, at.offset) /\ UNCHANGED <<call, outcome>>
  BY DEF AtOK, Again, Moves, ReadsOn, Stands, Feeds

LEMMA ReturnsMoves ==
  ASSUME NEW ok, NEW value, Returns(ok, value)
  PROVE  Stands("rest", 0, 0, 0) /\ call' = NoCall /\ outcome'.ok = ok
  BY DEF Returns, Rest, Start, AtOK, Stands, Feeds, Pcs

LEMMA FailsMoves ==
  ASSUME Fails
  PROVE  Stands("rest", 0, 0, 0) /\ call' = NoCall /\ outcome'.ok = FALSE
  BY ReturnsMoves DEF Fails

LEMMA SucceedsMoves ==
  ASSUME Succeeds
  PROVE  Stands("rest", 0, 0, 0) /\ call' = NoCall /\ outcome'.ok = TRUE
  BY ReturnsMoves DEF Succeeds

LEMMA GoesMoves ==
  ASSUME NEW pc \in Pcs, NEW uid \in Nat, NEW attempt
  PROVE  /\ AtOK /\ Goes([at EXCEPT !.pc = pc]) => Stands(pc, at.uid, at.etags, at.offset)
         /\ AtOK /\ Goes([at EXCEPT !.pc = pc, !.attempt = attempt])
              => Stands(pc, at.uid, at.etags, at.offset)
         /\ AtOK /\ Moves([at EXCEPT !.etags = @ + 1, !.attempt = attempt, !.pc = pc]) /\ Feeds
              => Stands(pc, at.uid, at.etags + 1, at.offset)
         /\ Goes([Start(pc) EXCEPT !.uid = uid]) => Stands(pc, uid, 0, 0)
<1>1. AtOK /\ Goes([at EXCEPT !.pc = pc]) => Stands(pc, at.uid, at.etags, at.offset)
  BY DEF AtOK, Goes, Moves, Stands, Feeds
<1>2. AtOK /\ Goes([at EXCEPT !.pc = pc, !.attempt = attempt])
        => Stands(pc, at.uid, at.etags, at.offset)
  BY DEF AtOK, Goes, Moves, Stands, Feeds
<1>3. ASSUME AtOK, Moves([at EXCEPT !.etags = @ + 1, !.attempt = attempt, !.pc = pc]), Feeds
      PROVE  Stands(pc, at.uid, at.etags + 1, at.offset)
  <2> DEFINE next == at.etags + 1
  <2>1. next \in Nat
    BY <1>3 DEF AtOK
  <2>2. at' = [at EXCEPT !.etags = next, !.attempt = attempt, !.pc = pc]
    BY <1>3 DEF Moves
  <2> HIDE DEF next
  <2>3. at' = [pc |-> pc, attempt |-> attempt, uid |-> at.uid, etags |-> next,
               offset |-> at.offset, names |-> at.names, token |-> at.token, pages |-> at.pages]
    BY <1>3, <2>2 DEF AtOK
  <2>4. Stands(pc, at.uid, next, at.offset)
    BY <1>3, <2>1, <2>3 DEF AtOK, Stands
  <2> QED
    BY <2>4 DEF next
<1>4. ASSUME Goes([Start(pc) EXCEPT !.uid = uid]) PROVE Stands(pc, uid, 0, 0)
  <2>1. at' = [pc |-> pc, attempt |-> 1, uid |-> uid, etags |-> 0, offset |-> 0,
               names |-> <<>>, token |-> 0, pages |-> 0]
    BY <1>4 DEF Goes, Moves, Start
  <2> QED
    BY <1>4, <2>1 DEF AtOK, Goes, Stands, Feeds
<1> QED
  BY <1>1, <1>2, <1>3, <1>4

LEMMA GivesUpMoves ==
  ASSUME AtOK, GivesUpParts
  PROVE  Stands("abort", at.uid, at.etags, at.offset) /\ UNCHANGED <<call, outcome>>
  BY DEF AtOK, GivesUpParts, Moves, Pcs, Stands, Feeds

LEMMA NextPartMoves ==
  ASSUME AtOK, NextPart
  PROVE  /\ Stands(IF at.etags + 1 = Len(call.body) THEN "complete" ELSE "part",
                   at.uid, at.etags + 1, at.offset)
         /\ UNCHANGED <<call, outcome>>
<1> DEFINE pc == IF at.etags + 1 = Len(call.body) THEN "complete" ELSE "part"
<1>1. pc \in Pcs
  BY DEF Pcs
<1>2. Moves([at EXCEPT !.etags = @ + 1, !.attempt = 1, !.pc = pc]) /\ Feeds
  BY DEF NextPart, ReadsOn, Feeds, Moves, AtOK
<1> HIDE DEF pc
<1>3. Stands(pc, at.uid, at.etags + 1, at.offset)
  BY <1>1, <1>2, GoesMoves
<1> QED
  BY <1>2, <1>3 DEF Moves, pc

-----------------------------------------------------------------------------
(* What the steps are to S3Promise.                                        *)

Kept == UNCHANGED <<store, target, call, outcome>>
        /\ past'.done = past.done /\ past'.steady = past.steady
        /\ past'.had = past.had /\ past'.misled = past.misled

Changing == call.kind \in {"put", "bytes", "delete"}
Changed == Promise!Effect
Meant(object) == IF call.kind = "delete" THEN object = Nothing ELSE Promise!Pieced(object)

LEMMA KeptRefines == Kept => UNCHANGED Promise!vars
  BY DEF Kept, Promise!vars

LEMMA EffectRefines ==
  ASSUME call # NoCall, Changing, Changed, past'.done, past'.steady = past.steady,
         past'.had = past.had, past'.misled = past.misled, UNCHANGED <<target, call, outcome>>
  PROVE  Promise!Next
<1>1. Promise!TakesEffect
  BY DEF Changing, Changed, Promise!TakesEffect, Promise!Changes
<1> QED
  BY <1>1 DEF Promise!Next

LEMMA FailureRefines ==
  ASSUME call # NoCall, call' = NoCall, outcome'.ok = FALSE, target' = target,
         store' = store \/ (Changing /\ Changed)
  PROVE  Promise!Next
<1>1. Promise!Ends
  BY DEF Changing, Changed, Promise!Ends, Promise!Fails, Promise!Changes
<1> QED
  BY <1>1 DEF Promise!Next

LEMMA SuccessRefines ==
  ASSUME call # NoCall, call.kind # "get", call' = NoCall, outcome'.ok = TRUE, target' = target,
         \/ Changing /\ Changed
         \/ (Changing => past.done \/ past'.misled) /\ store' = store
  PROVE  Promise!Next
<1>1. Promise!Ends
  BY DEF Changing, Changed, Promise!Ends, Promise!Succeeds, Promise!Changes
<1> QED
  BY <1>1 DEF Promise!Next

LEMMA DownloadRefines ==
  ASSUME call # NoCall, call.kind = "get", call' = NoCall, outcome'.ok = TRUE, store' = store,
         call.hash => target' = call.body,
         past.steady => target' = store[call.key]
  PROVE  Promise!Next
<1>1. Promise!Ends
  BY DEF Promise!Ends, Promise!Succeeds
<1> QED
  BY <1>1 DEF Promise!Next

(* An object that is stored whole, or put together.                        *)
LEMMA StoredIsEffect ==
  ASSUME StoreOK, call.key \in Keys, NEW object, Meant(object),
         store' = [store EXCEPT ![call.key] = object]
  PROVE  Changed
<1>1. store'[call.key] = object
  BY DEF StoreOK
<1> QED
  BY <1>1 DEF Changed, Meant, Promise!Effect

LEMMA FittedIsMeant ==
  ASSUME call.kind # "delete", NEW object, Fits(past.had, object, Len(object)),
         \E f \in past.had : Len(object) = Len(f)
  PROVE  Meant(object)
  BY DEF Fits, Meant, Promise!Pieced

-----------------------------------------------------------------------------
(* How the invariants outlive a step.                                      *)

LEMMA NoSourceShape == NoSource \in [now : Seq(Chunks), read : Seq(Chunks)]
  BY EmptySeq DEF NoSource, Nothing

(* The call is over and leaves no upload open.                             *)
LEMMA EndedKeeps ==
  ASSUME Sourced, Stands("rest", 0, 0, 0), call' = NoCall, \A u \in uploads' : u.left # "no"
  PROVE  Placed' /\ Assembled' /\ Fetched' /\ Sourced'
<1>1. at'.pc = "rest"
  BY DEF Stands
<1>2. Placed' /\ Assembled' /\ Fetched'
  BY <1>1 DEF Stands, Placed, Assembled, Fetched
<1>3. source' \in [now : Seq(Chunks), read : Seq(Chunks)]
  BY NoSourceShape DEF Stands, Feeds, Sourced
<1> QED
  BY <1>1, <1>2, <1>3, NoCallShape DEF Sourced

(* What is read next is still what the file had.                           *)
LEMMA StaysSourced ==
  ASSUME Sourced, Feeds, UNCHANGED call, past'.had = past.had, at'.pc # "rest",
         at'.pc \in {"put", "create", "part"} => at.pc \in {"put", "create", "part"}
  PROVE  Sourced'
<1>1. source' \in [now : Seq(Chunks), read : Seq(Chunks)]
  BY NoSourceShape DEF Sourced, Feeds
<1> QED
  BY <1>1 DEF Sourced, Feeds

(* A call that uploads nothing leaves nothing open.                        *)
LEMMA NoneOpen ==
  ASSUME Assembled, at.pc \notin {"part", "complete", "abort"}
  PROVE  \A u \in uploads : u.left # "no"
  BY DEF Assembled

(* A call without uploads or downloads that is still where it was.         *)
LEMMA StaysKeeps ==
  ASSUME Placed, Assembled, Sourced, past'.had = past.had, at.pc \in {"put", "bytes", "delete", "text", "list"},
         UNCHANGED <<call, outcome, uploads>>,
         Stands(at.pc, at.uid, at.etags, at.offset)
  PROVE  Placed' /\ Assembled' /\ Fetched' /\ Sourced'
  BY StaysSourced DEF Stands, Placed, Assembled, Fetched

LEMMA HoldsTyped ==
  ASSUME PastOK, NEW s \in [Keys -> Seq(Chunks)], Holds(s)
  PROVE  /\ StoreOK' /\ PastOK' /\ past'.done /\ past'.steady = past.steady /\ store' = s
         /\ past'.had = past.had /\ past'.misled = past.misled
  BY DEF PastOK, Pasts, Holds, StoreOK

-----------------------------------------------------------------------------
(* Calls of one request each, or of one at a time.                         *)

StepKeeps == ClientInv' /\ [Promise!Next]_(Promise!vars)

LEMMA WholeSteps ==
  ASSUME ClientInv, NEW object \in Seq(Chunks), Meant(object),
         NEW s, s = [store EXCEPT ![call.key] = object],
         at.pc \in {"put", "bytes", "delete"},
         Asked(Holds(s), Succeeds, Fails),
         UNCHANGED <<uploads, files, stop, server>>
  PROVE  StepKeeps
<1>1. /\ StoreOK /\ CallOK /\ PartOK /\ PastOK /\ AtOK /\ UploadsOK
      /\ Placed /\ Assembled /\ Fetched /\ Sourced
  BY DEF ClientInv, Typed
<1>2. call # NoCall /\ call.kind \in {"put", "bytes", "delete"}
  BY <1>1 DEF Placed
<1>3. s \in [Keys -> Seq(Chunks)] /\ call.key \in Keys
  BY <1>1, <1>2, CallShape DEF StoreOK
<1>4. PartOK' /\ UploadsOK' /\ UNCHANGED <<uploads, target>>
  BY <1>1 DEF PartOK, UploadsOK, files
<1>5. \/ Holds(s) /\ (Succeeds \/ Fails \/ Again)
      \/ Unmoved /\ (Fails \/ Again)
  BY DEF Asked, AgainOr
<1>6. /\ StoreOK' /\ PastOK' /\ past'.had = past.had /\ past'.misled = past.misled
      /\ past'.steady = past.steady
      /\ \/ past'.done /\ Changing /\ Changed
         \/ UNCHANGED <<store, past>> /\ ~Succeeds
  <2>1. CASE Holds(s)
    BY <2>1, <1>1, <1>2, <1>3, HoldsTyped, StoredIsEffect DEF Changing
  <2>2. CASE Unmoved /\ (Fails \/ Again)
    <3>1. ~Succeeds
      BY <2>2, <1>1, <1>2, FailsMoves, SucceedsMoves, AgainMoves
    <3> QED
      BY <2>2, <3>1, <1>1 DEF Unmoved, StoreOK, PastOK, bucket
  <2> QED
    BY <1>5, <2>1, <2>2
<1>7. CASE Again
  <2>1. Stands(at.pc, at.uid, at.etags, at.offset) /\ UNCHANGED <<call, outcome>>
    BY <1>7, <1>1, AgainMoves
  <2>2. CallOK' /\ AtOK' /\ Placed' /\ Assembled' /\ Fetched' /\ Sourced'
    BY <2>1, <1>1, <1>4, <1>6, StaysKeeps DEF CallOK, Stands
  <2>3. Promise!Next \/ UNCHANGED Promise!vars
    BY <2>1, <1>2, <1>4, <1>6, EffectRefines, KeptRefines DEF Kept
  <2> QED
    BY <2>2, <2>3, <1>4, <1>6 DEF StepKeeps, ClientInv, Typed
<1>8. CASE Succeeds \/ Fails
  <2>1. Stands("rest", 0, 0, 0) /\ call' = NoCall /\ outcome'.ok \in BOOLEAN
        /\ (outcome'.ok => Succeeds)
    BY <1>8, FailsMoves, SucceedsMoves
  <2>2. CallOK' /\ AtOK' /\ Placed' /\ Assembled' /\ Fetched' /\ Sourced'
    BY <2>1, <1>1, <1>4, NoneOpen, EndedKeeps DEF CallOK, Stands
  <2>3. Promise!Next
    BY <2>1, <1>2, <1>4, <1>6, FailureRefines, SuccessRefines
  <2> QED
    BY <2>2, <2>3, <1>4, <1>6 DEF StepKeeps, ClientInv, Typed
<1> QED
  BY <1>5, <1>7, <1>8

(* A call that changes nothing goes on as it was, or ends.                 *)
LEMMA IdleSteps ==
  ASSUME ClientInv, at.pc \in {"put", "bytes", "delete", "text", "list"},
         UNCHANGED <<bucket, files>>, UNCHANGED past \/ past' = [past EXCEPT !.cut = TRUE],
         \/ Stands(at.pc, at.uid, at.etags, at.offset) /\ UNCHANGED <<call, outcome>>
         \/ Stands("rest", 0, 0, 0) /\ call' = NoCall
            /\ (outcome'.ok = FALSE \/ (outcome'.ok = TRUE /\ ~Changing))
  PROVE  StepKeeps
<1>1. /\ StoreOK /\ CallOK /\ PartOK /\ PastOK /\ AtOK /\ UploadsOK
      /\ Placed /\ Assembled /\ Fetched /\ Sourced
  BY DEF ClientInv, Typed
<1>2. call # NoCall /\ call.kind # "get"
  BY <1>1 DEF Placed
<1>3. /\ StoreOK' /\ PartOK' /\ PastOK' /\ UploadsOK' /\ UNCHANGED <<store, uploads, target>>
      /\ past'.done = past.done /\ past'.steady = past.steady
      /\ past'.had = past.had /\ past'.misled = past.misled
  BY <1>1 DEF StoreOK, PartOK, PastOK, Pasts, UploadsOK, bucket, files
<1>4. CASE Stands(at.pc, at.uid, at.etags, at.offset) /\ UNCHANGED <<call, outcome>>
  <2>1. CallOK' /\ AtOK' /\ Placed' /\ Assembled' /\ Fetched' /\ Sourced'
    BY <1>1, <1>3, <1>4, StaysKeeps DEF CallOK, Stands
  <2>2. UNCHANGED Promise!vars
    BY <1>3, <1>4, KeptRefines DEF Kept
  <2> QED
    BY <2>1, <2>2, <1>3 DEF StepKeeps, ClientInv, Typed
<1>5. CASE Stands("rest", 0, 0, 0) /\ call' = NoCall
           /\ (outcome'.ok = FALSE \/ (outcome'.ok = TRUE /\ ~Changing))
  <2>1. CallOK' /\ AtOK' /\ Placed' /\ Assembled' /\ Fetched' /\ Sourced'
    BY <1>1, <1>3, <1>5, NoneOpen, EndedKeeps DEF CallOK, Stands
  <2>2. Promise!Next
    BY <1>2, <1>3, <1>5, FailureRefines, SuccessRefines
  <2> QED
    BY <2>1, <2>2, <1>3 DEF StepKeeps, ClientInv, Typed
<1> QED
  BY <1>4, <1>5

(* One reading of the file has the length that the file had, and at each   *)
(* place what it had there.                                                *)
LEMMA ReadingFits ==
  ASSUME PastOK, source.now \in past.had, source.read \in past.had, NEW body \in Readings
  PROVE  /\ body \in Seq(Chunks) /\ Fits(past.had, body, Len(body))
         /\ \E f \in past.had : Len(body) = Len(f)
<1> DEFINE was == source.read
           now == source.now
<1>1. was \in Seq(Chunks) /\ now \in Seq(Chunks) /\ Len(was) \in Nat /\ Len(now) \in Nat
  BY BodyShape DEF PastOK, Pasts
<1>2. CASE body = was
  BY <1>1, <1>2 DEF Fits
<1>3. ASSUME NEW n \in 0 .. Len(was), Len(was) <= Len(now),
             body = SubSeq(was, 1, n) \o SubSeq(now, n + 1, Len(was))
      PROVE  body \in Seq(Chunks) /\ Len(body) = Len(was) /\ Fits(past.had, body, Len(was))
  <2> DEFINE head == SubSeq(was, 1, n)
             tail == SubSeq(now, n + 1, Len(was))
  <2>1. head \in Seq(Chunks) /\ Len(head) = n /\ \A i \in 1 .. n : head[i] = was[i]
    <3>1. \A i \in 1 .. n : was[i] \in Chunks
      BY <1>1, ElementOfSeq
    <3> QED
      BY <1>1, <3>1, SubSeqProperties, Z3
  <2>2. /\ tail \in Seq(Chunks) /\ Len(tail) = Len(was) - n
        /\ \A i \in 1 .. Len(was) - n : tail[i] = now[n + i]
    <3>1. \A i \in n + 1 .. Len(was) : now[i] \in Chunks
      BY <1>1, <1>3, ElementOfSeq
    <3>2. n + 1 \in Int /\ Len(was) \in Int /\ n + 1 <= Len(was) + 1
      BY <1>1
    <3> QED
      BY <1>1, <3>1, <3>2, SubSeqProperties, Z3
  <2> HIDE DEF head, tail
  <2>3. body = head \o tail
    BY <1>3 DEF head, tail
  <2> HIDE DEF was, now
  <2>4. /\ body \in Seq(Chunks) /\ Len(body) = Len(head) + Len(tail)
        /\ \A i \in 1 .. Len(head) + Len(tail) :
             body[i] = IF i <= Len(head) THEN head[i] ELSE tail[i - Len(head)]
    BY <2>1, <2>2, <2>3, ConcatProperties
  <2>5. Len(head) + Len(tail) = Len(was)
    BY <1>1, <2>1, <2>2
  <2>6. ASSUME NEW i \in 1 .. Len(was)
        PROVE  \E f \in past.had : i <= Len(f) /\ body[i] = f[i]
    <3>1. CASE i <= n
      BY <3>1, <2>1, <2>4, <2>5 DEF was
    <3>2. CASE i > n
      <4>1. i - n \in 1 .. Len(was) - n /\ n + (i - n) = i /\ i <= Len(now)
        BY <3>2, <1>1, <1>3
      <4>2. body[i] = now[i]
        BY <3>2, <4>1, <2>1, <2>2, <2>4, <2>5
      <4> QED
        BY <4>1, <4>2 DEF now
    <3> QED
      BY <3>1, <3>2, <1>1
  <2> QED
    BY <2>6, <2>4, <2>5 DEF Fits
<1> QED
  BY <1>1, <1>2, <1>3 DEF Readings

LEMMA PutSteps ==
  ASSUME ClientInv, Put \/ PutBytes
  PROVE  StepKeeps
<1>1. PastOK /\ AtOK /\ CallOK /\ Placed /\ Sourced /\ UNCHANGED <<uploads, files, stop, server>>
  BY DEF Put, PutBytes, ClientInv, Typed
<1>2. ASSUME Put PROVE StepKeeps
  <2>1. at.pc = "put" /\ call.kind = "put" /\ source.now \in past.had /\ source.read \in past.had
    BY <1>1, <1>2 DEF Put, Placed, Sourced
  <2>2. ASSUME NEW body \in Readings,
               Asked(Holds([store EXCEPT ![call.key] = body]), Succeeds, Fails)
        PROVE  StepKeeps
    <3>1. body \in Seq(Chunks) /\ Meant(body)
      BY <1>1, <2>1, ReadingFits, FittedIsMeant
    <3> QED
      BY <1>1, <2>1, <2>2, <3>1, WholeSteps
  <2>3. ASSUME Unmoved, Fails \/ Again PROVE StepKeeps
    BY <1>1, <2>1, <2>3, AgainMoves, FailsMoves, IdleSteps DEF Unmoved
  <2> QED
    BY <1>2, <2>2, <2>3 DEF Put, AgainOr
<1>3. ASSUME PutBytes PROVE StepKeeps
  <2>1. at.pc = "bytes" /\ call.kind = "bytes" /\ call.body \in past.had
    BY <1>1, <1>3 DEF PutBytes, Placed, Sourced
  <2>2. call.body \in Seq(Chunks) /\ Meant(call.body)
    <3>1. call.body \in Seq(Chunks) /\ Fits(past.had, call.body, Len(call.body))
      BY <1>1, <2>1, BodyShape DEF PastOK, Pasts, Fits
    <3> QED
      BY <2>1, <3>1, FittedIsMeant
  <2> QED
    BY <1>1, <1>3, <2>1, <2>2, WholeSteps DEF PutBytes
<1> QED
  BY <1>2, <1>3

LEMMA DeleteSteps ==
  ASSUME ClientInv, Delete
  PROVE  StepKeeps
<1>1. at.pc = "delete" /\ call.kind = "delete" /\ UNCHANGED <<uploads, files, stop, server>>
  BY DEF Delete, ClientInv, Placed
<1>2. CASE Asked(Holds([store EXCEPT ![call.key] = Nothing]), Succeeds, Fails)
  <2>1. Nothing \in Seq(Chunks) /\ Meant(Nothing)
    BY <1>1, EmptySeq DEF Nothing, Meant
  <2> QED
    BY <1>1, <1>2, <2>1, WholeSteps
<1>3. CASE Unmoved /\ Fails
  BY <1>1, <1>3, FailsMoves, IdleSteps DEF Unmoved
<1> QED
  BY <1>2, <1>3 DEF Delete

LEMMA TextSteps ==
  ASSUME ClientInv, GetText
  PROVE  StepKeeps
<1>1. /\ at.pc = "text" /\ ~Changing /\ AtOK /\ UNCHANGED <<bucket, files>>
      /\ UNCHANGED past \/ past' = [past EXCEPT !.cut = TRUE]
  BY DEF GetText, ClientInv, Typed, Placed, Changing
<1>2. Again \/ Fails \/ \E value : Returns(TRUE, value)
  BY Zenon DEF GetText, TextThere, AgainOr
<1> QED
  BY <1>1, <1>2, AgainMoves, FailsMoves, ReturnsMoves, IdleSteps

LEMMA TurnedMoves ==
  ASSUME AtOK, NEW names, NEW token, Goes(Turned(names, token))
  PROVE  Stands(at.pc, at.uid, at.etags, at.offset) /\ UNCHANGED <<call, outcome>>
<1>1. at' = [at EXCEPT !.names = names, !.token = token, !.pages = at.pages + 1, !.attempt = 1]
  BY DEF Goes, Moves, Turned
<1>2. at' = [pc |-> at.pc, attempt |-> 1, uid |-> at.uid, etags |-> at.etags,
             offset |-> at.offset, names |-> names, token |-> token, pages |-> at.pages + 1]
  BY <1>1 DEF AtOK
<1>3. /\ at'.pc = at.pc /\ at'.uid = at.uid /\ at'.etags = at.etags /\ at'.offset = at.offset
      /\ at'.attempt = 1 /\ at'.names = names /\ at'.token = token /\ at'.pages = at.pages + 1
  BY <1>2
<1>4. AtOK'
  BY <1>2, <1>3 DEF AtOK
<1> QED
  BY <1>3, <1>4 DEF Stands, Feeds, Goes, Moves

LEMMA ListSteps ==
  ASSUME ClientInv, ListPage
  PROVE  StepKeeps
<1>1. at.pc = "list" /\ ~Changing /\ AtOK /\ UNCHANGED <<bucket, past, files>>
  BY DEF ListPage, ClientInv, Typed, Placed, Changing
<1>2. \/ Again \/ Fails
      \/ \E value : Returns(TRUE, value)
      \/ \E names, token : Goes(Turned(names, token))
  BY Zenon DEF ListPage, AgainOr
<1>3. CASE \E value : Returns(TRUE, value)
  BY <1>1, <1>3, ReturnsMoves, IdleSteps
<1>4. CASE \E names, token : Goes(Turned(names, token))
  BY <1>1, <1>4, TurnedMoves, IdleSteps
<1> QED
  BY <1>1, <1>2, <1>3, <1>4, AgainMoves, FailsMoves, IdleSteps

-----------------------------------------------------------------------------
(* Uploads in parts.                                                       *)

LEMMA SpareId ==
  ASSUME UploadsOK
  PROVE  NewId \in Nat \ {0} /\ \A u \in uploads : u.id # NewId
<1> DEFINE n == Cardinality(uploads)
           ids == {u.id : u \in uploads}
<1>1. n \in Nat
  BY FS_CardinalityType DEF UploadsOK
<1>2. IsFiniteSet(ids) /\ Cardinality(ids) <= n
  <2> DEFINE f == [u \in uploads |-> u.id]
  <2>1. f \in Surjection(uploads, ids)
    BY DEF Surjection
  <2> QED
    BY <2>1, FS_Surjection DEF UploadsOK
<1>3. IsFiniteSet(1 .. n + 1) /\ Cardinality(1 .. n + 1) = n + 1
  BY <1>1, FS_Interval
<1>4. ~(1 .. n + 1 \subseteq ids)
  <2>1. 1 .. n + 1 \subseteq ids => Cardinality(1 .. n + 1) <= Cardinality(ids)
    BY <1>2, FS_Subset
  <2>2. Cardinality(ids) \in Nat
    BY <1>2, FS_CardinalityType
  <2> QED
    BY <1>1, <1>2, <1>3, <2>1, <2>2
<1>5. \E i \in 1 .. n + 1 : \A u \in uploads : u.id # i
  BY <1>4
<1> QED
  BY <1>1, <1>5 DEF NewId

(* One upload more, one fewer, and a change to the one in hand.            *)
LEMMA OpenTyped ==
  ASSUME UploadsOK, NEW left \in Reasons, Open([NewUpload EXCEPT !.left = left])
  PROVE  /\ UploadsOK'
         /\ uploads' = uploads \union {[id |-> NewId, parts |-> <<>>, left |-> left]}
<1>1. [NewUpload EXCEPT !.left = left] = [id |-> NewId, parts |-> <<>>, left |-> left]
  BY DEF NewUpload
<1>2. [id |-> NewId, parts |-> <<>>, left |-> left] \in Uploads
  BY SpareId, EmptySeq DEF Uploads
<1>3. uploads' = uploads \union {[id |-> NewId, parts |-> <<>>, left |-> left]}
  BY <1>1 DEF Open
<1>4. IsFiniteSet(uploads')
  BY <1>3, FS_AddElement DEF UploadsOK
<1> QED
  BY <1>2, <1>3, <1>4 DEF UploadsOK

LEMMA DropTyped ==
  ASSUME UploadsOK, uploads' = uploads \ Mine
  PROVE  UploadsOK'
  BY FS_Subset DEF UploadsOK

LEMMA MineFinite ==
  ASSUME UploadsOK
  PROVE  IsFiniteSet(Mine) /\ IsFiniteSet(uploads \ Mine) /\ Mine \subseteq uploads
  BY FS_Subset DEF UploadsOK, Mine

LEMMA ChangedTyped ==
  ASSUME UploadsOK, NEW f \in [Mine -> Uploads],
         uploads' = (uploads \ Mine) \union {f[u] : u \in Mine}
  PROVE  UploadsOK'
<1> DEFINE changed == {f[u] : u \in Mine}
<1>1. f \in Surjection(Mine, changed)
  BY DEF Surjection
<1>2. IsFiniteSet(changed)
  BY <1>1, MineFinite, FS_Surjection
<1>3. IsFiniteSet(uploads')
  BY <1>2, MineFinite, FS_Union
<1> QED
  BY <1>3 DEF UploadsOK

LEMMA LeavesTyped ==
  ASSUME UploadsOK, NEW why \in Reasons \ {"no"}, LeavesMine(why)
  PROVE  /\ UploadsOK'
         /\ \A u \in uploads' : u \in uploads \ Mine \/ (u.left # "no" /\ u.parts = <<>>)
<1> DEFINE f == [u \in Mine |-> [u EXCEPT !.left = why, !.parts = <<>>]]
<1>1. \A u \in Mine : f[u] = [id |-> u.id, parts |-> <<>>, left |-> why]
  BY MineFinite DEF UploadsOK, Uploads
<1> HIDE DEF f
<1>2. \A u \in Mine : f[u] \in Uploads /\ f[u].left # "no" /\ f[u].parts = <<>>
  <2> SUFFICES ASSUME NEW u \in Mine
               PROVE  f[u] \in Uploads /\ f[u].left # "no" /\ f[u].parts = <<>>
    OBVIOUS
  <2>1. u.id \in Nat
    BY DEF UploadsOK, Uploads, Mine
  <2>2. <<>> \in Seq(Chunks)
    BY EmptySeq
  <2>3. f[u] = [id |-> u.id, parts |-> <<>>, left |-> why]
    BY <1>1
  <2> QED
    BY <2>1, <2>2, <2>3 DEF Uploads
<1>3. f \in [Mine -> Uploads]
  BY <1>2 DEF f
<1>4. uploads' = (uploads \ Mine) \union {f[u] : u \in Mine}
  BY DEF LeavesMine, f
<1>5. UploadsOK'
  BY <1>3, <1>4, ChangedTyped
<1> QED
  BY <1>2, <1>4, <1>5

(* One more part is appended to what was acknowledged.                     *)
LEMMA SendsPart ==
  ASSUME NEW p \in Seq(Chunks), NEW b \in past.had, b \in Seq(Chunks), NEW n \in Nat,
         n < Len(b), Len(p) >= n, Fits(past.had, p, n)
  PROVE  LET q == SubSeq(p, 1, n) \o <<b[n + 1]>>
         IN  q \in Seq(Chunks) /\ Len(q) = n + 1 /\ Fits(past.had, q, n + 1)
<1> DEFINE s == SubSeq(p, 1, n)
           q == s \o <<b[n + 1]>>
<1>1. Len(p) \in Nat /\ Len(b) \in Nat
  BY LenProperties
<1>2. \A i \in 1 .. n : p[i] \in Chunks
  BY <1>1, ElementOfSeq
<1>3. b[n + 1] \in Chunks
  BY <1>1, ElementOfSeq
<1>4. s \in Seq(Chunks) /\ Len(s) = n /\ \A i \in 1 .. n : s[i] = p[i]
  <2>1. s \in Seq(Chunks)
    BY <1>2, SubSeqProperties, Z3
  <2>2. Len(s) = n
    BY <1>2, SubSeqProperties, Z3
  <2>3. \A i \in 1 .. n : s[i] = p[i]
    BY <1>2, SubSeqProperties, Z3
  <2> QED
    BY <2>1, <2>2, <2>3
<1>5. <<b[n + 1]>> \in Seq(Chunks) /\ Len(<<b[n + 1]>>) = 1 /\ <<b[n + 1]>>[1] = b[n + 1]
  BY <1>3
<1> HIDE DEF s
<1>6. /\ q \in Seq(Chunks) /\ Len(q) = n + 1
      /\ \A i \in 1 .. n + 1 : q[i] = IF i <= n THEN s[i] ELSE <<b[n + 1]>>[i - n]
  BY <1>4, <1>5, ConcatProperties
<1>7. Fits(past.had, q, n + 1)
  <2> SUFFICES ASSUME NEW i \in 1 .. n + 1
               PROVE  \E f \in past.had : i <= Len(f) /\ q[i] = f[i]
    BY DEF Fits
  <2> HIDE DEF q
  <2>1. CASE i <= n
    <3>1. q[i] = p[i]
      BY <2>1, <1>4, <1>6
    <3> QED
      BY <2>1, <3>1 DEF Fits
  <2>2. CASE i = n + 1
    BY <2>2, <1>1, <1>5, <1>6
  <2> QED
    BY <2>1, <2>2
<1> QED
  BY <1>6, <1>7 DEF s

LEMMA HoldsPartTyped ==
  ASSUME ClientInv, at.pc = "part", at.etags < Len(source.read), HoldsPart
  PROVE  /\ UploadsOK'
         /\ UNCHANGED <<store, past>>
         /\ \A u \in uploads' :
              \/ u \in uploads /\ u.id # at.uid
              \/ /\ u.id = at.uid /\ Len(u.parts) = at.etags + 1
                 /\ Fits(past.had, u.parts, at.etags + 1)
         /\ \E u \in uploads' : u.id = at.uid
<1> DEFINE sent(u) == SubSeq(u.parts, 1, at.etags) \o <<source.read[at.etags + 1]>>
           f == [u \in Mine |-> [u EXCEPT !.parts = sent(u)]]
<1>1. UploadsOK /\ AtOK /\ Assembled /\ Sourced
  BY DEF ClientInv, Typed
<1>2. source.read \in past.had
  BY <1>1 DEF Sourced
<1>3. source.read \in Seq(Chunks) /\ at.etags \in Nat
  BY <1>1 DEF Sourced, AtOK
<1>4. ASSUME NEW u \in Mine
      PROVE  /\ u \in Uploads /\ u.id = at.uid
             /\ sent(u) \in Seq(Chunks) /\ Len(sent(u)) = at.etags + 1
             /\ Fits(past.had, sent(u), at.etags + 1)
  <2>1. u \in Uploads /\ u.id = at.uid /\ Len(u.parts) >= at.etags
        /\ Fits(past.had, u.parts, at.etags)
    BY <1>1 DEF UploadsOK, Mine, Assembled
  <2>2. u.parts \in Seq(Chunks)
    BY <2>1 DEF Uploads
  <2> QED
    BY <1>2, <1>3, <2>1, <2>2, SendsPart
<1>5. uploads' = (uploads \ Mine) \union {f[u] : u \in Mine} /\ UNCHANGED <<store, past>>
  BY DEF HoldsPart
<1>6. \A u \in Mine : f[u] = [u EXCEPT !.parts = sent(u)]
  OBVIOUS
<1> HIDE DEF sent, f
<1>7. \A u \in Mine : /\ f[u] \in Uploads /\ f[u].id = at.uid
                      /\ Len(f[u].parts) = at.etags + 1
                      /\ Fits(past.had, f[u].parts, at.etags + 1)
  BY ZenonT(30), <1>4, <1>6 DEF Uploads
<1>8. f \in [Mine -> Uploads]
  BY <1>7 DEF f
<1>9. UploadsOK'
  BY <1>1, <1>5, <1>8, ChangedTyped
<1>10. \A u \in uploads' :
         \/ u \in uploads /\ u.id # at.uid
         \/ /\ u.id = at.uid /\ Len(u.parts) = at.etags + 1
            /\ Fits(past.had, u.parts, at.etags + 1)
  BY <1>5, <1>7 DEF Mine
<1>11. \E u \in uploads' : u.id = at.uid
  <2>1. PICK u \in Mine : TRUE
    BY <1>1 DEF Assembled
  <2> QED
    BY <2>1, <1>5, <1>7
<1> QED
  BY <1>5, <1>9, <1>10, <1>11

(* Between the requests of an upload nothing changes for the caller.       *)
LEMMA UploadFrame ==
  ASSUME ClientInv, UNCHANGED <<files, stop, server>>
  PROVE  PartOK' /\ UNCHANGED target
  BY DEF ClientInv, Typed, PartOK, files

LEMMA CreateSteps ==
  ASSUME ClientInv, CreateUpload
  PROVE  StepKeeps
<1>1. /\ StoreOK /\ CallOK /\ PartOK /\ PastOK /\ AtOK /\ UploadsOK
      /\ Placed /\ Assembled /\ Fetched /\ Sourced
  BY DEF ClientInv, Typed
<1>2. at.pc = "create" /\ UNCHANGED <<store, past, files, stop, server>>
  BY DEF CreateUpload
<1>3. call # NoCall /\ call.kind = "put" /\ call.body \in Bodies
  BY <1>1, <1>2, CallShape DEF Placed
<1>4. StoreOK' /\ PastOK' /\ PartOK' /\ UNCHANGED <<store, past, target>>
  BY <1>1, <1>2, UploadFrame DEF StoreOK, PastOK, files
<1>5. \A u \in uploads : u.parts = <<>> /\ u.left # "no"
  BY <1>1, <1>2 DEF Assembled
<1>6. CASE Open(NewUpload) /\ Goes([Start("part") EXCEPT !.uid = NewId])
  <2>1. Stands("part", NewId, 0, 0) /\ UNCHANGED <<call, outcome>>
    BY <1>1, <1>6, SpareId, GoesMoves DEF Goes, Moves, Pcs
  <2>2. Open([NewUpload EXCEPT !.left = "no"])
    BY <1>6 DEF NewUpload
  <2>3. UploadsOK' /\ uploads' = uploads \union {[id |-> NewId, parts |-> <<>>, left |-> "no"]}
    BY <2>2, <1>1, OpenTyped DEF Reasons
  <2>4. 0 < Len(call.body)
    BY <1>3, BodyShape
  <2>5. Mine' # {} /\ \A u \in uploads' : u.parts = <<>> /\ (u.left = "no" => u.id = NewId)
    <3> DEFINE new == [id |-> NewId, parts |-> <<>>, left |-> "no"]
    <3>1. new.id = NewId /\ new.parts = <<>> /\ new \in uploads'
      BY <2>3
    <3>2. at'.uid = NewId
      BY <2>1 DEF Stands
    <3>3. \A u \in uploads' : u \in uploads \/ u = new
      BY <2>3
    <3> HIDE DEF new
    <3>4. new \in Mine'
      BY <3>1, <3>2 DEF Mine
    <3> QED
      BY <3>1, <3>3, <3>4, <1>5
  <2>6. \A u \in Mine' : Len(u.parts) >= 0 /\ Fits(past'.had, u.parts, 0)
    BY <2>5, EmptySeq DEF Mine, Fits
  <2>7. Assembled'
    BY <2>1, <2>4, <2>5, <2>6 DEF Assembled, Stands
  <2>8. CallOK' /\ AtOK' /\ Placed' /\ Fetched' /\ Sourced'
    BY <2>1, <1>1, <1>2 DEF CallOK, Stands, Placed, Fetched, Sourced, Feeds
  <2>9. UNCHANGED Promise!vars
    BY <2>1, <1>4, KeptRefines DEF Kept
  <2> QED
    BY <2>3, <2>7, <2>8, <2>9, <1>4 DEF StepKeeps, ClientInv, Typed
<1>7. ASSUME \/ Open([NewUpload EXCEPT !.left = "unheard"])
             \/ UNCHANGED uploads
      PROVE  UploadsOK' /\ \A u \in uploads' : u.parts = <<>> /\ u.left # "no"
  BY <1>1, <1>5, <1>7, OpenTyped DEF UploadsOK, Reasons
<1>8. CASE /\ Open([NewUpload EXCEPT !.left = "unheard"]) \/ UNCHANGED uploads
           /\ Again
  <2>1. Stands(at.pc, at.uid, at.etags, at.offset) /\ UNCHANGED <<call, outcome>>
    BY <1>8, <1>1, AgainMoves
  <2>2. CallOK' /\ AtOK' /\ Placed' /\ Assembled' /\ Fetched' /\ Sourced'
    BY <2>1, <1>1, <1>2, <1>7, <1>8, StaysSourced
    DEF CallOK, Stands, Placed, Assembled, Fetched
  <2>3. UNCHANGED Promise!vars
    BY <2>1, <1>4, KeptRefines DEF Kept
  <2> QED
    BY <2>2, <2>3, <1>4, <1>7, <1>8 DEF StepKeeps, ClientInv, Typed
<1>9. CASE /\ Open([NewUpload EXCEPT !.left = "unheard"]) \/ UNCHANGED uploads
           /\ Fails
  <2>1. Stands("rest", 0, 0, 0) /\ call' = NoCall /\ outcome'.ok = FALSE
    BY <1>9, FailsMoves
  <2>2. CallOK' /\ AtOK' /\ Placed' /\ Assembled' /\ Fetched' /\ Sourced'
    BY <2>1, <1>1, <1>7, <1>9, EndedKeeps DEF CallOK, Stands
  <2>3. Promise!Next
    BY <2>1, <1>3, <1>4, FailureRefines
  <2> QED
    BY <2>2, <2>3, <1>4, <1>7, <1>9 DEF StepKeeps, ClientInv, Typed
<1> QED
  BY <1>6, <1>8, <1>9 DEF CreateUpload, AgainOr

(* Only the upload in hand is open, so giving it up or dropping it leaves  *)
(* none.                                                                   *)
LEMMA NoneLeft ==
  ASSUME UploadsOK, Assembled,
         \/ uploads' = uploads \ Mine
         \/ \E why \in Reasons \ {"no"} : LeavesMine(why)
  PROVE  UploadsOK' /\ \A u \in uploads' : u.left # "no"
<1>1. \A u \in uploads \ Mine : u.left # "no"
  BY DEF Assembled, Mine
<1>2. CASE uploads' = uploads \ Mine
  BY <1>1, <1>2, DropTyped
<1>3. ASSUME NEW why \in Reasons \ {"no"}, LeavesMine(why)
      PROVE  UploadsOK' /\ \A u \in uploads' : u.left # "no"
  BY <1>1, <1>3, LeavesTyped
<1> QED
  BY <1>2, <1>3

(* On to the abort: the upload in hand stays as it is.                     *)
LEMMA GivesUpSteps ==
  ASSUME ClientInv, at.pc \in {"part", "complete"}, GivesUpParts,
         Unmoved, UNCHANGED files
  PROVE  StepKeeps
<1>1. /\ StoreOK /\ CallOK /\ PartOK /\ PastOK /\ AtOK /\ UploadsOK
      /\ Placed /\ Assembled /\ Fetched /\ Sourced
  BY DEF ClientInv, Typed
<1>2. /\ StoreOK' /\ PastOK' /\ PartOK' /\ UploadsOK'
      /\ UNCHANGED <<store, uploads, past, target>>
  BY <1>1 DEF StoreOK, PastOK, PartOK, UploadsOK, files, Unmoved, bucket
<1>3. Stands("abort", at.uid, at.etags, at.offset) /\ UNCHANGED <<call, outcome>>
  BY <1>1, GivesUpMoves
<1>4. CallOK' /\ AtOK' /\ Placed' /\ Assembled' /\ Fetched' /\ Sourced'
  BY <1>1, <1>2, <1>3, StaysSourced
    DEF CallOK, Stands, Placed, Assembled, Fetched
<1>5. UNCHANGED Promise!vars
  BY <1>2, <1>3, KeptRefines DEF Kept
<1> QED
  BY <1>2, <1>4, <1>5 DEF StepKeeps, ClientInv, Typed

(* A failed call that leaves no upload open.                               *)
LEMMA FailedSteps ==
  ASSUME ClientInv, call # NoCall, Fails, UNCHANGED <<store, past, files>>,
         UploadsOK', \A u \in uploads' : u.left # "no"
  PROVE  StepKeeps
<1>1. Stands("rest", 0, 0, 0) /\ call' = NoCall /\ outcome'.ok = FALSE
  BY FailsMoves
<1>2. StoreOK' /\ PastOK' /\ PartOK' /\ UNCHANGED <<store, past, target>>
  BY DEF ClientInv, Typed, StoreOK, PastOK, PartOK, files
<1>3. CallOK' /\ AtOK' /\ Placed' /\ Assembled' /\ Fetched' /\ Sourced'
  BY <1>1, EndedKeeps DEF CallOK, Stands, ClientInv
<1>4. Promise!Next
  BY <1>1, <1>2, FailureRefines
<1> QED
  BY <1>2, <1>3, <1>4 DEF StepKeeps, ClientInv, Typed

LEMMA AbortSteps ==
  ASSUME ClientInv, AbortUpload
  PROVE  StepKeeps
<1>1. at.pc = "abort" /\ Fails /\ UNCHANGED <<store, past, files>>
  BY DEF AbortUpload
<1>2. uploads' = uploads \ Mine \/ \E why \in Reasons \ {"no"} : LeavesMine(why)
  BY DEF AbortUpload, Reasons
<1>3. call # NoCall /\ UploadsOK /\ Assembled
  BY <1>1 DEF ClientInv, Typed, Placed
<1> QED
  BY <1>1, <1>2, <1>3, NoneLeft, FailedSteps

(* A part is acknowledged, or sent and to be sent again.                   *)
LEMMA SentSteps ==
  ASSUME ClientInv, at.pc = "part", at.etags < Len(source.read), HoldsPart, UNCHANGED files, NextPart \/ Again
  PROVE  StepKeeps
<1>1. /\ StoreOK /\ CallOK /\ PartOK /\ PastOK /\ AtOK /\ UploadsOK
      /\ Placed /\ Assembled /\ Fetched /\ Sourced
  BY DEF ClientInv, Typed
<1>2. call # NoCall /\ call.kind = "put" /\ call.body \in Bodies
  BY <1>1, CallShape DEF Placed
<1>3. call.body \in Seq(Chunks) /\ Len(call.body) \in Nat /\ at.etags \in Nat
      /\ at.etags < Len(call.body)
  BY <1>1, <1>2, BodyShape DEF Assembled, AtOK
<1>4. /\ UploadsOK' /\ UNCHANGED <<store, past>>
      /\ \A u \in uploads' :
           \/ u \in uploads /\ u.id # at.uid
           \/ /\ u.id = at.uid /\ Len(u.parts) = at.etags + 1
              /\ Fits(past.had, u.parts, at.etags + 1)
      /\ \E u \in uploads' : u.id = at.uid
  BY HoldsPartTyped
<1>5. StoreOK' /\ PastOK' /\ PartOK' /\ UNCHANGED target
  BY <1>1, <1>4 DEF StoreOK, PastOK, PartOK, files
<1>6. UNCHANGED <<call, outcome>> /\ AtOK' /\ at'.uid = at.uid /\ Feeds
      /\ at'.pc \in {"part", "complete"}
  BY <1>1, AgainMoves, NextPartMoves DEF Stands
<1>7. Sourced' /\ past'.had = past.had
  BY <1>1, <1>4, <1>6, StaysSourced
<1>8. Mine' # {} /\ \A u \in Mine' : Len(u.parts) = at.etags + 1
                                     /\ Fits(past.had, u.parts, at.etags + 1)
  BY <1>4, <1>6 DEF Mine
<1>9. \A u \in uploads' : u.left = "no" => u.id = at'.uid
  BY <1>1, <1>4, <1>6 DEF Assembled
<1>10. CASE Again \/ (NextPart /\ at.etags + 1 # Len(call.body))
  <2>1. at'.pc = "part" /\ at'.etags \in {at.etags, at.etags + 1} /\ at'.etags < Len(call.body)
    BY <1>1, <1>3, <1>10, AgainMoves, NextPartMoves DEF Stands
  <2>2. \A u \in Mine' : Len(u.parts) >= at'.etags /\ Fits(past'.had, u.parts, at'.etags)
    BY <2>1, <1>3, <1>7, <1>8, SMTT(30) DEF Fits
  <2>3. Assembled'
    BY <2>1, <2>2, <1>6, <1>8, <1>9 DEF Assembled
  <2> QED
    BY <2>1, <2>3, <1>1, <1>2, <1>4, <1>5, <1>6, <1>7, KeptRefines
    DEF StepKeeps, ClientInv, Typed, CallOK, Placed, Fetched, Kept
<1>11. CASE NextPart /\ at.etags + 1 = Len(call.body)
  <2>1. at'.pc = "complete"
    BY <1>1, <1>11, NextPartMoves DEF Stands
  <2>2. \A u \in Mine' : Len(u.parts) = Len(call.body) /\ Fits(past'.had, u.parts, Len(call.body))
    BY <1>8, <1>11, <1>7
  <2>3. Assembled'
    BY <2>1, <2>2, <1>6, <1>8, <1>9 DEF Assembled
  <2> QED
    BY <2>1, <2>3, <1>1, <1>2, <1>4, <1>5, <1>6, <1>7, KeptRefines
    DEF StepKeeps, ClientInv, Typed, CallOK, Placed, Fetched, Kept
<1> QED
  BY <1>10, <1>11

LEMMA PartSteps ==
  ASSUME ClientInv, UploadPart
  PROVE  StepKeeps
<1>1. /\ StoreOK /\ CallOK /\ PartOK /\ PastOK /\ AtOK /\ UploadsOK
      /\ Placed /\ Assembled /\ Fetched /\ Sourced
  BY DEF ClientInv, Typed
<1>2. at.pc = "part" /\ UNCHANGED <<files, stop, server>>
  BY DEF UploadPart
<1>3. CASE Unmoved /\ GivesUpParts
  BY <1>2, <1>3, GivesUpSteps
<1>4. CASE HoldsPart /\ (NextPart \/ Again) /\ at.etags < Len(source.read)
  BY <1>2, <1>4, SentSteps
<1>5. CASE HoldsPart /\ GivesUpParts /\ at.etags < Len(source.read)
  <2>1. /\ UploadsOK' /\ UNCHANGED <<store, past>>
        /\ \A u \in uploads' : u \in uploads \/ u.id = at.uid
    BY <1>2, <1>5, HoldsPartTyped
  <2>2. Stands("abort", at.uid, at.etags, at.offset) /\ UNCHANGED <<call, outcome>>
    BY <1>1, <1>5, GivesUpMoves
  <2>3. StoreOK' /\ PastOK' /\ PartOK' /\ UNCHANGED target
    BY <1>1, <1>2, <2>1 DEF StoreOK, PastOK, PartOK, files
  <2>4. CallOK' /\ AtOK' /\ Placed' /\ Assembled' /\ Fetched' /\ Sourced'
    BY <1>1, <1>2, <2>1, <2>2, StaysSourced
    DEF CallOK, Stands, Placed, Assembled, Fetched
  <2> QED
    BY <2>1, <2>2, <2>3, <2>4, KeptRefines DEF StepKeeps, ClientInv, Typed, Kept
<1>6. CASE Unmoved /\ Again
  <2>1. Stands(at.pc, at.uid, at.etags, at.offset) /\ UNCHANGED <<call, outcome>>
    BY <1>1, <1>6, AgainMoves
  <2>2. /\ StoreOK' /\ PastOK' /\ PartOK' /\ UploadsOK'
        /\ UNCHANGED <<store, uploads, past, target>>
    BY <1>1, <1>2, <1>6 DEF StoreOK, PastOK, PartOK, UploadsOK, files, Unmoved, bucket
  <2>3. Mine' = Mine
    BY <2>1, <2>2 DEF Mine, Stands
  <2>4. CallOK' /\ AtOK' /\ Placed' /\ Assembled' /\ Fetched' /\ Sourced'
    BY <1>1, <1>2, <2>1, <2>2, <2>3, StaysSourced
    DEF CallOK, Stands, Placed, Assembled, Fetched
  <2> QED
    BY <2>1, <2>2, <2>4, KeptRefines DEF StepKeeps, ClientInv, Typed, Kept
<1>7. at.etags >= Len(source.read) \/ at.etags < Len(source.read)
  BY <1>1, LenProperties DEF AtOK, Sourced
<1> QED
  BY <1>3, <1>4, <1>5, <1>6, <1>7 DEF UploadPart, Asked, AgainOr, Unmoved

LEMMA CompletedSteps ==
  ASSUME ClientInv, at.pc = "complete", Completed, UNCHANGED files, Succeeds \/ Fails \/ Again
  PROVE  StepKeeps
<1>1. /\ StoreOK /\ CallOK /\ PartOK /\ PastOK /\ AtOK /\ UploadsOK
      /\ Placed /\ Assembled /\ Fetched /\ Sourced
  BY DEF ClientInv, Typed
<1>2. call # NoCall /\ call.kind = "put" /\ call.body \in Bodies /\ call.key \in Keys
  BY <1>1, CallShape DEF Placed
<1>3. uploads' = uploads \ Mine /\ UploadsOK' /\ \A u \in uploads' : u.left # "no"
  BY <1>1, NoneLeft DEF Completed
<1>4. PICK u \in Mine : Holds([store EXCEPT ![call.key] = u.parts])
  BY DEF Completed
<1>5. u.parts \in Seq(Chunks) /\ Meant(u.parts)
  <2>1. u.parts \in Seq(Chunks)
    BY <1>1 DEF Mine, UploadsOK, Uploads
  <2>2. Len(u.parts) = Len(call.body) /\ Fits(past.had, u.parts, Len(u.parts)) /\ call.body \in past.had
    BY <1>1, <1>2 DEF Assembled, Sourced
  <2> QED
    BY <1>2, <2>1, <2>2, FittedIsMeant
<1>6. /\ StoreOK' /\ PastOK' /\ past'.done /\ past'.steady = past.steady /\ Changing /\ Changed
      /\ past'.had = past.had /\ past'.misled = past.misled
  <2>1. [store EXCEPT ![call.key] = u.parts] \in [Keys -> Seq(Chunks)]
    BY <1>1, <1>2, <1>5 DEF StoreOK
  <2> QED
    BY <1>1, <1>2, <1>4, <1>5, <2>1, HoldsTyped, StoredIsEffect DEF Changing
<1>7. PartOK' /\ UNCHANGED target
  BY <1>1 DEF PartOK, files
<1>8. CASE Again
  <2>1. Stands(at.pc, at.uid, at.etags, at.offset) /\ UNCHANGED <<call, outcome>>
    BY <1>1, <1>8, AgainMoves
  <2>2. Mine' = {}
    BY <1>3, <2>1 DEF Mine, Stands
  <2>3. CallOK' /\ AtOK' /\ Placed' /\ Assembled' /\ Fetched' /\ Sourced'
    BY <1>1, <1>3, <1>6, <2>1, <2>2, StaysSourced
    DEF CallOK, Stands, Placed, Assembled, Fetched
  <2>4. Promise!Next
    BY <1>2, <1>6, <1>7, <2>1, EffectRefines
  <2> QED
    BY <2>3, <2>4, <1>3, <1>6, <1>7 DEF StepKeeps, ClientInv, Typed
<1>9. CASE Succeeds \/ Fails
  <2>1. Stands("rest", 0, 0, 0) /\ call' = NoCall /\ outcome'.ok \in BOOLEAN
    BY <1>9, FailsMoves, SucceedsMoves
  <2>2. CallOK' /\ AtOK' /\ Placed' /\ Assembled' /\ Fetched' /\ Sourced'
    BY <1>1, <1>3, <2>1, EndedKeeps DEF CallOK, Stands
  <2>3. Promise!Next
    BY <1>2, <1>6, <1>7, <2>1, FailureRefines, SuccessRefines
  <2> QED
    BY <2>2, <2>3, <1>3, <1>6, <1>7 DEF StepKeeps, ClientInv, Typed
<1> QED
  BY <1>8, <1>9

(* A completion that an earlier attempt brought about: the answer may be   *)
(* anything, the effect is there.                                          *)
LEMMA GoneSteps ==
  ASSUME ClientInv, at.pc = "complete", Mine = {}, Unmoved, UNCHANGED files,
         Succeeds \/ Fails \/ Again
  PROVE  StepKeeps
<1>1. /\ StoreOK /\ CallOK /\ PartOK /\ PastOK /\ AtOK /\ UploadsOK
      /\ Placed /\ Assembled /\ Fetched /\ Sourced
  BY DEF ClientInv, Typed
<1>2. call # NoCall /\ call.kind = "put" /\ past.done
  BY <1>1 DEF Placed, Assembled
<1>3. /\ StoreOK' /\ PastOK' /\ PartOK' /\ UploadsOK'
      /\ UNCHANGED <<store, uploads, past, target>>
  BY <1>1 DEF StoreOK, PastOK, PartOK, UploadsOK, files, Unmoved, bucket
<1>4. \A u \in uploads : u.left # "no"
  BY <1>1 DEF Assembled, Mine
<1>5. CASE Again
  <2>1. Stands(at.pc, at.uid, at.etags, at.offset) /\ UNCHANGED <<call, outcome>>
    BY <1>1, <1>5, AgainMoves
  <2>2. Mine' = {}
    BY <1>3, <2>1 DEF Mine, Stands
  <2>3. CallOK' /\ AtOK' /\ Placed' /\ Assembled' /\ Fetched' /\ Sourced'
    BY <1>1, <1>2, <1>3, <1>4, <2>1, <2>2, StaysSourced
    DEF CallOK, Stands, Placed, Assembled, Fetched
  <2> QED
    BY <2>1, <2>3, <1>3, KeptRefines DEF StepKeeps, ClientInv, Typed, Kept
<1>6. CASE Succeeds \/ Fails
  <2>1. Stands("rest", 0, 0, 0) /\ call' = NoCall /\ outcome'.ok \in BOOLEAN
    BY <1>6, FailsMoves, SucceedsMoves
  <2>2. CallOK' /\ AtOK' /\ Placed' /\ Assembled' /\ Fetched' /\ Sourced'
    BY <1>1, <1>3, <1>4, <2>1, EndedKeeps DEF CallOK, Stands
  <2>3. Promise!Next
    BY <1>2, <1>3, <2>1, FailureRefines, SuccessRefines
  <2> QED
    BY <2>2, <2>3, <1>3 DEF StepKeeps, ClientInv, Typed
<1> QED
  BY <1>5, <1>6

LEMMA CompleteSteps ==
  ASSUME ClientInv, CompleteUpload
  PROVE  StepKeeps
<1>1. at.pc = "complete" /\ UNCHANGED <<files, stop, server>>
  BY DEF CompleteUpload
<1>2. call # NoCall /\ UploadsOK /\ Assembled
  BY <1>1 DEF ClientInv, Typed, Placed
<1>3. CASE Completed /\ (Succeeds \/ Fails \/ Again)
  BY <1>1, <1>3, CompletedSteps
<1>4. CASE Unmoved /\ GivesUpParts
  BY <1>1, <1>4, GivesUpSteps
<1>5. CASE /\ LeavesMine("uncompleted") /\ Succeeds /\ UNCHANGED store
           /\ past' = [past EXCEPT !.misled = TRUE]
  <2>1. StoreOK /\ PartOK /\ PastOK /\ Sourced
    BY DEF ClientInv, Typed
  <2>2. UploadsOK' /\ \A u \in uploads' : u.left # "no"
    BY <1>2, <1>5, NoneLeft DEF Reasons
  <2>3. StoreOK' /\ PartOK' /\ PastOK' /\ past'.misled /\ UNCHANGED target
    BY <1>1, <1>5, <2>1 DEF StoreOK, PartOK, PastOK, Pasts, files
  <2>4. Stands("rest", 0, 0, 0) /\ call' = NoCall /\ outcome'.ok = TRUE
    BY <1>5, SucceedsMoves
  <2>5. CallOK' /\ AtOK' /\ Placed' /\ Assembled' /\ Fetched' /\ Sourced'
    BY <2>1, <2>2, <2>4, EndedKeeps DEF CallOK, Stands
  <2>6. call.kind # "get"
    BY <1>1 DEF ClientInv, Placed
  <2>7. Promise!Next
    BY <1>2, <1>5, <2>3, <2>4, <2>6, SuccessRefines
  <2> QED
    BY <2>2, <2>3, <2>5, <2>7 DEF StepKeeps, ClientInv, Typed
<1>6. CASE UNCHANGED <<store, past>> /\ LeavesMine("uncompleted") /\ Fails
  BY <1>1, <1>2, <1>6, NoneLeft, FailedSteps DEF Reasons
<1>7. CASE UNCHANGED <<store, past, uploads>> /\ Again
  <2>1. /\ StoreOK /\ CallOK /\ PartOK /\ PastOK /\ AtOK /\ UploadsOK
        /\ Placed /\ Assembled /\ Fetched /\ Sourced
    BY DEF ClientInv, Typed
  <2>2. Stands(at.pc, at.uid, at.etags, at.offset) /\ UNCHANGED <<call, outcome>>
    BY <2>1, <1>7, AgainMoves
  <2>3. StoreOK' /\ PastOK' /\ PartOK' /\ UploadsOK' /\ UNCHANGED target
    BY <2>1, <1>1, <1>7 DEF StoreOK, PastOK, PartOK, UploadsOK, files
  <2>4. Mine' = Mine
    BY <2>2, <1>7 DEF Mine, Stands
  <2>5. CallOK' /\ AtOK' /\ Placed' /\ Assembled' /\ Fetched' /\ Sourced'
    BY <1>1, <1>7, <2>1, <2>2, <2>4, StaysSourced
    DEF CallOK, Stands, Placed, Assembled, Fetched
  <2> QED
    BY <1>7, <2>2, <2>3, <2>5, KeptRefines DEF StepKeeps, ClientInv, Typed, Kept
<1>8. CASE Mine = {} /\ Unmoved /\ (Succeeds \/ Fails \/ Again)
  BY <1>1, <1>8, GoneSteps
<1> QED
  BY <1>3, <1>4, <1>6, <1>7, <1>8, <1>5 DEF CompleteUpload, AgainOr

-----------------------------------------------------------------------------
(* Downloads.                                                              *)

(* Bytes from an offset on, behind those that were there.                  *)
LEMMA StreamShape ==
  ASSUME NEW obj \in Seq(Chunks), NEW base \in Seq(Chunks), NEW from \in Nat, from < Len(obj)
  PROVE  LET rest == SubSeq(obj, from + 1, Len(obj))
         IN  /\ rest \in Seq(Chunks) /\ Len(rest) = Len(obj) - from
             /\ SubSeq(rest, 1, Len(rest)) = rest
             /\ \A n \in 0 .. Len(rest) :
                  LET q == base \o SubSeq(rest, 1, n)
                  IN  /\ q \in Seq(Chunks)
                      /\ Len(base) = from /\ Agree(base, obj, from) =>
                           Len(q) = from + n /\ Agree(q, obj, from + n)
<1> DEFINE rest == SubSeq(obj, from + 1, Len(obj))
<1>1. Len(obj) \in Nat /\ Len(base) \in Nat
  BY LenProperties
<1>2. \A i \in from + 1 .. Len(obj) : obj[i] \in Chunks
  BY <1>1, ElementOfSeq
<1>3. from + 1 \in Int /\ Len(obj) \in Int /\ from + 1 <= Len(obj)
  BY <1>1
<1>4. rest \in Seq(Chunks)
  BY <1>2, <1>3, SubSeqProperties, Z3
<1>5. Len(rest) = Len(obj) - from
  BY <1>2, <1>3, SubSeqProperties, Z3
<1>6. \A i \in 1 .. Len(obj) - from : rest[i] = obj[from + i]
  BY <1>2, <1>3, SubSeqProperties, Z3
<1> HIDE DEF rest
<1>7. SubSeq(rest, 1, Len(rest)) = rest
  BY <1>4, SubSeqFull
<1>8. ASSUME NEW n \in 0 .. Len(rest)
      PROVE  LET q == base \o SubSeq(rest, 1, n)
             IN  /\ q \in Seq(Chunks)
                 /\ Len(base) = from /\ Agree(base, obj, from) =>
                      Len(q) = from + n /\ Agree(q, obj, from + n)
  <2> DEFINE s == SubSeq(rest, 1, n)
             q == base \o s
  <2>1. n \in Nat /\ n <= Len(rest) /\ \A i \in 1 .. n : rest[i] \in Chunks
    BY <1>1, <1>4, <1>5, ElementOfSeq
  <2>2. s \in Seq(Chunks)
    BY <2>1, SubSeqProperties, Z3
  <2>3. Len(s) = n
    BY <2>1, SubSeqProperties, Z3
  <2>4. \A i \in 1 .. n : s[i] = rest[i]
    BY <2>1, SubSeqProperties, Z3
  <2> HIDE DEF s
  <2>5. /\ q \in Seq(Chunks) /\ Len(q) = Len(base) + n
        /\ \A i \in 1 .. Len(base) + n : q[i] = IF i <= Len(base) THEN base[i] ELSE s[i - Len(base)]
    BY <2>2, <2>3, ConcatProperties
  <2> HIDE DEF q
  <2>6. ASSUME Len(base) = from, Agree(base, obj, from)
        PROVE  Agree(q, obj, from + n)
    <3> SUFFICES ASSUME NEW i \in 1 .. from + n PROVE q[i] = obj[i]
      BY DEF Agree
    <3>1. CASE i <= from
      BY <3>1, <2>5, <2>6, <2>1 DEF Agree
    <3>2. CASE i > from
      <4>1. i - from \in 1 .. n /\ q[i] = s[i - from]
        BY <3>2, <2>1, <2>5, <2>6
      <4>2. i - from \in 1 .. Len(obj) - from /\ from + (i - from) = i
        BY <4>1, <2>1, <1>1, <1>5
      <4> QED
        BY <4>1, <4>2, <2>4, <1>6
    <3> QED
      BY <3>1, <3>2, <2>1
  <2> QED
    BY <2>5, <2>6 DEF q, s
<1> QED
  BY <1>4, <1>5, <1>7, <1>8 DEF rest

(* A download in progress keeps its place and its prefix.                  *)
LEMMA FetchKeeps ==
  ASSUME ClientInv, at.pc = "get",
         UNCHANGED <<bucket, past, stop, server, target, call, outcome>>,
         PartOK', AtOK', Feeds, at'.pc \in {"get", "publish"},
         at'.pc = "get" => at'.offset = 0 \/ at'.offset = Len(part'),
         past.steady => Len(part') <= Len(store[call.key]) /\ Agree(part', store[call.key], Len(part'))
  PROVE  StepKeeps
<1>1. /\ StoreOK /\ CallOK /\ PartOK /\ PastOK /\ AtOK /\ UploadsOK
      /\ Placed /\ Assembled /\ Fetched /\ Sourced
  BY DEF ClientInv, Typed
<1>2. /\ StoreOK' /\ PastOK' /\ UploadsOK' /\ CallOK'
      /\ UNCHANGED <<store, uploads>>
  BY <1>1 DEF StoreOK, PastOK, UploadsOK, CallOK, bucket
<1>3. Placed' /\ Assembled'
  BY <1>1, <1>2, NoneOpen DEF Placed, Assembled
<1>4. Fetched' /\ Sourced'
  BY <1>1, <1>2 DEF Fetched, Sourced, Feeds
<1>5. UNCHANGED Promise!vars
  BY <1>2, KeptRefines DEF Kept
<1> QED
  BY <1>2, <1>3, <1>4, <1>5 DEF StepKeeps, ClientInv, Typed

(* One that failed leaves the file alone.                                  *)
LEMMA FetchFails ==
  ASSUME ClientInv, at.pc \in {"get", "publish"}, Fails,
         UNCHANGED <<bucket, past, stop, server, target>>, PartOK'
  PROVE  StepKeeps
<1>1. /\ StoreOK /\ CallOK /\ PastOK /\ AtOK /\ UploadsOK /\ Placed /\ Assembled /\ Sourced
  BY DEF ClientInv, Typed
<1>2. call # NoCall /\ \A u \in uploads : u.left # "no"
  BY <1>1, NoneOpen DEF Placed
<1>3. StoreOK' /\ PastOK' /\ UploadsOK' /\ UNCHANGED <<store, uploads>>
  BY <1>1 DEF StoreOK, PastOK, UploadsOK, bucket
<1>4. Stands("rest", 0, 0, 0) /\ call' = NoCall /\ outcome'.ok = FALSE
  BY FailsMoves
<1>5. CallOK' /\ AtOK' /\ Placed' /\ Assembled' /\ Fetched' /\ Sourced'
  BY <1>1, <1>2, <1>3, <1>4, EndedKeeps DEF CallOK, Stands
<1>6. Promise!Next
  BY <1>2, <1>3, <1>4, FailureRefines
<1> QED
  BY <1>3, <1>5, <1>6 DEF StepKeeps, ClientInv, Typed

LEMMA EmptyPart == part' = Nothing => PartOK'
  BY EmptySeq DEF PartOK, Nothing

LEMMA OffsetMoves ==
  ASSUME AtOK, NEW n \in Nat, Goes([at EXCEPT !.attempt = @ + 1, !.offset = n])
  PROVE  Stands(at.pc, at.uid, at.etags, n) /\ UNCHANGED <<call, outcome>>
<1>1. at' = [pc |-> at.pc, attempt |-> at.attempt + 1, uid |-> at.uid, etags |-> at.etags,
             offset |-> n, names |-> at.names, token |-> at.token, pages |-> at.pages]
  BY DEF AtOK, Goes, Moves
<1> QED
  BY <1>1 DEF AtOK, Goes, Moves, Stands, Feeds

LEMMA ResumeSteps ==
  ASSUME ClientInv, at.pc = "get", UNCHANGED <<bucket, past, stop, server>>,
         NEW p \in Seq(Chunks), ResumesOrFails(p),
         past.steady => Len(p) <= Len(store[call.key]) /\ Agree(p, store[call.key], Len(p))
  PROVE  StepKeeps
<1>1. UNCHANGED target /\ AtOK
  BY DEF ResumesOrFails, ClientInv, Typed
<1>2. CASE part' = p /\ Goes([at EXCEPT !.attempt = @ + 1, !.offset = Len(p)])
  <2>1. Len(p) \in Nat
    BY LenProperties
  <2>2. Stands(at.pc, at.uid, at.etags, Len(p)) /\ UNCHANGED <<call, outcome>>
    BY <1>1, <1>2, <2>1, OffsetMoves
  <2> QED
    BY <1>1, <1>2, <2>2, FetchKeeps DEF Stands, PartOK
<1>3. CASE Fails /\ part' = Nothing
  BY <1>1, <1>3, EmptyPart, FetchFails
<1> QED
  BY <1>2, <1>3 DEF ResumesOrFails

LEMMA PublishNext ==
  ASSUME ClientInv, at.pc = "get", UNCHANGED <<bucket, past, stop, server, target>>,
         NEW p \in Seq(Chunks), part' = p, Goes([at EXCEPT !.pc = "publish"]),
         past.steady => Len(p) <= Len(store[call.key]) /\ Agree(p, store[call.key], Len(p))
  PROVE  StepKeeps
<1>1. Stands("publish", at.uid, at.etags, at.offset) /\ UNCHANGED <<call, outcome>>
  BY GoesMoves DEF ClientInv, Typed, Goes, Moves, Pcs
<1> QED
  BY <1>1, FetchKeeps DEF Stands, PartOK

LEMMA StreamSteps ==
  ASSUME ClientInv, at.pc = "get", UNCHANGED <<bucket, past, stop, server>>,
         store[call.key] # Nothing,
         NEW from \in Nat, from = 0 \/ (from = at.offset /\ from < Len(store[call.key])),
         Streams(from)
  PROVE  StepKeeps
<1> DEFINE obj == store[call.key]
           base == IF from = 0 THEN <<>> ELSE part
           rest == SubSeq(obj, from + 1, Len(obj))
           limit == (IF Len(call.body) < MaxBytes THEN Len(call.body) ELSE MaxBytes) - from
           got(n) == base \o SubSeq(rest, 1, n)
           Sound(p) == p \in Seq(Chunks) /\ (past.steady => Len(p) <= Len(obj) /\ Agree(p, obj, Len(p)))
<1>1. /\ StoreOK /\ CallOK /\ PartOK /\ PastOK /\ AtOK /\ UploadsOK
      /\ Placed /\ Assembled /\ Fetched /\ Sourced
  BY DEF ClientInv, Typed
<1>2. call # NoCall /\ call.key \in Keys /\ call.body \in Bodies
  BY <1>1, CallShape DEF Placed
<1>3. obj \in Seq(Chunks) /\ Len(obj) \in Nat \ {0} /\ from < Len(obj)
  BY <1>1, <1>2, LenProperties, EmptySeq DEF StoreOK, Nothing
<1>4. limit \in Int
  BY <1>2, BodyShape, S3ClientAssumption
<1>5. base \in Seq(Chunks) /\ (past.steady => Len(base) = from /\ Agree(base, obj, from))
  <2>1. CASE from = 0
    BY <2>1, EmptySeq DEF Agree
  <2>2. CASE from # 0
    BY <2>2, <1>1 DEF Fetched, PartOK
  <2> QED
    BY <2>1, <2>2
<1> HIDE DEF obj, base, limit
<1>6. /\ rest \in Seq(Chunks) /\ Len(rest) = Len(obj) - from
      /\ SubSeq(rest, 1, Len(rest)) = rest
      /\ \A n \in 0 .. Len(rest) :
           /\ got(n) \in Seq(Chunks)
           /\ Len(base) = from /\ Agree(base, obj, from) =>
                Len(got(n)) = from + n /\ Agree(got(n), obj, from + n)
  BY <1>3, <1>5, StreamShape
<1>7. Len(rest) \in Nat
  BY <1>6, LenProperties
<1> HIDE DEF rest
<1>8. \A n \in 0 .. Len(rest) : Sound(got(n))
  BY <1>3, <1>5, <1>6
<1>9. base \o rest = got(Len(rest))
  BY <1>6
<1> HIDE DEF got
<1>10. ASSUME NEW p, Sound(p), part' = p, UNCHANGED target, Goes([at EXCEPT !.pc = "publish"])
       PROVE  StepKeeps
  BY <1>10, PublishNext DEF obj
<1>11. ASSUME NEW p, Sound(p), ResumesOrFails(p)
       PROVE  StepKeeps
  BY <1>11, ResumeSteps DEF obj
<1> HIDE DEF Sound
<1>12. \/ part' = base \o rest /\ UNCHANGED target /\ Goes([at EXCEPT !.pc = "publish"])
       \/ ~(Len(rest) <= limit) /\ \E n \in 0 .. limit : ResumesOrFails(got(n))
       \/ \E n \in {i \in 0 .. Len(rest) - 1 : i <= limit} : ResumesOrFails(got(n))
       \/ UNCHANGED target /\ Goes([at EXCEPT !.pc = "publish"])
          /\ \E n \in {i \in 0 .. Len(rest) - 1 : i <= limit} : part' = got(n)
  BY DEF Streams, obj, base, rest, limit, got
<1>13. CASE part' = base \o rest /\ UNCHANGED target /\ Goes([at EXCEPT !.pc = "publish"])
  BY <1>13, <1>7, <1>8, <1>9, <1>10
<1>14. CASE ~(Len(rest) <= limit) /\ \E n \in 0 .. limit : ResumesOrFails(got(n))
  <2>1. PICK n \in 0 .. limit : ResumesOrFails(got(n))
    BY <1>14
  <2>2. n \in 0 .. Len(rest)
    BY <2>1, <1>4, <1>7, <1>14
  <2> QED
    BY <2>1, <2>2, <1>8, <1>11
<1>15. CASE \E n \in {i \in 0 .. Len(rest) - 1 : i <= limit} : ResumesOrFails(got(n))
  <2>1. PICK n \in {i \in 0 .. Len(rest) - 1 : i <= limit} : ResumesOrFails(got(n))
    BY <1>15
  <2>2. n \in 0 .. Len(rest)
    BY <2>1, <1>7
  <2> QED
    BY <2>1, <2>2, <1>8, <1>11
<1>16. CASE UNCHANGED target /\ Goes([at EXCEPT !.pc = "publish"])
            /\ \E n \in {i \in 0 .. Len(rest) - 1 : i <= limit} : part' = got(n)
  <2>1. PICK n \in {i \in 0 .. Len(rest) - 1 : i <= limit} : part' = got(n)
    BY <1>16
  <2>2. n \in 0 .. Len(rest)
    BY <2>1, <1>7
  <2> QED
    BY <2>1, <2>2, <1>8, <1>10, <1>16
<1> QED
  BY <1>12, <1>13, <1>14, <1>15, <1>16

LEMMA GetSteps ==
  ASSUME ClientInv, GetAttempt
  PROVE  StepKeeps
<1>1. at.pc = "get" /\ UNCHANGED <<bucket, past, stop, server>>
  BY DEF GetAttempt
<1>2. AtOK /\ PartOK /\ Fetched /\ at.offset \in Nat /\ StoreOK /\ CallOK /\ call # NoCall
  BY <1>1 DEF ClientInv, Typed, AtOK, Placed
<1>3. CASE GetFails
  BY <1>1, <1>2, <1>3, EmptyPart, FetchFails DEF GetFails, PartOK
<1>4. CASE Fails /\ part' = Nothing /\ UNCHANGED target
  BY <1>1, <1>4, EmptyPart, FetchFails
<1>5. CASE Again /\ UNCHANGED <<part, target>>
  <2>1. Stands(at.pc, at.uid, at.etags, at.offset) /\ UNCHANGED <<call, outcome>>
    BY <1>2, <1>5, AgainMoves
  <2>2. /\ PartOK' /\ AtOK' /\ Feeds /\ at'.pc = "get"
        /\ at'.offset = 0 \/ at'.offset = Len(part')
    BY <2>1, <1>1, <1>2, <1>5 DEF Stands, PartOK, Fetched
  <2>3. past.steady => Len(part') <= Len(store[call.key]) /\ Agree(part', store[call.key], Len(part'))
    BY <1>1, <1>2, <1>5 DEF Fetched
  <2> QED
    BY <2>1, <2>2, <2>3, <1>1, <1>5, FetchKeeps
<1>6. CASE ~Refused /\ Streams(at.offset)
  BY <1>1, <1>2, <1>6, StreamSteps, SMTT(20) DEF Refused
<1>7. CASE store[call.key] # Nothing /\ Streams(0)
  BY <1>1, <1>7, StreamSteps
<1> QED
  BY <1>3, <1>4, <1>5, <1>6, <1>7 DEF GetAttempt

LEMMA PublishSteps ==
  ASSUME ClientInv, Publish
  PROVE  StepKeeps
<1>1. at.pc = "publish" /\ UNCHANGED <<bucket, past, stop, server>>
  BY DEF Publish
<1>2. /\ StoreOK /\ CallOK /\ PartOK /\ PastOK /\ AtOK /\ UploadsOK
      /\ Placed /\ Assembled /\ Fetched /\ Sourced
  BY DEF ClientInv, Typed
<1>3. call # NoCall /\ call.kind = "get" /\ call.key \in Keys
  BY <1>1, <1>2, CallShape DEF Placed
<1>4. CASE GetFails
  BY <1>1, <1>2, <1>4, EmptyPart, FetchFails DEF GetFails, PartOK
<1>5. CASE Fails /\ part' = Nothing /\ UNCHANGED target
  BY <1>1, <1>5, EmptyPart, FetchFails
<1>6. CASE Meets(part, call) /\ target' = part /\ part' = Nothing /\ Succeeds
  <2>1. Stands("rest", 0, 0, 0) /\ call' = NoCall /\ outcome'.ok = TRUE
    BY <1>6, SucceedsMoves
  <2>2. StoreOK' /\ PastOK' /\ UploadsOK' /\ PartOK' /\ UNCHANGED <<store, uploads>>
    BY <1>1, <1>2, <1>6, EmptyPart DEF StoreOK, PastOK, UploadsOK, bucket
  <2>3. \A u \in uploads : u.left # "no"
    BY <1>1, <1>2, NoneOpen
  <2>4. CallOK' /\ AtOK' /\ Placed' /\ Assembled' /\ Fetched' /\ Sourced'
    BY <1>2, <2>1, <2>2, <2>3, EndedKeeps DEF CallOK, Stands
  <2>5. past.steady => part = store[call.key]
    <3> SUFFICES ASSUME past.steady PROVE part = store[call.key]
      OBVIOUS
    <3>1. store[call.key] \in Seq(Chunks) /\ part \in Seq(Chunks)
      BY <1>2, <1>3 DEF StoreOK, PartOK
    <3>2. Len(part) = Len(store[call.key])
      BY <1>1, <1>2, <1>6 DEF Fetched, Meets
    <3>3. \A i \in 1 .. Len(part) : part[i] = store[call.key][i]
      BY <1>1, <1>2 DEF Fetched, Agree
    <3> QED
      BY <3>1, <3>2, <3>3, SeqEqual
  <2>6. Promise!Next
    BY <2>1, <2>2, <2>5, <1>3, <1>6, DownloadRefines DEF Meets
  <2> QED
    BY <2>2, <2>4, <2>6 DEF StepKeeps, ClientInv, Typed
<1> QED
  BY <1>4, <1>5, <1>6 DEF Publish

-----------------------------------------------------------------------------
(* Calls begin; the bucket, the operator and crashes intervene.            *)

LEMMA PairsTyped ==
  ASSUME NEW c \in Calls, NEW s \in [Keys -> Seq(Chunks)]
  PROVE  Pairs(c, s) \subseteq Versioned
<1>1. (IF c.kind = "list" THEN Keys ELSE {c.key}) \subseteq Keys
  BY S3ClientAssumption DEF Calls, NoCall
<1> QED
  BY <1>1 DEF Pairs, Versioned

LEMMA BeginSteps ==
  ASSUME ClientInv, Begin
  PROVE  StepKeeps
<1>1. /\ StoreOK /\ PartOK /\ call = NoCall
      /\ outcome' = Unknown /\ target' = Nothing /\ uploads' = {}
      /\ UNCHANGED <<store, part, stop, server, faults>>
  BY DEF ClientInv, Typed, Begin
<1>2. PICK c \in Calls :
        /\ call' = c /\ at' = Entry(c) /\ past' = Fresh(c)
        /\ source' = IF c.kind = "put" THEN [now |-> c.body, read |-> c.body] ELSE NoSource
  BY DEF Begin
<1>3. StoreOK' /\ PartOK' /\ UploadsOK' /\ CallOK' /\ UNCHANGED store
  BY <1>1, <1>2, FS_EmptySet DEF StoreOK, PartOK, UploadsOK, CallOK
<1>4. c # NoCall /\ c.kind \in {"put", "bytes", "get", "delete", "text", "list"}
      /\ (c.kind \in {"put", "bytes", "get"} => c.body \in Bodies) /\ c.kind # "none"
      /\ (c.kind # "list" => c.key \in Keys)
  BY <1>2, <1>3, NoCallShape, S3ClientAssumption DEF Calls, NoCall
<1>5. past' \in Pasts /\ ~past'.done /\ ~past'.misled
      /\ past'.had = (IF c.kind \in {"put", "bytes"} THEN {c.body} ELSE {})
      /\ (past'.steady => c.kind = "get" /\ part = Nothing /\ Len(store[c.key]) = Len(c.body))
  BY <1>1, <1>2, <1>4, PairsTyped DEF StoreOK, Fresh, Pasts
<1>6. ASSUME c.kind = "get"
      PROVE  AtOK' /\ Placed' /\ Assembled' /\ Fetched'
  <2>1. Len(part) \in Nat /\ ResumedOffset(c) \in {0, Len(part)}
    BY <1>1, LenProperties DEF PartOK, ResumedOffset
  <2>2. at' = [pc |-> "get", attempt |-> 1, uid |-> 0, etags |-> 0, offset |-> ResumedOffset(c),
               names |-> <<>>, token |-> 0, pages |-> 0]
    BY <1>2, <1>6 DEF Entry, Start
  <2>3. AtOK' /\ at'.pc = "get" /\ (at'.offset = 0 \/ at'.offset = Len(part'))
    BY <2>1, <2>2, <1>1 DEF AtOK, Pcs
  <2>4. past'.steady => /\ Len(store'[call'.key]) = Len(call'.body)
                        /\ Len(part') <= Len(store'[call'.key])
                        /\ Agree(part', store'[call'.key], Len(part'))
    <3>1. Len(store[c.key]) \in Nat
      BY <1>1, <1>4, <1>6, ObjectShape DEF StoreOK
    <3>2. part = Nothing => Len(part) = 0
      BY EmptySeq DEF Nothing
    <3> QED
      BY <3>1, <3>2, <1>1, <1>2, <1>5 DEF Agree
  <2> QED
    BY <2>3, <2>4, <1>1, <1>2, <1>4, <1>6 DEF Placed, Assembled, Fetched, Unknown
<1>7. ASSUME c.kind # "get"
      PROVE  AtOK' /\ Placed' /\ Assembled' /\ Fetched'
  <2>1. PICK pc \in {"put", "create", "bytes", "delete", "text", "list"} :
          /\ at' = Start(pc)
          /\ pc \in {"put", "create"} => c.kind = "put"
          /\ pc \notin {"put", "create"} => c.kind = pc
    BY <1>2, <1>4, <1>7 DEF Entry
  <2>2. AtOK' /\ at'.pc = pc
    BY <2>1 DEF AtOK, Pcs, Start
  <2> QED
    BY <2>1, <2>2, <1>1, <1>2, <1>4 DEF Placed, Assembled, Fetched, Unknown
<1>8. AtOK' /\ Placed' /\ Assembled' /\ Fetched'
  BY <1>6, <1>7
<1>9. Sourced'
  <2>1. c.kind = "put" => source'.now = c.body /\ source'.read = c.body /\ c.body \in Seq(Chunks)
    BY <1>2, <1>4, BodyShape
  <2>2. source' \in [now : Seq(Chunks), read : Seq(Chunks)]
    BY <1>2, <2>1, EmptySeq DEF NoSource, Nothing
  <2>3. at'.pc \in {"put", "create", "part"} => c.kind = "put"
    BY <1>2, <1>8 DEF Placed
  <2> QED
    BY <1>2, <1>5, <2>1, <2>2, <2>3 DEF Sourced
<1>10. Promise!Next
  <2>1. Promise!Begins
    BY <1>1, <1>2, <1>5 DEF Promise!Begins, Unknown
  <2> QED
    BY <2>1 DEF Promise!Next
<1> QED
  BY <1>3, <1>5, <1>8, <1>10, <1>9 DEF StepKeeps, ClientInv, Typed, PastOK

(* The vault writes the file: what is read of it is still what it had.      *)
LEMMA RewrittenSteps ==
  ASSUME ClientInv, Rewritten
  PROVE  StepKeeps
<1>1. /\ StoreOK /\ CallOK /\ PartOK /\ PastOK /\ AtOK /\ UploadsOK
      /\ Placed /\ Assembled /\ Fetched /\ Sourced
  BY DEF ClientInv, Typed
<1>2. PICK b \in Bodies :
        /\ past' = [past EXCEPT !.had = @ \union {b}]
        /\ source' = [source EXCEPT !.now = b] \/ source' = [now |-> b, read |-> b]
  BY DEF Rewritten
<1>3. /\ at.pc \in {"create", "put", "part"}
      /\ UNCHANGED <<bucket, files, call, at, outcome, stop, server, faults>>
  BY DEF Rewritten
<1>4. /\ PastOK' /\ past'.had = past.had \union {b}
      /\ past'.done = past.done /\ past'.steady = past.steady /\ past'.misled = past.misled
  BY <1>1, <1>2 DEF PastOK, Pasts
<1>5. StoreOK' /\ CallOK' /\ PartOK' /\ AtOK' /\ UploadsOK' /\ Mine' = Mine /\ UNCHANGED <<store, target>>
  BY <1>1, <1>3 DEF StoreOK, CallOK, PartOK, AtOK, UploadsOK, Mine, bucket, files
<1>6. Placed' /\ Fetched'
  BY <1>1, <1>3 DEF Placed, Fetched
<1>7. Assembled'
  <2>1. \A p, n : Fits(past.had, p, n) => Fits(past'.had, p, n)
    BY <1>4 DEF Fits
  <2> QED
    BY <1>1, <1>3, <1>4, <1>5, <2>1 DEF Assembled, bucket
<1>8. Sourced'
  <2>1. b \in Seq(Chunks)
    BY BodyShape
  <2>2. /\ source' \in [now : Seq(Chunks), read : Seq(Chunks)]
        /\ source'.now = b /\ source'.read \in {source.read, b}
    BY <1>1, <1>2, <2>1 DEF Sourced
  <2> QED
    BY <1>1, <1>3, <1>4, <2>2 DEF Sourced
<1>9. Promise!Next
  <2>1. Promise!Writes
    BY <1>3, <1>4, <1>5 DEF Promise!Writes
  <2> QED
    BY <2>1 DEF Promise!Next
<1> QED
  BY <1>4, <1>5, <1>6, <1>7, <1>8, <1>9 DEF StepKeeps, ClientInv, Typed

(* Another writer: a read has seen it, a download is no longer steady.     *)
LEMMA ReplacedSteps ==
  ASSUME ClientInv, Replaced
  PROVE  StepKeeps
<1>1. /\ StoreOK /\ CallOK /\ PartOK /\ PastOK /\ AtOK /\ UploadsOK
      /\ Placed /\ Assembled /\ Fetched /\ Sourced
  BY DEF ClientInv, Typed
<1>2. UNCHANGED <<uploads, files, call, at, source, outcome, stop, server>>
  BY DEF Replaced
<1>3. StoreOK' /\ \A k \in Keys : store'[k] \in Bodies \union {Nothing, store[k]}
  <2>1. PICK k \in Keys : \E b \in Contents(k) : store' = [store EXCEPT ![k] = b]
    BY DEF Replaced
  <2>2. PICK b \in Contents(k) : store' = [store EXCEPT ![k] = b]
    BY <2>1
  <2>3. b \in Bodies \union {Nothing} /\ b \in Seq(Chunks)
    BY ContentShape, ObjectShape
  <2> QED
    BY <2>2, <2>3, <1>1 DEF StoreOK
<1>4. PastOK' /\ past'.done = past.done /\ past'.had = past.had /\ past'.misled = past.misled
      /\ (past'.steady => past.steady /\ (call # NoCall /\ ~IsRead(call) => store'[call.key] = store[call.key]))
  <2>1. CASE call = NoCall
    BY <2>1, <1>1 DEF Replaced, PastOK
  <2>2. CASE call # NoCall
    <3>1. past' = Watched(store')
      BY <2>2 DEF Replaced
    <3>2. Pairs(call, store') \subseteq Versioned
      BY <2>2, <1>1, <1>3, CallShape, PairsTyped DEF StoreOK
    <3> QED
      BY <2>2, <3>1, <3>2, <1>1 DEF Watched, PastOK, Pasts
  <2> QED
    BY <2>1, <2>2
<1>5. AtOK' /\ UploadsOK' /\ CallOK' /\ PartOK' /\ Mine' = Mine /\ UNCHANGED target
  BY <1>1, <1>2 DEF AtOK, UploadsOK, CallOK, PartOK, Mine, files
<1>6. Placed' /\ Assembled' /\ Sourced'
  BY <1>1, <1>2, <1>4, <1>5 DEF Placed, Assembled, Sourced
<1>7. Fetched'
  BY <1>1, <1>2, <1>4 DEF Fetched, Placed, IsRead, files
<1>8. Promise!Next
  <2>1. Promise!Others
    BY <1>2, <1>3, <1>4, <1>5 DEF Promise!Others, StoreOK
  <2> QED
    BY <2>1 DEF Promise!Next
<1> QED
  BY <1>3, <1>4, <1>5, <1>6, <1>7, <1>8 DEF StepKeeps, ClientInv, Typed

(* The container starts again: the call is forgotten, what it uploaded is  *)
(* not.                                                                    *)
LEMMA RebootSteps ==
  ASSUME ClientInv, Reboot
  PROVE  StepKeeps
<1>1. /\ StoreOK /\ CallOK /\ PartOK /\ PastOK /\ AtOK /\ UploadsOK
      /\ Placed /\ Assembled /\ Fetched /\ Sourced
  BY DEF ClientInv, Typed
<1>2. /\ call' = NoCall /\ at' = Rest /\ source' = NoSource /\ outcome' = Unknown
      /\ LeavesMine("crash") /\ UNCHANGED <<store, target, server, past>>
      /\ part' = Nothing \/ part' = part
  BY DEF Reboot
<1>3. Stands("rest", 0, 0, 0) /\ outcome'.ok = FALSE
  BY <1>2 DEF Rest, Start, AtOK, Stands, Feeds, Pcs, Unknown
<1>4. UploadsOK' /\ \A u \in uploads' : u.left # "no"
  BY <1>1, <1>2, NoneLeft DEF Reasons
<1>5. StoreOK' /\ PastOK' /\ CallOK' /\ PartOK' /\ AtOK'
  BY <1>1, <1>2, <1>3, EmptyPart DEF StoreOK, PastOK, CallOK, PartOK, Stands
<1>6. Placed' /\ Assembled' /\ Fetched' /\ Sourced'
  BY <1>1, <1>2, <1>3, <1>4, EndedKeeps
<1>7. Promise!Next
  <2>1. CASE call # NoCall
    BY <2>1, <1>2, <1>3, FailureRefines
  <2>2. CASE call = NoCall
    <3>1. Promise!Forgets
      BY <2>2, <1>2, <1>3 DEF Promise!Forgets
    <3> QED
      BY <3>1 DEF Promise!Next
  <2> QED
    BY <2>1, <2>2
<1> QED
  BY <1>4, <1>5, <1>6, <1>7 DEF StepKeeps, ClientInv, Typed

LEMMA ClientInit == Init => ClientInv /\ Promise!Init
<1> SUFFICES ASSUME Init PROVE ClientInv /\ Promise!Init
  OBVIOUS
<1>1. StoreOK /\ CallOK /\ PartOK
  BY EmptySeq, ObjectShape DEF Init, StoreOK, CallOK, PartOK, Nothing
<1>2. PastOK /\ UploadsOK
  BY FS_EmptySet DEF Init, PastOK, Pasts, UploadsOK
<1>3. AtOK /\ at.pc = "rest"
  BY DEF Init, AtOK, Rest, Start, Pcs
<1>4. Placed /\ Assembled /\ Fetched /\ Sourced
  BY <1>3, EmptySeq DEF Init, Placed, Assembled, Fetched, Sourced, NoSource, NoCall, Nothing
<1>5. Promise!Init
  BY DEF Init, Promise!Init, Unknown
<1> QED
  BY <1>1, <1>2, <1>3, <1>4, <1>5 DEF ClientInv, Typed

LEMMA ClientStep ==
  ASSUME ClientInv, [Next]_vars
  PROVE  ClientInv' /\ [Promise!Next]_(Promise!vars)
<1>1. CASE Step
  BY <1>1, PutSteps, DeleteSteps, CreateSteps, PartSteps, CompleteSteps, AbortSteps, GetSteps,
     PublishSteps, TextSteps, ListSteps DEF Step, StepKeeps
<1>2. CASE Begin \/ Rewritten \/ Replaced \/ Reboot
  BY <1>2, BeginSteps, RewrittenSteps, ReplacedSteps, RebootSteps DEF StepKeeps
<1>3. CASE UNCHANGED <<store, uploads, files, call, at, source, outcome, past>>
  <2>1. ClientInv'
    BY <1>3 DEF ClientInv, Typed, StoreOK, CallOK, PartOK, PastOK, AtOK, UploadsOK, Placed,
                Assembled, Fetched, Sourced, Mine, files
  <2>2. UNCHANGED Promise!vars
    BY <1>3, KeptRefines DEF Kept, files
  <2> QED
    BY <2>1, <2>2
<1>4. RaiseStop \/ UNCHANGED vars => UNCHANGED <<store, uploads, files, call, at, source, outcome, past>>
  BY DEF RaiseStop, vars, bucket, files
<1> QED
  BY <1>1, <1>2, <1>3, <1>4 DEF Next

-----------------------------------------------------------------------------
(* Through lost answers, repeated effects, parts, resumed bodies, other    *)
(* writers of the bucket and of the file that is uploaded, completions     *)
(* that were none and crashes, the client does to the bucket and to the    *)
(* file of a download what S3Promise says, call by call.                   *)
THEOREM ClientKeepsItsPromise == Spec => CallsKeepThePromise
<1>1. Init => ClientInv /\ Promise!Init
  BY ClientInit
<1>2. ClientInv /\ [Next]_vars => ClientInv' /\ [Promise!Next]_(Promise!vars)
  BY ClientStep
<1> QED
  BY <1>1, <1>2, PTL DEF Spec, CallsKeepThePromise, Promise!Spec

(* Every upload that the client began and knows of is completed, aborted,  *)
(* or was lost to a failure of one of the two or to a crash.               *)
THEOREM NoUploadStaysOpen == Spec => []UploadsAreClosed
<1>1. ClientInv => UploadsAreClosed
  BY DEF ClientInv, Placed, Assembled, UploadsAreClosed
<1>2. Init => ClientInv
  BY ClientInit
<1>3. ClientInv /\ [Next]_vars => ClientInv'
  BY ClientStep
<1> QED
  BY <1>1, <1>2, <1>3, PTL DEF Spec

-----------------------------------------------------------------------------
(* A listing of distinct keys, sorted.                                     *)

Listing == Seq(Nat \X Nat)
Distinct(s) == \A i, j \in DOMAIN s : i # j => s[i][1] # s[j][1]

LEMMA BeforeOrders ==
  ASSUME NEW s \in Listing
  PROVE  /\ DOMAIN s = 1 .. Len(s) /\ Len(s) \in Nat
         /\ \A j \in DOMAIN s : s[j] \in Nat \X Nat /\ s[j][1] \in Nat /\ ~Before(s, j, j)
         /\ \A j, k \in DOMAIN s : j # k => Before(s, j, k) \/ Before(s, k, j)
         /\ \A i, j, k \in DOMAIN s : Before(s, i, j) /\ Before(s, j, k) => Before(s, i, k)
         /\ Distinct(s) => \A j, k \in DOMAIN s : Before(s, j, k) => s[j][1] < s[k][1]
<1>1. DOMAIN s = 1 .. Len(s) /\ Len(s) \in Nat
  BY LenProperties DEF Listing
<1>2. \A j \in DOMAIN s : s[j] \in Nat \X Nat /\ s[j][1] \in Nat
  BY ElementOfSeq, <1>1 DEF Listing
<1>3. \A j \in DOMAIN s : j \in Nat
  BY <1>1
<1> QED
  BY <1>1, <1>2, <1>3 DEF Before, Distinct

Ahead(s, k) == {j \in DOMAIN s : Before(s, j, k)}

LEMMA AheadCounts ==
  ASSUME NEW s \in Listing, NEW k \in DOMAIN s
  PROVE  /\ IsFiniteSet(Ahead(s, k)) /\ Cardinality(Ahead(s, k)) \in Nat
         /\ Place(s, k) = Cardinality(Ahead(s, k)) + 1
         /\ Place(s, k) \in DOMAIN s
<1>1. IsFiniteSet(DOMAIN s) /\ Cardinality(DOMAIN s) = Len(s)
  <2>1. DOMAIN s = 1 .. Len(s) /\ Len(s) \in Nat
    BY BeforeOrders
  <2>2. IsFiniteSet(1 .. Len(s)) /\ Cardinality(1 .. Len(s)) = IF 1 > Len(s) THEN 0 ELSE Len(s) - 1 + 1
    BY <2>1, FS_Interval
  <2> QED
    BY <2>1, <2>2
<1>2. Ahead(s, k) \in SUBSET (DOMAIN s \ {k})
  BY BeforeOrders DEF Ahead
<1>3. IsFiniteSet(DOMAIN s \ {k}) /\ Cardinality(DOMAIN s \ {k}) = Len(s) - 1
  BY <1>1, FS_RemoveElement
<1>4. /\ IsFiniteSet(Ahead(s, k)) /\ Cardinality(Ahead(s, k)) \in Nat
      /\ Cardinality(Ahead(s, k)) <= Len(s) - 1
  BY <1>2, <1>3, FS_Subset, FS_CardinalityType
<1>5. Place(s, k) = Cardinality(Ahead(s, k)) + 1
  BY DEF Place, Ahead
<1> QED
  BY <1>4, <1>5, BeforeOrders

LEMMA BeforeIsAhead ==
  ASSUME NEW s \in Listing, NEW j \in DOMAIN s, NEW k \in DOMAIN s, Before(s, j, k)
  PROVE  Place(s, j) < Place(s, k)
<1>1. Ahead(s, j) \in SUBSET Ahead(s, k)
  BY BeforeOrders DEF Ahead
<1>2. j \in Ahead(s, k) /\ j \notin Ahead(s, j)
  BY BeforeOrders DEF Ahead
<1>3. /\ Cardinality(Ahead(s, j)) <= Cardinality(Ahead(s, k))
      /\ Cardinality(Ahead(s, k)) # Cardinality(Ahead(s, j))
  BY <1>1, <1>2, AheadCounts, FS_Subset
<1> QED
  BY <1>3, AheadCounts

LEMMA PlacesFill ==
  ASSUME NEW s \in Listing
  PROVE  \A i \in DOMAIN s : \E k \in DOMAIN s : Place(s, k) = i
<1> DEFINE f == [k \in DOMAIN s |-> Place(s, k)]
<1>1. IsFiniteSet(DOMAIN s)
  BY BeforeOrders, FS_Interval
<1>2. f \in [DOMAIN s -> DOMAIN s]
  BY AheadCounts
<1>3. \A j, k \in DOMAIN s : Place(s, j) = Place(s, k) => j = k
  <2> SUFFICES ASSUME NEW j \in DOMAIN s, NEW k \in DOMAIN s, j # k
               PROVE  Place(s, j) # Place(s, k)
    OBVIOUS
  <2>1. Before(s, j, k) \/ Before(s, k, j)
    BY BeforeOrders
  <2>2. Place(s, j) \in Nat /\ Place(s, k) \in Nat
    BY AheadCounts
  <2> QED
    BY <2>1, <2>2, BeforeIsAhead
<1>4. f \in Injection(DOMAIN s, DOMAIN s)
  BY <1>2, <1>3 DEF Injection, IsInjective
<1>5. f \in Surjection(DOMAIN s, DOMAIN s)
  BY <1>1, <1>4, FS_Injection
<1> QED
  BY <1>5 DEF Surjection

(* Sorting distinct keys yields the same entries, each key above the last. *)
LEMMA SortedSorts ==
  ASSUME NEW s \in Listing, Distinct(s)
  PROVE  /\ \A i, j \in DOMAIN Sorted(s) : i < j => Sorted(s)[i][1] < Sorted(s)[j][1]
         /\ ToSet(Sorted(s)) = ToSet(s)
<1> DEFINE whose(i) == CHOOSE k \in DOMAIN s : Place(s, k) = i
<1>1. Sorted(s) = [i \in DOMAIN s |-> s[whose(i)]]
  BY DEF Sorted
<1>2. \A i \in DOMAIN s : whose(i) \in DOMAIN s /\ Place(s, whose(i)) = i
  BY PlacesFill
<1> HIDE DEF whose
<1>3. ASSUME NEW i \in DOMAIN s, NEW j \in DOMAIN s, i < j
      PROVE  s[whose(i)][1] < s[whose(j)][1]
  <2>1. i \in Nat /\ j \in Nat
    BY BeforeOrders
  <2>2. ~Before(s, whose(j), whose(i)) /\ whose(i) # whose(j)
    BY <1>2, <1>3, <2>1, BeforeIsAhead
  <2>3. Before(s, whose(i), whose(j))
    BY <1>2, <2>2, BeforeOrders
  <2> QED
    BY <1>2, <2>3, BeforeOrders
<1>4. ASSUME NEW k \in DOMAIN s
      PROVE  Place(s, k) \in DOMAIN s /\ whose(Place(s, k)) = k
  <2>1. Place(s, k) \in DOMAIN s /\ Place(s, k) \in Nat
    BY AheadCounts
  <2> DEFINE m == whose(Place(s, k))
  <2>2. m \in DOMAIN s /\ Place(s, m) = Place(s, k)
    BY <1>2, <2>1
  <2> HIDE DEF m
  <2>3. m = k
    BY <2>1, <2>2, BeforeOrders, BeforeIsAhead
  <2> QED
    BY <2>1, <2>3 DEF m
<1>5. ToSet(Sorted(s)) \subseteq ToSet(s)
  BY <1>1, <1>2 DEF ToSet
<1>6. ToSet(s) \subseteq ToSet(Sorted(s))
  BY <1>1, <1>4 DEF ToSet
<1> QED
  BY <1>1, <1>3, <1>5, <1>6

-----------------------------------------------------------------------------
(* What a read has seen: what the bucket holds is among all it could have  *)
(* read, and what it could have read throughout is in the bucket.          *)
Seen ==
  IsRead(call) =>
    past.held \subseteq Pairs(call, store) /\ Pairs(call, store) \subseteq past.seen

(* A step of a call goes on with it, or reports on it.                     *)
Reports ==
  \/ UNCHANGED <<call, outcome>>
  \/ call' = NoCall /\ outcome'.kind = call.kind

LEMMA ReturnsReports ==
  ASSUME \/ \E ok, value : Returns(ok, value)
         \/ \E next : Moves(next)
  PROVE  Reports
  BY DEF Returns, Moves, Reports

LEMMA EndsReport ==
  /\ Fails => Reports
  /\ Succeeds => Reports
  /\ Again => Reports
  /\ GivesUpParts => Reports
  /\ NextPart => Reports
<1>1. /\ Fails => \E ok, value : Returns(ok, value)
      /\ Succeeds => \E ok, value : Returns(ok, value)
      /\ Again => \E next : Moves(next)
      /\ GivesUpParts => \E next : Moves(next)
      /\ NextPart => \E next : Moves(next)
  BY Zenon DEF Fails, Succeeds, Again, Goes, GivesUpParts, NextPart
<1> QED
  BY <1>1, ReturnsReports

LEMMA AskedReports ==
  ASSUME NEW A, NEW B, NEW C, B => Reports, C => Reports, Asked(A, B, C)
  PROVE  Reports
<1>1. B \/ C \/ Again
  BY DEF Asked, AgainOr
<1> QED
  BY <1>1, EndsReport

LEMMA StepReports == Step => Reports
<1>1. Put \/ PutBytes \/ Delete => Reports
  <2>1. ASSUME NEW s, Asked(Holds(s), Succeeds, Fails) PROVE Reports
    BY <2>1, EndsReport, AskedReports
  <2> QED
    BY <2>1, EndsReport DEF Put, PutBytes, AgainOr, Delete
<1>2. CreateUpload => Reports
  <2>1. CreateUpload => Again \/ Fails \/ \E next : Moves(next)
    BY Zenon DEF CreateUpload, AgainOr, Goes
  <2> QED
    BY <2>1, EndsReport, ReturnsReports
<1>3. UploadPart => Reports
  BY EndsReport, AskedReports DEF UploadPart
<1>4. CompleteUpload \/ AbortUpload => Reports
  BY EndsReport DEF CompleteUpload, AbortUpload, AgainOr
<1>5. GetAttempt => Reports
  <2>1. ASSUME NEW p, ResumesOrFails(p) PROVE Reports
    BY <2>1, EndsReport, ReturnsReports DEF ResumesOrFails, Goes
  <2>2. ASSUME NEW from, Streams(from) PROVE Reports
    <3>1. (\E p : ResumesOrFails(p)) \/ \E next : Moves(next)
      BY <2>2, Zenon DEF Streams, Goes
    <3> QED
      BY <3>1, <2>1, ReturnsReports
  <2> QED
    BY <2>2, EndsReport, ReturnsReports DEF GetAttempt, GetFails
<1>6. Publish => Reports
  BY EndsReport DEF Publish, GetFails
<1>7. GetText => Reports
  <2>1. GetText => Again \/ Fails \/ \E ok, value : Returns(ok, value)
    BY Zenon DEF GetText, TextThere, AgainOr
  <2> QED
    BY <2>1, EndsReport, ReturnsReports
<1>8. ListPage => Reports
  <2>1. ListPage => \/ Again \/ Fails
                    \/ \E ok, value : Returns(ok, value)
                    \/ \E next : Moves(next)
    BY Zenon DEF ListPage, AgainOr, Goes
  <2> QED
    BY <2>1, EndsReport, ReturnsReports
<1> QED
  BY <1>1, <1>2, <1>3, <1>4, <1>5, <1>6, <1>7, <1>8 DEF Step

-----------------------------------------------------------------------------
(* The pages of a listing.                                                 *)

LEMMA LeastKey ==
  ASSUME NEW S \in SUBSET Nat, S # {}
  PROVE  \E m \in S : \A k \in S : m <= k
<1>1. PICK m \in S : \A k \in S : ~(<<k, m>> \in OpToRel(<, Nat))
  BY NatLessThanWellFounded, WFMin
<1>2. \A k \in S : ~(k < m)
  BY <1>1 DEF OpToRel
<1> QED
  BY <1>2

(* The greatest has the least number of others above it.                   *)
LEMMA GreatestKey ==
  ASSUME NEW S \in SUBSET Nat, IsFiniteSet(S), S # {}
  PROVE  \E m \in S : \A k \in S : k <= m
<1> DEFINE above(k) == {j \in S : k < j}
           counts == {Cardinality(above(k)) : k \in S}
<1>1. \A k \in S : IsFiniteSet(above(k)) /\ Cardinality(above(k)) \in Nat
  <2> TAKE k \in S
  <2>1. above(k) \in SUBSET S
    OBVIOUS
  <2> QED
    BY <2>1, FS_Subset, FS_CardinalityType
<1>2. counts \in SUBSET Nat /\ counts # {}
  BY <1>1
<1>3. PICK m \in S : \A k \in S : Cardinality(above(m)) <= Cardinality(above(k))
  <2>1. PICK c \in counts : \A d \in counts : c <= d
    BY <1>2, LeastKey
  <2> QED
    BY <2>1
<1>4. ASSUME NEW k \in S, m < k PROVE FALSE
  <2>0. k \in Nat /\ m \in Nat /\ \A j \in S : j \in Nat
    OBVIOUS
  <2>1. above(k) \in SUBSET above(m)
    <3> SUFFICES ASSUME NEW j \in S, k < j PROVE m < j
      OBVIOUS
    <3> QED
      BY <1>4, <2>0
  <2>2. k \in above(m) /\ k \notin above(k)
    BY <1>4, <2>0
  <2>3. /\ Cardinality(above(k)) <= Cardinality(above(m))
        /\ Cardinality(above(m)) # Cardinality(above(k))
    BY <1>1, <2>1, <2>2, FS_Subset
  <2> QED
    BY <1>1, <1>3, <2>3
<1> QED
  BY <1>4

UpTo(t) == {k \in Keys : k <= t}

(* A page has the next keys there are: all of them, or those up to its     *)
(* last, which is the token it gives.                                      *)
LEMMA PageReaches ==
  ASSUME NEW t \in Nat, NEW ks, ks = PageKeys(t)
  PROVE  /\ ks \subseteq After(t) /\ IsFiniteSet(ks) /\ After(t) \subseteq Keys \ UpTo(t)
         /\ After(t) \ ks # {} =>
              /\ LastKey(ks) \in ks
              /\ ks = {k \in After(t) : k <= LastKey(ks)}
<1> DEFINE A == After(t)
           below(k) == {j \in A : j < k}
<1>1. A \in SUBSET Keys /\ Keys \in SUBSET Nat /\ IsFiniteSet(A) /\ A \in SUBSET Nat
  BY S3ClientAssumption, FS_Subset DEF After
<1>2. \A k \in A : IsFiniteSet(below(k)) /\ Cardinality(below(k)) \in Nat
  <2> TAKE k \in A
  <2>1. below(k) \in SUBSET A
    OBVIOUS
  <2> QED
    BY <1>1, <2>1, FS_Subset, FS_CardinalityType
<1>3. ks = {k \in A : Cardinality(below(k)) < PageSize}
  BY DEF PageKeys
<1>4. ks \in SUBSET A /\ IsFiniteSet(ks)
  BY <1>1, <1>3, FS_Subset
<1>5. A \subseteq Keys \ UpTo(t)
  BY <1>1 DEF After, UpTo
<1>6. ASSUME NEW k \in ks, NEW j \in A, j <= k PROVE j \in ks
  <2>1. below(j) \in SUBSET below(k)
    BY <1>1, <1>4, <1>6
  <2>2. Cardinality(below(j)) <= Cardinality(below(k))
    BY <1>2, <1>4, <2>1, FS_Subset
  <2>3. /\ PageSize \in Nat /\ Cardinality(below(k)) < PageSize
        /\ Cardinality(below(j)) \in Nat /\ Cardinality(below(k)) \in Nat
    BY <1>2, <1>3, <1>4, S3ClientAssumption
  <2>4. Cardinality(below(j)) < PageSize
    BY <2>2, <2>3
  <2> QED
    BY <1>3, <2>4
<1>7. ASSUME A \ ks # {} PROVE LastKey(ks) \in ks /\ ks = {k \in A : k <= LastKey(ks)}
  <2>1. PICK m \in A : \A k \in A : m <= k
    BY <1>1, <1>7, LeastKey
  <2>2. below(m) = {}
    BY <1>1, <2>1
  <2>3. m \in ks
    BY <1>3, <2>2, FS_EmptySet, S3ClientAssumption
  <2>4. \E k \in ks : \A j \in ks : j <= k
    BY <1>1, <1>4, <2>3, GreatestKey
  <2>5. LastKey(ks) \in ks /\ \A j \in ks : j <= LastKey(ks)
    BY <2>4 DEF LastKey
  <2> QED
    BY <1>4, <1>6, <2>5
<1> QED
  BY <1>4, <1>5, <1>7

LEMMA EntriesListed ==
  ASSUME StoreOK, NEW ks \in SUBSET Keys, IsFiniteSet(ks), NEW es \in SetToSeqs(Entries(ks))
  PROVE  es \in Listing /\ Distinct(es) /\ ToSet(es) = Entries(ks)
<1> DEFINE E == Entries(ks)
           D == 1 .. Cardinality(E)
           f == [k \in ks |-> <<k, Len(store[k])>>]
<1>1. IsFiniteSet(E)
  <2>1. f \in Surjection(ks, E)
    BY DEF Surjection, Entries
  <2> QED
    BY <2>1, FS_Surjection
<1>2. E \subseteq Nat \X Nat
  BY LenProperties, S3ClientAssumption DEF StoreOK, Entries
<1>3. es \in [D -> E] /\ \A i, j \in D : i # j => es[i] # es[j]
  BY DEF SetToSeqs
<1>4. Cardinality(E) \in Nat /\ IsFiniteSet(D) /\ Cardinality(D) = Cardinality(E)
  <2>1. Cardinality(E) \in Nat
    BY <1>1, FS_CardinalityType
  <2>2. IsFiniteSet(D) /\ Cardinality(D) = IF 1 > Cardinality(E) THEN 0 ELSE Cardinality(E) - 1 + 1
    BY <2>1, FS_Interval
  <2> QED
    BY <2>1, <2>2
<1>5. es \in Surjection(D, E)
  <2>1. es \in Injection(D, E)
    BY <1>3 DEF Injection, IsInjective
  <2> QED
    BY <1>1, <1>4, <2>1, FS_Injection
<1>6. DOMAIN es = D /\ es \in Seq(E)
  BY <1>3, <1>4
<1>7. es \in Listing
  BY <1>2, <1>6 DEF Listing
<1>8. \A x, y \in E : x[1] = y[1] => x = y
  BY DEF Entries
<1>9. Distinct(es)
  BY <1>3, <1>6, <1>8 DEF Distinct
<1>10. ToSet(es) = E
  BY <1>5, <1>6 DEF ToSet, Surjection
<1> QED
  BY <1>7, <1>9, <1>10

(* A sequence that lists, of the keys K, what was held throughout, and     *)
(* nothing that was never seen.                                            *)
Collects(s, K, held, seen) ==
  /\ s \in Listing /\ Distinct(s)
  /\ \A i \in DOMAIN s : s[i][1] \in K
  /\ \A p \in held : p[1] \in K => \E i \in DOMAIN s : s[i][1] = p[1]
  /\ \A i \in DOMAIN s : \E p \in seen : s[i] = <<p[1], Len(p[2])>>

LEMMA JoinCollects ==
  ASSUME NEW s, NEW r, NEW K, NEW M, NEW held, NEW seen, K \intersect M = {},
         Collects(s, K, held, seen), Collects(r, M, held, seen)
  PROVE  Collects(s \o r, K \union M, held, seen)
<1> DEFINE w == s \o r
<1>1. s \in Listing /\ r \in Listing /\ w \in Listing
  BY ConcatProperties DEF Collects, Listing
<1>2. /\ DOMAIN s = 1 .. Len(s) /\ DOMAIN r = 1 .. Len(r) /\ DOMAIN w = 1 .. Len(w)
      /\ Len(s) \in Nat /\ Len(r) \in Nat /\ Len(w) = Len(s) + Len(r)
  BY <1>1, ConcatProperties, LenProperties DEF Listing
<1>3. \A i \in 1 .. Len(s) + Len(r) : w[i] = IF i <= Len(s) THEN s[i] ELSE r[i - Len(s)]
  BY <1>1, ConcatProperties DEF Listing
<1>4. /\ \A i \in DOMAIN s : i \in DOMAIN w /\ w[i] = s[i]
      /\ \A i \in DOMAIN r : i + Len(s) \in DOMAIN w /\ w[i + Len(s)] = r[i]
  BY <1>2, <1>3
<1>5. \A i \in DOMAIN w : \/ i \in DOMAIN s /\ w[i] = s[i]
                          \/ i - Len(s) \in DOMAIN r /\ w[i] = r[i - Len(s)]
  BY <1>2, <1>3
<1>6. \A i \in DOMAIN w : i \in Int
  BY <1>2
<1> HIDE DEF w
<1>7. ASSUME NEW i \in DOMAIN w, NEW j \in DOMAIN w, i # j PROVE w[i][1] # w[j][1]
  <2>1. CASE i \in DOMAIN s /\ w[i] = s[i] /\ j \in DOMAIN s /\ w[j] = s[j]
    BY <1>7, <2>1 DEF Collects, Distinct
  <2>2. CASE /\ i - Len(s) \in DOMAIN r /\ w[i] = r[i - Len(s)]
             /\ j - Len(s) \in DOMAIN r /\ w[j] = r[j - Len(s)]
    <3>1. i - Len(s) # j - Len(s)
      BY <1>2, <1>6, <1>7
    <3> QED
      BY <2>2, <3>1 DEF Collects, Distinct
  <2>3. CASE i \in DOMAIN s /\ w[i] = s[i] /\ j - Len(s) \in DOMAIN r /\ w[j] = r[j - Len(s)]
    BY <2>3 DEF Collects
  <2>4. CASE j \in DOMAIN s /\ w[j] = s[j] /\ i - Len(s) \in DOMAIN r /\ w[i] = r[i - Len(s)]
    BY <2>4 DEF Collects
  <2> QED
    BY <1>5, <2>1, <2>2, <2>3, <2>4
<1>8. \A i \in DOMAIN w : w[i][1] \in K \union M /\ \E p \in seen : w[i] = <<p[1], Len(p[2])>>
  BY <1>5 DEF Collects
<1>9. \A p \in held : p[1] \in K \union M => \E i \in DOMAIN w : w[i][1] = p[1]
  BY <1>4 DEF Collects
<1> QED
  BY <1>1, <1>7, <1>8, <1>9 DEF Collects, Distinct, w

Reached(page) == IF page.token = 0 THEN Keys ELSE UpTo(page.token)

LEMMA PageCollects ==
  ASSUME ClientInv, Seen, call.kind = "list", NEW t \in Nat, NEW page \in SoundPages(t)
  PROVE  /\ page.token \in Nat /\ UpTo(t) \subseteq Reached(page)
         /\ Collects(page.entries, Reached(page) \ UpTo(t), past.held, past.seen)
<1> DEFINE ks == PageKeys(t)
           es == page.entries
<1>1. /\ es \in SetToSeqs(Entries(ks))
      /\ page.token = IF After(t) \ ks # {} THEN LastKey(ks) ELSE 0
  BY DEF SoundPages
<1>2. /\ ks \subseteq After(t) /\ IsFiniteSet(ks) /\ After(t) \subseteq Keys \ UpTo(t)
      /\ After(t) \ ks # {} => /\ LastKey(ks) \in ks
                               /\ ks = {k \in After(t) : k <= LastKey(ks)}
  BY PageReaches
<1>3. Keys \subseteq Nat \ {0} /\ StoreOK /\ past \in Pasts
  BY S3ClientAssumption DEF ClientInv, Typed, PastOK
<1> HIDE DEF ks
<1>4. es \in Listing /\ Distinct(es) /\ ToSet(es) = Entries(ks)
  BY <1>1, <1>2, <1>3, EntriesListed
<1>5. page.token \in Nat /\ UpTo(t) \subseteq Reached(page)
  <2>1. CASE page.token = 0
    BY <2>1 DEF Reached, UpTo
  <2>2. CASE page.token # 0
    <3>1. page.token \in Keys \ UpTo(t)
      BY <1>1, <1>2, <2>2
    <3>2. page.token \in Nat /\ \A k \in Keys : k \in Nat
      BY <1>3, <3>1
    <3>3. \A k \in Keys : k <= t => k <= page.token
      BY <3>1, <3>2 DEF UpTo
    <3> QED
      BY <2>2, <3>2, <3>3 DEF Reached, UpTo
  <2> QED
    BY <2>1, <2>2
<1>6. ks = After(t) \intersect (Reached(page) \ UpTo(t))
  <2>1. CASE After(t) \ ks # {}
    <3>1. page.token = LastKey(ks) /\ LastKey(ks) \in Nat \ {0}
      BY <1>1, <1>2, <1>3, <2>1
    <3> QED
      BY <1>2, <2>1, <3>1 DEF Reached, UpTo
  <2>2. CASE After(t) \ ks = {}
    BY <1>1, <1>2, <2>2 DEF Reached
  <2> QED
    BY <2>1, <2>2
<1>7. /\ past.held \subseteq Pairs(call, store) /\ Pairs(call, store) \subseteq past.seen
      /\ Pairs(call, store) = {<<k, store[k]>> : k \in {j \in Keys : store[j] # Nothing}}
  BY DEF Seen, IsRead, Pairs
<1>8. \A i \in DOMAIN es : \E k \in ks : es[i] = <<k, Len(store[k])>>
  BY <1>4 DEF ToSet, Entries
<1>9. \A k \in ks : \E i \in DOMAIN es : es[i] = <<k, Len(store[k])>>
  BY <1>4 DEF ToSet, Entries
<1>10. \A k \in Keys \ UpTo(t) : store[k] # Nothing => k \in After(t)
  BY <1>3 DEF UpTo, After
<1>11. \A i \in DOMAIN es : es[i][1] \in Reached(page) \ UpTo(t)
  BY <1>6, <1>8
<1>12. \A p \in past.held : p[1] \in Reached(page) \ UpTo(t) => \E i \in DOMAIN es : es[i][1] = p[1]
  <2> SUFFICES ASSUME NEW p \in past.held, p[1] \in Reached(page) \ UpTo(t)
               PROVE  \E i \in DOMAIN es : es[i][1] = p[1]
    OBVIOUS
  <2>1. p[1] \in Keys /\ store[p[1]] # Nothing
    BY <1>7
  <2>2. p[1] \in ks
    BY <1>6, <1>10, <2>1
  <2>3. PICK i \in DOMAIN es : es[i] = <<p[1], Len(store[p[1]])>>
    BY <1>9, <2>2
  <2> QED
    BY <2>3
<1>13. \A i \in DOMAIN es : \E p \in past.seen : es[i] = <<p[1], Len(p[2])>>
  <2> SUFFICES ASSUME NEW i \in DOMAIN es
               PROVE  \E p \in past.seen : es[i] = <<p[1], Len(p[2])>>
    OBVIOUS
  <2>1. PICK k \in ks : es[i] = <<k, Len(store[k])>>
    BY <1>8
  <2>2. k \in Keys /\ store[k] # Nothing
    BY <1>2 DEF After
  <2>3. <<k, store[k]>> \in past.seen
    BY <1>7, <2>2
  <2> QED
    BY <2>1, <2>3
<1> QED
  BY <1>4, <1>5, <1>11, <1>12, <1>13 DEF Collects

-----------------------------------------------------------------------------
(* A listing in progress has what there was of the keys up to its token.   *)
Gathered ==
  at.pc = "list" /\ server = "sound" =>
    at.token \in Nat /\ Collects(at.names, UpTo(at.token), past.held, past.seen)

ReadInv == Seen /\ Gathered /\ ReadsAreTrue

(* A call that reads is where its kind takes it.                           *)
LEMMA ReadIsPlaced ==
  ASSUME ClientInv, IsRead(call)
  PROVE  at.pc = call.kind /\ call # NoCall
<1>1. call # NoCall
  BY NoCallShape DEF IsRead
<1>2. at.pc \in Pcs \ {"rest"}
  BY <1>1 DEF ClientInv, Typed, AtOK, Placed
<1> QED
  BY <1>1, <1>2 DEF ClientInv, Placed, Pcs, IsRead

(* A step that leaves the call alone, or begins or ends one unsuccessfully. *)
LEMMA QuietReads ==
  ASSUME ClientInv', Seen', ~outcome'.ok, call'.kind # "list"
  PROVE  ReadInv'
  BY DEF ReadInv, Gathered, ReadsAreTrue, TextsAreTrue, ListingsAreTrue, ClientInv, Placed

LEMMA GoesOn ==
  ASSUME ReadInv, UNCHANGED <<store, past, call, outcome, server>>,
         at'.pc = at.pc, at'.names = at.names, at'.token = at.token
  PROVE  ReadInv'
  BY DEF ReadInv, Seen, Gathered, ReadsAreTrue, TextsAreTrue, ListingsAreTrue, Pairs, IsRead

LEMMA GivesUpReading ==
  ASSUME ClientInv', Fails
  PROVE  ReadInv'
<1>1. call' = NoCall /\ ~outcome'.ok
  BY FailsMoves
<1> QED
  BY <1>1, QuietReads, NoCallShape DEF Seen, IsRead

LEMMA RepeatsReading ==
  ASSUME ClientInv, ReadInv, UNCHANGED <<store, past, server>>, Again
  PROVE  ReadInv'
<1>1. /\ UNCHANGED <<call, outcome>>
      /\ at'.pc = at.pc /\ at'.names = at.names /\ at'.token = at.token
  BY DEF Again, Moves, ClientInv, Typed, AtOK
<1> QED
  BY <1>1, GoesOn

LEMMA Beginnings ==
  ASSUME NEW s \in Seq(Chunks), NEW n \in 0 .. Len(s) - 1
  PROVE  IsPrefix(SubSeq(s, 1, n), s) /\ s # <<>>
<1>1. Len(s) \in Nat /\ \A i \in 1 .. n : s[i] \in Chunks
  BY LenProperties, ElementOfSeq
<1> DEFINE q == SubSeq(s, 1, n)
<1>2. q \in Seq(Chunks) /\ Len(q) = n
  BY <1>1, SubSeqProperties, Z3
<1>3. SubSeq(q, 1, Len(q)) = q
  BY <1>2, SubSeqFull
<1>4. q = SubSeq(s, 1, Len(q)) /\ Len(q) <= Len(s)
  BY <1>1, <1>2
<1> HIDE DEF q
<1>5. IsPrefix(q, s)
  BY <1>3, <1>4 DEF IsPrefix
<1> QED
  BY <1>1, <1>5, EmptySeq DEF q

LEMMA TextReads ==
  ASSUME ClientInv, ClientInv', ReadInv, GetText
  PROVE  ReadInv'
<1>1. /\ UNCHANGED <<store, server>> /\ call.kind = "text" /\ at.pc = "text" /\ past \in Pasts
      /\ store[call.key] \in Seq(Chunks)
  <2>1. call \in Calls /\ call.key \in Keys
    BY CallShape DEF GetText, ClientInv, Typed, Placed
  <2> QED
    BY <2>1 DEF GetText, bucket, ClientInv, Typed, StoreOK, PastOK, Placed
<1> DEFINE text == store[call.key]
           Begun(s) == IF past'.cut THEN IsPrefix(s, text) ELSE s = text
<1>2. \/ UNCHANGED past /\ (Again \/ Fails)
      \/ \E value : /\ Returns(TRUE, value)
                    /\ past' = past \/ past' = [past EXCEPT !.cut = TRUE]
                    /\ \/ value = <<>> /\ text = Nothing
                       \/ text # Nothing /\ \E s : value = <<s>> /\ Begun(s)
  <2>1. CASE UNCHANGED past /\ TextThere
    <3>1. IsPrefix(text, text)
      BY <1>1, LenProperties DEF IsPrefix
    <3> QED
      BY <2>1, <3>1 DEF TextThere
  <2>2. CASE /\ past' = [past EXCEPT !.cut = TRUE]
             /\ \E n \in {i \in 0 .. Len(text) - 1 : i <= MaxBytes} :
                  Returns(TRUE, <<SubSeq(text, 1, n)>>)
    <3>1. PICK n \in 0 .. Len(text) - 1 : Returns(TRUE, <<SubSeq(text, 1, n)>>)
      BY <2>2
    <3>2. IsPrefix(SubSeq(text, 1, n), text) /\ text # Nothing /\ past'.cut
      BY <1>1, <2>2, <3>1, Beginnings DEF Nothing, Pasts
    <3> QED
      BY <2>2, <3>1, <3>2
  <2> QED
    BY <2>1, <2>2 DEF GetText, AgainOr
<1>3. ASSUME NEW value, Returns(TRUE, value),
             past' = past \/ past' = [past EXCEPT !.cut = TRUE],
             \/ value = <<>> /\ text = Nothing
             \/ text # Nothing /\ \E s : value = <<s>> /\ Begun(s)
      PROVE  ReadInv'
  <2>1. /\ call' = NoCall /\ at'.pc = "rest"
        /\ outcome'.kind = "text" /\ outcome'.value = value
    BY <1>1, <1>3 DEF Returns, Rest, Start
  <2>2. Pairs(call, store) = IF text = Nothing THEN {} ELSE {<<call.key, text>>}
    BY <1>1 DEF Pairs
  <2>3. past.held \subseteq Pairs(call, store) /\ Pairs(call, store) \subseteq past.seen
    BY <1>1 DEF ReadInv, Seen, IsRead
  <2>4. past'.held = past.held /\ past'.seen = past.seen
    BY <1>1, <1>3 DEF Pasts
  <2>5. value = <<>> => past.held = {}
    BY <1>3, <2>2, <2>3
  <2>6. value # <<>> => \E p \in past.seen : IF past'.cut THEN IsPrefix(value[1], p[2])
                                                        ELSE value[1] = p[2]
    <3> SUFFICES ASSUME value # <<>>
                 PROVE  \E p \in past.seen : IF past'.cut THEN IsPrefix(value[1], p[2])
                                                           ELSE value[1] = p[2]
      OBVIOUS
    <3>1. <<call.key, text>> \in past.seen /\ Begun(value[1])
      BY <1>3, <2>2, <2>3
    <3> QED
      BY <3>1
  <2>7. TextsAreTrue' /\ ListingsAreTrue'
    BY <2>1, <2>4, <2>5, <2>6 DEF TextsAreTrue, ListingsAreTrue
  <2> QED
    BY <2>1, <2>7, NoCallShape DEF ReadInv, Seen, Gathered, ReadsAreTrue, IsRead
<1> QED
  BY <1>1, <1>2, <1>3, GivesUpReading, RepeatsReading

(* What a listing returns when its last page is in.                        *)
LEMMA ListingEnds ==
  ASSUME ClientInv, ClientInv', at.pc = "list", UNCHANGED <<past, server>>,
         NEW names, Returns(TRUE, Sorted(names)),
         server = "sound" => Collects(names, Keys, past.held, past.seen)
  PROVE  ReadInv'
<1>1. /\ call' = NoCall /\ at'.pc = "rest" /\ call.kind = "list"
      /\ outcome'.kind = "list" /\ outcome'.value = Sorted(names)
  BY DEF Returns, Rest, Start, ClientInv, Placed
<1>2. ListingsAreTrue'
  <2> SUFFICES ASSUME server = "sound" PROVE ListingsAreTrue'
    BY DEF ListingsAreTrue
  <2>1. /\ \A i, j \in DOMAIN Sorted(names) : i < j => Sorted(names)[i][1] < Sorted(names)[j][1]
        /\ ToSet(Sorted(names)) = ToSet(names)
    BY SortedSorts DEF Collects
  <2>2. \A p \in past.held : p[1] \in Keys
    BY DEF ClientInv, Typed, PastOK, Pasts, Versioned
  <2>3. {p[1] : p \in past.held} \subseteq {e[1] : e \in ToSet(names)}
    <3> SUFFICES ASSUME NEW p \in past.held PROVE \E e \in ToSet(names) : p[1] = e[1]
      OBVIOUS
    <3>1. PICK i \in DOMAIN names : names[i][1] = p[1]
      BY <2>2 DEF Collects
    <3> QED
      BY <3>1 DEF ToSet
  <2>4. ToSet(names) \subseteq {<<p[1], Len(p[2])>> : p \in past.seen}
    BY DEF Collects, ToSet
  <2> QED
    BY <1>1, <2>1, <2>3, <2>4 DEF ListingsAreTrue
<1> QED
  BY <1>1, <1>2, NoCallShape DEF ReadInv, Seen, Gathered, ReadsAreTrue, TextsAreTrue, IsRead

LEMMA PageTurns ==
  ASSUME ClientInv, ReadInv, at.pc = "list", UNCHANGED <<store, past, server>>,
         NEW names, NEW token, Goes(Turned(names, token)),
         server = "sound" =>
           token \in Nat /\ Collects(names, UpTo(token), past.held, past.seen)
  PROVE  ReadInv'
<1>1. UNCHANGED <<call, outcome>> /\ at'.names = names /\ at'.token = token
  BY DEF Goes, Moves, Turned, ClientInv, Typed, AtOK
<1>2. Seen'
  BY <1>1 DEF ReadInv, Seen, Pairs, IsRead
<1>3. Gathered'
  BY <1>1 DEF Gathered
<1>4. ReadsAreTrue'
  BY <1>1 DEF ReadInv, ReadsAreTrue, TextsAreTrue, ListingsAreTrue
<1> QED
  BY <1>2, <1>3, <1>4 DEF ReadInv

LEMMA ListReads ==
  ASSUME ClientInv, ClientInv', ReadInv, ListPage
  PROVE  ReadInv'
<1>1. UNCHANGED <<store, past, server>> /\ call.kind = "list" /\ at.pc = "list"
  BY DEF ListPage, bucket, ClientInv, Placed
<1> DEFINE pages == IF server = "sound" THEN SoundPages(at.token) ELSE BrokenPages
           after(page) == at.names \o page.entries
<1>2. \/ Again \/ Fails
      \/ \E page \in pages :
           \/ page.token = 0 /\ Returns(TRUE, Sorted(after(page)))
           \/ page.token # 0 /\ Goes(Turned(after(page), page.token))
  BY Zenon DEF ListPage, AgainOr
<1>3. ASSUME NEW page \in pages,
             \/ page.token = 0 /\ Returns(TRUE, Sorted(after(page)))
             \/ page.token # 0 /\ Goes(Turned(after(page), page.token))
      PROVE  ReadInv'
  <2>1. ASSUME server = "sound"
        PROVE  page.token \in Nat /\ Collects(after(page), Reached(page), past.held, past.seen)
    <3> DEFINE t == at.token
    <3>1. t \in Nat /\ Collects(at.names, UpTo(t), past.held, past.seen) /\ Seen
      BY <1>1, <2>1 DEF ReadInv, Gathered
    <3>2. page \in SoundPages(t)
      BY <2>1
    <3> HIDE DEF t
    <3>3. /\ page.token \in Nat /\ UpTo(t) \subseteq Reached(page)
          /\ Collects(page.entries, Reached(page) \ UpTo(t), past.held, past.seen)
      BY <1>1, <3>1, <3>2, PageCollects
    <3>4. Collects(at.names \o page.entries, UpTo(t) \union (Reached(page) \ UpTo(t)),
                   past.held, past.seen)
      BY <3>1, <3>3, JoinCollects
    <3>5. UpTo(t) \union (Reached(page) \ UpTo(t)) = Reached(page)
      BY <3>3
    <3> QED
      BY <3>3, <3>4, <3>5
  <2> HIDE DEF pages, after
  <2>2. CASE page.token = 0 /\ Returns(TRUE, Sorted(after(page)))
    BY <1>1, <2>1, <2>2, ListingEnds DEF Reached
  <2>3. CASE page.token # 0 /\ Goes(Turned(after(page), page.token))
    BY <1>1, <2>1, <2>3, PageTurns DEF Reached
  <2> QED
    BY <1>3, <2>2, <2>3
<1> HIDE DEF pages, after
<1> QED
  BY <1>1, <1>2, <1>3, GivesUpReading, RepeatsReading

LEMMA ReadBegins ==
  ASSUME ClientInv', Begin
  PROVE  ReadInv'
<1>1. PICK c \in Calls : call' = c /\ at' = Entry(c) /\ past' = Fresh(c) /\ UNCHANGED store
  BY DEF Begin
<1>2. ~outcome'.ok
  BY DEF Begin, Unknown
<1>3. Seen'
  BY <1>1 DEF Seen, Fresh, IsRead, Pairs
<1>4. CASE c.kind = "list"
  <2>1. at'.token = 0 /\ at'.names = <<>>
    BY <1>1, <1>4 DEF Entry, Start
  <2>2. UpTo(0) = {}
    <3>1. \A k \in Keys : k \in Nat \ {0}
      BY S3ClientAssumption
    <3>2. \A k \in Keys : ~(k <= 0)
      BY <3>1
    <3> QED
      BY <3>2 DEF UpTo
  <2>3. Collects(at'.names, UpTo(at'.token), past'.held, past'.seen)
    <3>1. at'.names \in Listing /\ DOMAIN at'.names = {}
      BY <2>1, EmptySeq DEF Listing
    <3>2. UpTo(at'.token) = {}
      BY <2>1, <2>2
    <3> QED
      BY <3>1, <3>2 DEF Collects, Distinct
  <2>4. Gathered'
    BY <2>1, <2>3 DEF Gathered
  <2> QED
    BY <1>2, <1>3, <2>4 DEF ReadInv, ReadsAreTrue, TextsAreTrue, ListingsAreTrue
<1> QED
  BY <1>1, <1>2, <1>3, <1>4, QuietReads

LEMMA ReadBesideWriter ==
  ASSUME ClientInv, ReadInv, Replaced
  PROVE  ReadInv'
<1>1. UNCHANGED <<call, at, outcome, server>>
  BY DEF Replaced
<1>2. CASE call = NoCall
  BY <1>1, <1>2, NoCallShape
     DEF Replaced, ReadInv, Seen, Gathered, IsRead, ReadsAreTrue, TextsAreTrue, ListingsAreTrue,
         ClientInv, Placed
<1>3. CASE call # NoCall
  <2>1. past' = Watched(store') /\ past \in Pasts /\ ~outcome.ok
    BY <1>3 DEF Replaced, ClientInv, Typed, PastOK, Placed
  <2>2. IsRead(call) =>
          /\ past'.seen = past.seen \union Pairs(call, store')
          /\ past'.held = past.held \intersect Pairs(call, store')
    BY <2>1 DEF Watched, Pasts
  <2>3. Seen'
    BY <1>1, <2>2 DEF Seen, IsRead, Pairs
  <2>4. at.pc = "list" => IsRead(call)
    BY DEF ClientInv, Placed, IsRead
  <2>5. Gathered'
    BY <1>1, <2>2, <2>4 DEF ReadInv, Gathered, Collects
  <2> QED
    BY <1>1, <2>1, <2>3, <2>5 DEF ReadInv, ReadsAreTrue, TextsAreTrue, ListingsAreTrue
<1> QED
  BY <1>2, <1>3

(* The file that is uploaded is none of a read's business.                 *)
LEMMA ReadBesideVault ==
  ASSUME ClientInv, ReadInv, Rewritten
  PROVE  ReadInv'
<1>1. UNCHANGED <<store, call, at, outcome, server>> /\ past \in Pasts
  BY DEF Rewritten, bucket, ClientInv, Typed, PastOK
<1>2. PICK b : past' = [past EXCEPT !.had = @ \union {b}]
  BY DEF Rewritten
<1>3. past'.seen = past.seen /\ past'.held = past.held /\ past'.cut = past.cut
  BY <1>1, <1>2 DEF Pasts
<1> QED
  BY <1>1, <1>3
  DEF ReadInv, Seen, Gathered, ReadsAreTrue, TextsAreTrue, ListingsAreTrue, Pairs, IsRead

LEMMA ReadStep ==
  ASSUME ClientInv, ClientInv', ReadInv, [Next]_vars
  PROVE  ReadInv'
<1>1. CASE Step /\ ~(GetText \/ ListPage)
  <2>1. Reports
    BY <1>1, StepReports
  <2>2. call # NoCall /\ ~outcome.ok /\ ~IsRead(call)
    <3>1. at.pc \notin {"rest", "text", "list"}
      BY <1>1 DEF Step, Put, PutBytes, Delete, CreateUpload, UploadPart, CompleteUpload,
                  AbortUpload, GetAttempt, Publish
    <3> QED
      BY <3>1, ReadIsPlaced DEF ClientInv, Placed, IsRead
  <2>3. CASE UNCHANGED <<call, outcome>>
    BY <2>2, <2>3, QuietReads DEF IsRead, Seen
  <2>4. CASE call' = NoCall /\ outcome'.kind = call.kind
    <3>1. TextsAreTrue' /\ ListingsAreTrue'
      BY <2>2, <2>4 DEF IsRead, TextsAreTrue, ListingsAreTrue
    <3> QED
      BY <2>4, <3>1, NoCallShape DEF ReadInv, Seen, Gathered, ReadsAreTrue, IsRead, ClientInv, Placed
  <2> QED
    BY <2>1, <2>3, <2>4 DEF Reports
<1>2. CASE Reboot
  <2>1. call' = NoCall /\ ~outcome'.ok
    BY <1>2 DEF Reboot, Unknown
  <2> QED
    BY <2>1, QuietReads, NoCallShape DEF Seen, IsRead
<1>3. CASE RaiseStop \/ UNCHANGED vars
  <2>1. UNCHANGED <<store, call, at, outcome, server, past>>
    BY <1>3 DEF RaiseStop, vars, bucket
  <2> QED
    BY <2>1, GoesOn
<1> QED
  BY <1>1, <1>2, <1>3, TextReads, ListReads, ReadBegins, ReadBesideWriter,
     ReadBesideVault DEF Next, Step

(* A text read returns what was there at some moment of the call, or the    *)
(* beginning of it where the answer ended early, and reports absent only    *)
(* what was; a listing has every key that was there     *)
(* throughout, once and in order, and none that never was.                  *)
THEOREM ReadsStayTrue == Spec => []ReadsAreTrue
<1>1. Init => ClientInv /\ ReadInv
  <2>1. Init => ReadInv
    BY NoCallShape DEF Init, ReadInv, Seen, Gathered, IsRead, Rest, Start, ReadsAreTrue,
                       TextsAreTrue, ListingsAreTrue, Unknown
  <2> QED
    BY <2>1, ClientInit
<1>2. ClientInv /\ ReadInv /\ [Next]_vars => ClientInv' /\ ReadInv'
  BY ClientStep, ReadStep
<1>3. ReadInv => ReadsAreTrue
  BY DEF ReadInv
<1> QED
  BY <1>1, <1>2, <1>3, PTL DEF Spec

=============================================================================
