------------------------------- MODULE S3Client -------------------------------
(***************************************************************************)
(* The S3 client (s3/client.rs): put in one request or in parts, get with  *)
(* resumption, the optional text read, paged listing and delete, each over *)
(* requests that may be lost, may take effect unheard, or may be refused.  *)
(*                                                                         *)
(* A content is a sequence of chunks, each tagged with the version it is   *)
(* of; a size is a number of chunks.  One attempt of one request is one    *)
(* action.  The bucket has other writers: an operator, another container;  *)
(* a file that is uploaded has one too, the vault, and is read again for   *)
(* every attempt, or part by part.                                         *)
(***************************************************************************)
EXTENDS Integers, FiniteSets, Sequences, SequencesExt

CONSTANTS
  Keys,             \* object names, in listing order
  CallKeys,         \* those this client's calls name
  Size,             \* the size of each version of a content
  OtherVersions,    \* bound: the versions of objects that no call names
  Threshold,        \* MULTIPART_THRESHOLD; a part is one chunk
  MaxParts,         \* MAX_PARTS
  RetryAttempts,    \* RETRY_ATTEMPTS
  DownloadAttempts, \* MAX_DOWNLOAD_ATTEMPTS
  MaxBytes,         \* the absolute cap of a download or a text read
  PageSize,         \* keys in one page of a listing
  MaxListKeys,      \* MAX_LIST_KEYS
  MaxListPages,     \* MAX_LIST_PAGES
  MaxBodies,        \* bound: contents a file has while it is uploaded
  Servers,          \* subset of {"sound", "broken"}
  Faults,           \* the faults that may strike
  MaxFaults         \* bound: faults over time

ASSUME S3ClientAssumption ==
  /\ Keys \subseteq Nat \ {0} /\ IsFiniteSet(Keys) /\ CallKeys \subseteq Keys
  /\ \A v \in DOMAIN Size : Size[v] \in Nat \ {0}
  /\ OtherVersions \subseteq DOMAIN Size
  /\ RetryAttempts \in Nat \ {0} /\ DownloadAttempts \in Nat \ {0}
  /\ PageSize \in Nat \ {0} /\ MaxListPages \in Nat \ {0}
  /\ {Threshold, MaxParts, MaxBytes, MaxListKeys, MaxBodies, MaxFaults} \subseteq Nat

VARIABLES
  store,   \* the object under each key
  uploads, \* the multipart uploads of the current or last call that are open
  target,  \* the file downloads are published as
  part,    \* its sibling temp file, `<path>.part`
  call,    \* the call in progress
  at,      \* how far it is
  source,  \* the file it uploads: what it has, what it had when last read
  outcome, \* what the last call returned
  stop,    \* the caller's abort flag
  server,  \* whether the endpoint pages as S3 does, or anyhow
  faults,  \* faults so far
  past     \* history: what the bucket and the file held since the call began

vars == <<store, uploads, target, part, call, at, source, outcome, stop, server, faults,
          past>>

bucket == <<store, uploads>>
files == <<target, part>>
-----------------------------------------------------------------------------
Versions == DOMAIN Size
Body(v) == [i \in 1 .. Size[v] |-> <<v, i>>]
Bodies == {Body(v) : v \in Versions}
Nothing == <<>>
Contents(k) == {Nothing} \union (IF k \in CallKeys THEN Bodies ELSE {Body(v) : v \in OtherVersions})

\* A get states what it must turn out to be: always a size, a hash where a
\* manifest provided one (Expect).
NoCall == [kind |-> "none", key |-> 0, body |-> Nothing, hash |-> FALSE]
Calls ==
  [kind : {"put", "bytes"}, key : CallKeys, body : Bodies, hash : {FALSE}]
    \union [kind : {"get"}, key : CallKeys, body : Bodies, hash : BOOLEAN]
    \union [kind : {"delete", "text"}, key : CallKeys, body : {Nothing}, hash : {FALSE}]
    \union {[NoCall EXCEPT !.kind = "list"]}

Start(pc) ==
  [pc |-> pc, attempt |-> 1, uid |-> 0, etags |-> 0, offset |-> 0,
   names |-> <<>>, token |-> 0, pages |-> 0]
Rest == Start("rest")

NoSource == [now |-> Nothing, read |-> Nothing]

Unknown == [kind |-> "none", ok |-> FALSE, value |-> <<>>]

Pairs(c, s) ==
  {<<k, s[k]>> : k \in {j \in IF c.kind = "list" THEN Keys ELSE {c.key} : s[j] # Nothing}}
IsRead(c) == c.kind \in {"text", "list"}

\* The history of a call: whether a change took effect; whether the object a
\* get fetches is the one whose size its caller was told, nobody has replaced
\* it and no partial file was there; what a read could have seen, and whether
\* its answer ended early; what the file to upload had, and whether an error
\* came as a success.
Fresh(c) ==
  LET pairs == IF IsRead(c) THEN Pairs(c, store) ELSE {}
  IN [done |-> FALSE, seen |-> pairs, held |-> pairs, cut |-> FALSE,
      had |-> IF c.kind \in {"put", "bytes"} THEN {c.body} ELSE {}, misled |-> FALSE,
      steady |-> c.kind = "get" /\ part = Nothing /\ Len(store[c.key]) = Len(c.body)]
Watched(s) ==
  IF IsRead(call)
  THEN [past EXCEPT !.seen = @ \union Pairs(call, s), !.held = @ \intersect Pairs(call, s)]
  ELSE [past EXCEPT !.steady = @ /\ s[call.key] = store[call.key]]

Init ==
  /\ store \in [Keys -> Bodies \union {Nothing}] /\ \A k \in Keys : store[k] \in Contents(k)
  /\ uploads = {}
  /\ target = Nothing /\ part = Nothing
  /\ call = NoCall /\ at = Rest /\ source = NoSource /\ outcome = Unknown
  /\ stop = FALSE /\ server \in Servers /\ faults = 0
  /\ past = [done |-> FALSE, steady |-> FALSE, seen |-> {}, held |-> {}, cut |-> FALSE,
             had |-> {}, misled |-> FALSE]

-----------------------------------------------------------------------------
(* Requests.                                                               *)

\* What goes wrong now and then with an endpoint that is sound.
Fault(f) == /\ server = "sound" /\ f \in Faults
            /\ faults < MaxFaults /\ faults' = faults + 1

\* The request did nothing and no usable answer came: a transport error, 429
\* or 5xx (`retryable`).  A broken endpoint may answer so for ever.
Lost ==
  \/ Fault("lost")
  \/ server = "broken" /\ UNCHANGED faults

Holds(s) == store' = s /\ past' = [past EXCEPT !.done = TRUE]
Unmoved == UNCHANGED <<bucket, past>>

Returns(ok, value) ==
  /\ call' = NoCall /\ at' = Rest /\ source' = NoSource
  /\ outcome' = [kind |-> call.kind, ok |-> ok, value |-> value]
Fails == Returns(FALSE, <<>>)
Succeeds == Returns(TRUE, <<>>)

Moves(next) == at' = next /\ UNCHANGED <<call, outcome>>
Goes(next) == Moves(next) /\ UNCHANGED source

\* A reading begins; it finds what the file has now.
ReadsOn == source' = [source EXCEPT !.read = source.now]

\* The next attempt.  A file sent whole is opened again, a part is kept.
Again ==
  /\ Moves([at EXCEPT !.attempt = @ + 1])
  /\ IF at.pc = "put" THEN ReadsOn ELSE UNCHANGED source

\* `retrying`: bounded attempts of one idempotent request.
AgainOr(fails) == IF at.attempt < RetryAttempts THEN Again ELSE fails

\* Mutant: `checked` is left out: a 3xx passes for success.
AskedUnchecked(effect, then, fails) ==
  \/ effect /\ then /\ UNCHANGED faults
  \/ Fault("landed") /\ effect /\ AgainOr(fails)
  \/ Lost /\ Unmoved /\ AgainOr(fails)
  \/ Fault("denied") /\ Unmoved /\ then

Asked(effect, then, fails) ==
  \/ effect /\ then /\ UNCHANGED faults
  \/ Fault("landed") /\ effect /\ AgainOr(fails)
  \/ Lost /\ Unmoved /\ AgainOr(fails)
  \/ Fault("denied") /\ Unmoved /\ fails

-----------------------------------------------------------------------------
(* A call begins: `if abort() { bail!("aborted") }`, then by its kind.  A    *)
(* get goes to a path where there is no file: its callers ask first.         *)

\* How much of an earlier attempt a download may resume (`resumed_offset`).
ResumedOffset(c) == IF Len(part) >= Len(c.body) THEN 0 ELSE Len(part)

Entry(c) ==
  CASE c.kind = "put" -> Start(IF Len(c.body) >= Threshold THEN "create" ELSE "put")
    [] c.kind = "get" -> [Start("get") EXCEPT !.offset = ResumedOffset(c)]
    [] OTHER -> Start(c.kind)

Begin ==
  /\ call = NoCall /\ ~stop
  /\ \E c \in Calls :
       /\ call' = c /\ at' = Entry(c) /\ past' = Fresh(c)
       /\ source' = IF c.kind = "put" THEN [now |-> c.body, read |-> c.body] ELSE NoSource
  /\ outcome' = Unknown
  /\ target' = Nothing /\ uploads' = {}
  /\ UNCHANGED <<store, part, stop, server, faults>>

\* What one pass over the file may read, of the length it had at the start: all
\* as it was then, or what follows some place as it is now.
Readings ==
  LET was == source.read
      now == source.now
  IN {was} \union {SubSeq(was, 1, n) \o SubSeq(now, n + 1, Len(was)) :
                     n \in {i \in 0 .. Len(was) : Len(was) <= Len(now)}}

\* A file below the threshold goes up in one request.  The attempt fails as one
\* that gets no answer does when the file cannot be opened, or ends too soon.
Put ==
  /\ at.pc = "put"
  /\ \/ \E body \in Readings :
          Asked(Holds([store EXCEPT ![call.key] = body]), Succeeds, Fails)
     \/ Fault("read") /\ Unmoved /\ AgainOr(Fails)
     \/ Len(source.now) < Len(source.read) /\ UNCHANGED faults /\ Unmoved /\ AgainOr(Fails)
  /\ UNCHANGED <<uploads, files, stop, server>>

\* A text built in memory.
PutBytes ==
  /\ at.pc = "bytes"
  /\ Asked(Holds([store EXCEPT ![call.key] = call.body]), Succeeds, Fails)
  /\ UNCHANGED <<uploads, files, stop, server>>

\* S3 answers a delete of a missing object with 204, other providers with 404.
Delete ==
  /\ at.pc = "delete"
  /\ \/ Asked(Holds([store EXCEPT ![call.key] = Nothing]), Succeeds, Fails)
     \/ store[call.key] = Nothing /\ Unmoved /\ Fails /\ UNCHANGED faults
  /\ UNCHANGED <<uploads, files, stop, server>>

-----------------------------------------------------------------------------
(* Multipart upload.                                                       *)

Open(u) == uploads' = uploads \union {u}
NewId == CHOOSE i \in 1 .. Cardinality(uploads) + 1 : \A u \in uploads : u.id # i
NewUpload == [id |-> NewId, parts |-> <<>>, left |-> "no"]
Mine == {u \in uploads : u.id = at.uid}

\* An upload the client knows no more of, or gave up: `left` says why, and its
\* parts matter no more.
LeavesMine(why) ==
  uploads' = (uploads \ Mine) \union {[u EXCEPT !.left = why, !.parts = <<>>] : u \in Mine}

CreateUpload ==
  /\ at.pc = "create"
  /\ \/ /\ Open(NewUpload) /\ UNCHANGED faults
        /\ Goes([Start("part") EXCEPT !.uid = NewId])
     \/ /\ Fault("landed") /\ Open([NewUpload EXCEPT !.left = "unheard"])
        /\ AgainOr(Fails)
     \/ Fault("garbled") /\ Open([NewUpload EXCEPT !.left = "unheard"]) /\ Fails
     \/ Lost /\ UNCHANGED uploads /\ AgainOr(Fails)
     \/ Fault("denied") /\ UNCHANGED uploads /\ Fails
  /\ UNCHANGED <<store, past, files, stop, server>>

\* Mutant: A failing part returns with `?` and leaves the upload open.
GivesUpPartsOpen == Fails

GivesUpParts ==
  Moves([at EXCEPT !.pc = "abort", !.attempt = 1]) /\ source' = NoSource

\* The part in hand is read once, off the file as it is by then, and sent as
\* often as it takes.
HoldsPart ==
  /\ uploads' = (uploads \ Mine) \union
       {[u EXCEPT !.parts = SubSeq(@, 1, at.etags) \o <<source.read[at.etags + 1]>>] : u \in Mine}
  /\ UNCHANGED <<store, past>>

NextPart ==
  /\ Moves([at EXCEPT !.etags = @ + 1, !.attempt = 1,
                      !.pc = IF at.etags + 1 = Len(call.body) THEN "complete" ELSE "part"])
  /\ IF at.etags + 1 = Len(call.body) THEN source' = NoSource ELSE ReadsOn

UploadPart ==
  /\ at.pc = "part"
  /\ IF \/ at.etags >= Len(source.read)
        \/ at.attempt = 1 /\ (stop \/ at.etags >= MaxParts)
     THEN GivesUpParts /\ UNCHANGED <<bucket, past, faults>>
     ELSE \/ Asked(HoldsPart, NextPart, GivesUpParts)
          \/ Fault("garbled") /\ HoldsPart /\ GivesUpParts      \* no ETag
          \/ at.attempt = 1 /\ Fault("read") /\ Unmoved /\ GivesUpParts
  /\ UNCHANGED <<files, stop, server>>

Completed ==
  /\ \E u \in Mine : Holds([store EXCEPT ![call.key] = u.parts])
  /\ uploads' = uploads \ Mine

\* A completion refused by a 3xx is followed by an abort; one that fails in
\* any other way returns at once (`?`).  An upload that an earlier attempt
\* completed is gone: the answer is 404, or 200 where it is remembered.  A 200
\* is taken at its word, though S3 may put an error in its body.
CompleteUpload ==
  /\ at.pc = "complete"
  /\ \/ /\ Mine # {}
        /\ \/ Completed /\ Succeeds /\ UNCHANGED faults
           \/ Fault("landed") /\ Completed /\ AgainOr(Fails)
           \/ Fault("redirect") /\ Unmoved /\ GivesUpParts
           \/ /\ Fault("hollow") /\ LeavesMine("uncompleted") /\ Succeeds
              /\ past' = [past EXCEPT !.misled = TRUE] /\ UNCHANGED store
           \/ /\ UNCHANGED <<store, past>>
              /\ \/ Fault("denied") /\ LeavesMine("uncompleted") /\ Fails
                 \/ Lost /\ IF at.attempt < RetryAttempts
                            THEN Again /\ UNCHANGED uploads
                            ELSE Fails /\ LeavesMine("uncompleted")
     \/ Mine = {} /\ Unmoved /\ (Succeeds \/ Fails) /\ UNCHANGED faults
     \/ Mine = {} /\ Unmoved /\ Lost /\ AgainOr(Fails)
  /\ UNCHANGED <<files, stop, server>>

\* Best effort, one request, whatever the answer (`abort_upload`).
AbortUpload ==
  /\ at.pc = "abort"
  /\ \/ uploads' = uploads \ Mine /\ UNCHANGED faults
     \/ (Lost \/ Fault("denied")) /\ LeavesMine("unaborted")
  /\ Fails
  /\ UNCHANGED <<store, past, files, stop, server>>

-----------------------------------------------------------------------------
(* Download.                                                               *)

\* The temp file is removed with every failure, if that can be done.
GetFails ==
  /\ Fails /\ UNCHANGED target
  /\ \/ part' = Nothing /\ UNCHANGED faults
     \/ part # Nothing /\ Fault("stuck") /\ UNCHANGED part

Refused ==
  \/ stop
  \/ store[call.key] = Nothing
  \/ at.offset > 0 /\ at.offset >= Len(store[call.key])

\* After an attempt that ended before the body did: resume, or give up.
ResumesOrFails(p) ==
  /\ UNCHANGED target
  /\ IF at.attempt < DownloadAttempts /\ Len(p) < Len(call.body)
     THEN part' = p /\ Goes([at EXCEPT !.attempt = @ + 1, !.offset = Len(p)])
     ELSE Fails /\ part' = Nothing

\* The bytes of one answer: those from the offset on where the range was
\* honoured, all of them where it was not.  The write stops at the size the
\* caller expects and at the cap.
Streams(from) ==
  LET base == IF from = 0 THEN <<>> ELSE part
      rest == SubSeq(store[call.key], from + 1, Len(store[call.key]))
      limit == (IF Len(call.body) < MaxBytes THEN Len(call.body) ELSE MaxBytes) - from
      got(n) == base \o SubSeq(rest, 1, n)
      fits == Len(rest) <= limit
  IN \/ /\ fits /\ part' = base \o rest /\ UNCHANGED <<target, faults>>
        /\ Goes([at EXCEPT !.pc = "publish"])
     \/ /\ ~fits /\ UNCHANGED faults
        /\ \E n \in 0 .. limit : ResumesOrFails(got(n))
     \/ /\ Fault("cut")
        /\ \E n \in {i \in 0 .. Len(rest) - 1 : i <= limit} : ResumesOrFails(got(n))
     \/ /\ Fault("short") /\ UNCHANGED target   \* no length was declared
        /\ \E n \in {i \in 0 .. Len(rest) - 1 : i <= limit} : part' = got(n)
        /\ Goes([at EXCEPT !.pc = "publish"])

GetAttempt ==
  /\ at.pc = "get"
  /\ \/ Refused /\ GetFails
     \/ Fault("denied") /\ Fails /\ part' = Nothing /\ UNCHANGED target
     \/ /\ ~stop /\ Lost /\ UNCHANGED target
        /\ IF at.attempt < DownloadAttempts
           THEN Again /\ UNCHANGED part
           ELSE Fails /\ part' = Nothing
     \/ ~Refused /\ Streams(at.offset)
     \/ ~stop /\ store[call.key] # Nothing /\ at.offset > 0 /\ server = "broken" /\ Streams(0)
  /\ UNCHANGED <<bucket, past, stop, server>>

Meets(p, c) == Len(p) = Len(c.body) /\ (c.hash => p = c.body)

Publish ==
  /\ at.pc = "publish"
  /\ \/ /\ Meets(part, call)
        /\ target' = part /\ part' = Nothing /\ Succeeds /\ UNCHANGED faults
     \/ ~Meets(part, call) /\ GetFails
     \/ Fault("io") /\ Fails /\ part' = Nothing /\ UNCHANGED target   \* hashing, renaming
  /\ UNCHANGED <<bucket, past, stop, server>>

-----------------------------------------------------------------------------
(* Reads.                                                                  *)

\* An optional text: none where the object is absent (404).
TextThere ==
  \/ store[call.key] = Nothing /\ Returns(TRUE, <<>>)
  \/ store[call.key] # Nothing /\ Len(store[call.key]) <= MaxBytes
     /\ Returns(TRUE, <<store[call.key]>>)
  \/ Len(store[call.key]) > MaxBytes /\ Fails

\* Mutant: A read that is refused passes for an object that is absent.
GetTextRefusedIsAbsent ==
  /\ at.pc = "text"
  /\ \/ /\ UNCHANGED <<past, faults>>
        /\ TextThere
     \/ Lost /\ UNCHANGED past /\ AgainOr(Fails)
     \/ Fault("denied") /\ UNCHANGED past /\ Returns(TRUE, <<>>)
     \/ Fault("cut") /\ UNCHANGED past /\ Fails
     \/ /\ Fault("short") /\ past' = [past EXCEPT !.cut = TRUE]
        /\ \E n \in {i \in 0 .. Len(store[call.key]) - 1 : i <= MaxBytes} :
             Returns(TRUE, <<SubSeq(store[call.key], 1, n)>>)
  /\ UNCHANGED <<bucket, files, stop, server>>

\* A body that ends early is the text, whatever length was declared: only the
\* cap is looked at.
GetText ==
  /\ at.pc = "text"
  /\ \/ /\ UNCHANGED <<past, faults>>
        /\ TextThere
     \/ Lost /\ UNCHANGED past /\ AgainOr(Fails)
     \/ (Fault("denied") \/ Fault("cut")) /\ UNCHANGED past /\ Fails
     \/ /\ Fault("short") /\ past' = [past EXCEPT !.cut = TRUE]
        /\ \E n \in {i \in 0 .. Len(store[call.key]) - 1 : i <= MaxBytes} :
             Returns(TRUE, <<SubSeq(store[call.key], 1, n)>>)
  /\ UNCHANGED <<bucket, files, stop, server>>

\* A page after a token, as S3 gives it: the next keys, in any order, and the
\* last of them as the next token where more remain.  Token 0 is none.
Entries(ks) == {<<k, Len(store[k])>> : k \in ks}
After(token) == {k \in Keys : k > token /\ store[k] # Nothing}
PageKeys(token) == {k \in After(token) : Cardinality({j \in After(token) : j < k}) < PageSize}
LastKey(ks) == CHOOSE k \in ks : \A j \in ks : j <= k
SoundPages(token) ==
  LET ks == PageKeys(token)
  IN {[entries |-> es, token |-> IF After(token) \ ks # {} THEN LastKey(ks) ELSE 0]
        : es \in SetToSeqs(Entries(ks))}
BrokenPages ==
  [entries : {<<>>} \union {<<e>> : e \in Entries({k \in Keys : store[k] # Nothing})},
   token : Keys \union {0}]

\* `sort_by` of the keys: the element at each place has as many before it.
Before(s, j, k) == s[j][1] < s[k][1] \/ (s[j][1] = s[k][1] /\ j < k)
Place(s, k) == Cardinality({j \in DOMAIN s : Before(s, j, k)}) + 1
Sorted(s) == [i \in DOMAIN s |-> s[CHOOSE k \in DOMAIN s : Place(s, k) = i]]

\* Mutant: pages are not counted.
TurnedUncounted(names, token) ==
  [at EXCEPT !.names = names, !.token = token, !.attempt = 1]

Turned(names, token) ==
  [at EXCEPT !.names = names, !.token = token, !.pages = @ + 1, !.attempt = 1]

ListPage ==
  /\ at.pc = "list"
  /\ \/ /\ at.attempt = 1 /\ (stop \/ at.pages + 1 > MaxListPages)
        /\ Fails /\ UNCHANGED faults
     \/ /\ at.attempt > 1 \/ ~(stop \/ at.pages + 1 > MaxListPages)
        /\ \/ /\ UNCHANGED faults
              /\ \E page \in IF server = "sound" THEN SoundPages(at.token) ELSE BrokenPages :
                   LET names == at.names \o page.entries
                   IN IF \/ Len(names) > MaxListKeys
                         \/ page.token # 0 /\ page.token = at.token
                      THEN Fails
                      ELSE IF page.token = 0
                      THEN Returns(TRUE, Sorted(names))
                      ELSE Goes(Turned(names, page.token))
           \/ Lost /\ AgainOr(Fails)
           \/ (Fault("denied") \/ Fault("garbled")) /\ Fails
  /\ UNCHANGED <<bucket, past, files, stop, server>>

-----------------------------------------------------------------------------
(* The world.                                                              *)

\* The vault writes the file that is uploaded, before or after the reading in
\* hand; a part that was sent once is not read again.  A file replaced by a
\* rename is written for those that open it afterwards.  What happens once all
\* is read is no matter.
Rewritten ==
  /\ at.pc \in {"create", "put", "part"}
  /\ \E b \in Bodies \ {source.now} :
       /\ Cardinality(past.had \union {b}) <= MaxBodies
       /\ past' = [past EXCEPT !.had = @ \union {b}]
       /\ \/ at.pc # "create" /\ source' = [source EXCEPT !.now = b]
          \/ /\ at.pc = "part" => at.attempt = 1
             /\ source' = [now |-> b, read |-> b]
  /\ UNCHANGED <<bucket, files, call, at, outcome, stop, server, faults>>

\* Another writer of the bucket, or its operator.
Replaced ==
  /\ Fault("replace")
  /\ \E k \in Keys : \E b \in Contents(k) :
       store' = [store EXCEPT ![k] = b] /\ store' # store
  /\ past' = IF call = NoCall THEN past ELSE Watched(store')
  /\ UNCHANGED <<uploads, files, call, at, source, outcome, stop, server>>

RaiseStop ==
  /\ ~stop /\ Fault("stop") /\ stop' = TRUE
  /\ UNCHANGED <<bucket, files, call, at, source, outcome, server, past>>

\* The container ends, killed or after a stop, and is started again.  The boot
\* removes partial downloads as far as it can (clear_partials, sweep_staging).
Reboot ==
  /\ \/ Fault("crash") /\ part' = Nothing
     \/ Fault("stuck") /\ UNCHANGED part
     \/ stop /\ call = NoCall /\ part' = Nothing /\ UNCHANGED faults
  /\ stop' = FALSE
  /\ call' = NoCall /\ at' = Rest /\ source' = NoSource /\ outcome' = Unknown
  /\ LeavesMine("crash")
  /\ UNCHANGED <<store, target, server, past>>

-----------------------------------------------------------------------------
Step ==
  \/ Put \/ PutBytes \/ Delete
  \/ CreateUpload \/ UploadPart \/ CompleteUpload \/ AbortUpload
  \/ GetAttempt \/ Publish
  \/ GetText \/ ListPage

Next == Begin \/ Step \/ Rewritten \/ Replaced \/ RaiseStop \/ Reboot

Spec == Init /\ [][Next]_vars

\* A call that began runs on: every request is answered or times out.
FairSpec == Spec /\ WF_vars(Step)

-----------------------------------------------------------------------------
(* Properties.                                                             *)

\* Each chunk of it is one that some version has at that place.
Pieces(s) == \A i \in DOMAIN s : \E b \in Bodies : i \in DOMAIN b /\ s[i] = b[i]

TypeOK ==
  /\ DOMAIN store = Keys /\ \A k \in Keys : Pieces(store[k])
  /\ \A u \in uploads : u.id \in Nat /\ Pieces(u.parts)
  /\ source.now \in Bodies \union {Nothing} /\ source.read \in Bodies \union {Nothing}
  /\ call \in Calls \union {NoCall}
  /\ at.attempt \in 1 .. RetryAttempts \/ at.attempt \in 1 .. DownloadAttempts
  /\ at.pages \in 0 .. MaxListPages /\ Len(at.names) <= MaxListKeys
  /\ part # Nothing /\ at.pc = "get" => at.offset \in {0, Len(part)}
  /\ stop \in BOOLEAN /\ server \in Servers /\ faults \in 0 .. MaxFaults

(* The client implements what it promises (S3Promise): through retries that  *)
(* repeat an effect, parts, resumed bodies and crashes, an object that is    *)
(* stored is the file, or was put together of the contents it had during the *)
(* call, each chunk at its place and none missing; a success is real, unless *)
(* the bucket reported one with an error in it; every published file is      *)
(* whole, and a failed download leaves it alone.  A download that is checked *)
(* by size alone promises this only while nobody replaces the object and no  *)
(* partial file was left over: nothing ties a 206 answer to the bytes        *)
(* already on disk.                                                          *)
Promise == INSTANCE S3Promise WITH
  Objects <- Bodies, Idle <- NoCall, ok <- outcome.ok,
  done <- call # NoCall /\ past.done, steady <- call # NoCall /\ past.steady,
  had <- past.had, misled <- past.misled
CallsKeepThePromise == Promise!Spec

(* What a read returns is true of the time it took.  A text was there, or    *)
(* begins one that was if its answer ended early, and is reported absent     *)
(* only if it was at some moment of the call, though the request is refused, *)
(* lost and sent again.  A listing has every key held    *)
(* throughout, each once and in key order, and no entry that never was,      *)
(* though others write between its pages and lost pages are asked for again. *)
TextsAreTrue ==
  outcome.ok /\ outcome.kind = "text" =>
    /\ outcome.value = <<>> => past.held = {}
    /\ outcome.value # <<>> =>
         \E p \in past.seen : IF past.cut THEN IsPrefix(outcome.value[1], p[2])
                                          ELSE outcome.value[1] = p[2]

ListingsAreTrue ==
  outcome.ok /\ outcome.kind = "list" /\ server = "sound" =>
    /\ \A i, j \in DOMAIN outcome.value :
         i < j => outcome.value[i][1] < outcome.value[j][1]
    /\ {p[1] : p \in past.held} \subseteq {e[1] : e \in ToSet(outcome.value)}
    /\ ToSet(outcome.value) \subseteq {<<p[1], Len(p[2])>> : p \in past.seen}

ReadsAreTrue == TextsAreTrue /\ ListingsAreTrue

(* What the comment on a download's body says of a connection that closed    *)
(* early (client.rs:607-609), of the other body that the client reads: what  *)
(* a text read returns is a text that was there, never the beginning of one. *)
TextsAreWhole ==
  outcome.ok /\ outcome.kind = "text" /\ outcome.value # <<>> =>
    \E p \in past.seen : outcome.value[1] = p[2]

(* What put_multipart says of itself (client.rs:315-317): an upload in parts *)
(* is completed or aborted, so that nothing half-uploaded stays behind one   *)
(* that is reported as done.                                                 *)
CompletedOrAborted ==
  outcome.ok /\ outcome.kind = "put" => uploads = {}

(* No upload that the client knows of stays open behind it, unless the abort  *)
(* or the completion itself failed: parts that cannot be read or sent, a body *)
(* of too many parts and a stop between two parts all end in an abort.        *)
UploadsAreClosed ==
  call = NoCall => \A u \in uploads : u.left # "no"

(* Every call ends, even against an endpoint that never answers and one that *)
(* announces pages for ever: attempts, pages and keys are all bounded.       *)
EveryCallEnds == call # NoCall ~> call = NoCall
=============================================================================
