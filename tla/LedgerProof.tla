---------------------------- MODULE LedgerProof ----------------------------
(***************************************************************************)
(* For every value of the constants: the state has its types, row locks    *)
(* keep what they lock, decisions stay on record, and the requests         *)
(* implement the Ledger.                                                   *)
(***************************************************************************)
EXTENDS Invariants, Refinement, TLAPS

---------------------------------------------------------------------------
(* Helpers.                                                                *)

(* Publishing adds the message to the bag and nothing else. *)
LEMMA BagAddType ==
    ASSUME NEW B, IsABag(B), NEW x
    PROVE  IsABag(BagAdd(B, x)) /\ DOMAIN BagAdd(B, x) = DOMAIN B \cup {x}
  BY DEF IsABag, BagAdd

(* Taking a message leaves a bag of messages that were there before. *)
LEMMA BagRemoveType ==
    ASSUME NEW B, IsABag(B), NEW x
    PROVE  IsABag(BagRemove(B, x)) /\ DOMAIN BagRemove(B, x) \subseteq DOMAIN B
  BY DEF IsABag, BagRemove

(* What a call's operation says about its fields. *)
LEMMA CallFields ==
    ASSUME NEW c \in Call
    PROVE  /\ c.op = "upload" => c \in UploadCall
           /\ c.op \in PhotoOps \ {"patch"} => c \in PhotoCall
           /\ c.op = "patch" => c \in PatchCall
           /\ c.op \in Decision => c \in DecideCall
           /\ c.op \in PhotoOps \cup Decision \cup {"upload"}
  BY DEF Call, UploadCall, PhotoCall, PatchCall, DecideCall, Decision, PhotoOps

(* Updating fields of a request within their types. *)
LEMMA StepUpdated ==
    ASSUME NEW q \in ReqState, NEW step \in Step
    PROVE  [q EXCEPT !.pc = step] \in ReqState
  BY DEF ReqState

LEMMA PhotoUpdated ==
    ASSUME NEW q \in ReqState, NEW step \in Step, NEW p \in PhotoId
    PROVE  [q EXCEPT !.pc = step, !.photo = p] \in ReqState
<1> DEFINE s == [q EXCEPT !.pc = step]
<1>1. s \in ReqState
  BY StepUpdated
<1>2. [q EXCEPT !.pc = step, !.photo = p] = [s EXCEPT !.photo = p]
  OBVIOUS
<1> HIDE DEF s
<1>3. [s EXCEPT !.photo = p] \in ReqState
  BY <1>1 DEF ReqState
<1> QED
  BY <1>2, <1>3

LEMMA RowUpdated ==
    ASSUME NEW q \in ReqState, NEW step \in Step, NEW v \in View
    PROVE  [q EXCEPT !.pc = step, !.row = v] \in ReqState
<1> DEFINE s == [q EXCEPT !.pc = step]
<1>1. s \in ReqState
  BY StepUpdated
<1> HIDE DEF s
<1>2. [s EXCEPT !.row = v] \in ReqState
  BY <1>1 DEF ReqState
<1> QED
  BY <1>2 DEF s

LEMMA SetsUpdated ==
    ASSUME NEW q \in ReqState, NEW step \in Step,
           NEW F \in SUBSET FlagId, NEW h \in BOOLEAN
    PROVE  /\ [q EXCEPT !.pc = step, !.flags = F] \in ReqState
           /\ [q EXCEPT !.pc = step, !.notes = F] \in ReqState
           /\ [q EXCEPT !.pc = step, !.heldFlags = F] \in ReqState
           /\ [q EXCEPT !.pc = step, !.heldPhoto = h] \in ReqState
           /\ [q EXCEPT !.pc = step, !.heldFlags = F, !.heldPhoto = h] \in ReqState
           /\ [q EXCEPT !.pc = step, !.notes = F, !.heldFlags = F] \in ReqState
<1> DEFINE s == [q EXCEPT !.pc = step]
<1>1. s \in ReqState
  BY StepUpdated
<1> HIDE DEF s
<1> DEFINE t == [s EXCEPT !.heldFlags = F]
           n == [s EXCEPT !.notes = F]
<1>2. /\ [s EXCEPT !.flags = F] \in ReqState
      /\ n \in ReqState
      /\ t \in ReqState
      /\ [s EXCEPT !.heldPhoto = h] \in ReqState
  BY <1>1 DEF ReqState
<1> HIDE DEF t, n
<1>3. [t EXCEPT !.heldPhoto = h] \in ReqState
  BY <1>2 DEF ReqState
<1>4. [n EXCEPT !.heldFlags = F] \in ReqState
  BY <1>2 DEF ReqState
<1> QED
  BY <1>2, <1>3, <1>4 DEF s, t, n

(* Fits looks at no more than the step, the photo and the row. *)
LEMMA FitsDepends ==
    ASSUME NEW q \in ReqState, NEW s \in ReqState, NEW c, NEW n,
           s.pc = q.pc, s.photo = q.photo, s.row = q.row, Fits(q, c, n)
    PROVE  Fits(s, c, n)
  BY DEF Fits, CallFits, PhotoFits, RowFits

(* A request that takes up q, which fits its call, keeps the actors typed. *)
LEMMA RequestMoves ==
    ASSUME ActorsOK, RequestsFit, WorkersFit,
           lastId \in Nat, lastId' \in Nat, lastId <= lastId',
           NEW r \in Request, NEW q \in ReqState,
           req' = [req EXCEPT ![r] = q], UNCHANGED <<call, wk>>,
           Fits(q, call[r], lastId')
    PROVE  ActorsOK' /\ RequestsFit' /\ WorkersFit'
<1>1. ActorsOK' /\ WorkersFit'
  BY DEF ActorsOK, WorkersFit
<1>2. ASSUME NEW o \in Request PROVE Fits(req[o], call[o], lastId)'
  <2>1. CASE o = r
    BY <2>1 DEF ActorsOK
  <2>2. CASE o # r
    <3>1. req'[o] = req[o] /\ call' = call
      BY <2>2 DEF ActorsOK
    <3>2. Fits(req[o], call[o], lastId)
      BY DEF RequestsFit
    <3> QED
      BY <3>1, <3>2 DEF Fits, CallFits, PhotoFits, RowFits
  <2> QED
    BY <2>1, <2>2
<1> QED
  BY <1>1, <1>2 DEF RequestsFit

(* Sending a request on to the next step of its operation. *)
LEMMA GotoMoves ==
    ASSUME TypeInv, NEW r \in Request, NEW step \in Step,
           Goto(r, step), UNCHANGED <<call, wk, lastId>>,
           Fits([req[r] EXCEPT !.pc = step], call[r], lastId)
    PROVE  ActorsOK' /\ RequestsFit' /\ WorkersFit'
<1> DEFINE q == [req[r] EXCEPT !.pc = step]
<1>1. q \in ReqState
  BY DEF TypeInv, TypeOK, ActorsOK, ReqState
<1>2. req' = [req EXCEPT ![r] = q]
  BY DEF Goto, TypeInv, TypeOK, ActorsOK
<1>3. /\ lastId \in Nat /\ lastId' \in Nat /\ lastId <= lastId'
      /\ lastId' = lastId
  BY ConstantAssumption DEF TypeInv, TypeOK, TablesOK
<1> HIDE DEF q
<1>4. Fits(q, call[r], lastId')
  BY <1>3 DEF q
<1> QED
  BY <1>1, <1>2, <1>3, <1>4, RequestMoves DEF TypeInv, TypeOK

Codes == {0, 200, 201, 204, 400, 404, 409, 413, 500}

(* Answering: nothing is expected of a request that is done. *)
LEMMA AnswerMoves ==
    ASSUME TypeInv, NEW r \in Request, NEW code \in Codes,
           NEW payload \in View \cup {None},
           AnswerWith(r, code, payload), UNCHANGED <<call, wk, lastId>>
    PROVE  ActorsOK' /\ RequestsFit' /\ WorkersFit'
<1> DEFINE q == [pc |-> "done", photo |-> req[r].photo, row |-> payload,
                 flags |-> {}, notes |-> {}, heldFlags |-> {},
                 heldPhoto |-> FALSE, reply |-> code]
<1>1. q \in ReqState
  <2>1. req[r] \in ReqState
    BY DEF TypeInv, TypeOK, ActorsOK
  <2>2. "done" \in Step
    BY DEF Step
  <2> QED
    BY <2>1, <2>2 DEF ReqState, Codes
<1>2. req' = [req EXCEPT ![r] = q]
  BY DEF AnswerWith, TypeInv, TypeOK, ActorsOK
<1>3. /\ lastId \in Nat /\ lastId' \in Nat /\ lastId <= lastId'
      /\ lastId' = lastId
  BY ConstantAssumption DEF TypeInv, TypeOK, TablesOK
<1>4. Fits(req[r], call[r], lastId)
  BY DEF TypeInv, RequestsFit
<1>5. q.pc = "done" /\ q.photo = req[r].photo
  BY DEF TypeInv, TypeOK, ActorsOK, ReqState
<1> HIDE DEF q
<1>6. Fits(q, call[r], lastId')
  BY <1>3, <1>4, <1>5 DEF Fits, CallFits, PhotoFits, RowFits, UploadSteps,
     PatchSteps, ServeSteps, DecideSteps, LoadSteps
<1> QED
  BY <1>1, <1>2, <1>3, <1>6, RequestMoves DEF TypeInv, TypeOK

(* A worker that takes up s, which fits its message. *)
LEMMA WorkerMoves ==
    ASSUME TypeInv, NEW w \in Worker, NEW s \in WorkerState,
           wk' = [wk EXCEPT ![w] = s], UNCHANGED <<call, req, lastId>>,
           MessageFits(s)
    PROVE  ActorsOK' /\ RequestsFit' /\ WorkersFit'
<1>1. ActorsOK' /\ RequestsFit'
  BY DEF TypeInv, TypeOK, ActorsOK, RequestsFit
<1>2. ASSUME NEW v \in Worker PROVE MessageFits(wk'[v])
  <2>1. MessageFits(wk[v])
    BY DEF TypeInv, WorkersFit
  <2> QED
    BY <2>1 DEF TypeInv, TypeOK, ActorsOK
<1> QED
  BY <1>1, <1>2 DEF WorkersFit

(* Sending a worker on to the next step of its task. *)
LEMMA WGotoMoves ==
    ASSUME TypeInv, NEW w \in Worker, NEW step \in WorkerStep,
           WGoto(w, step), UNCHANGED <<call, req, lastId>>,
           MessageFits([wk[w] EXCEPT !.pc = step])
    PROVE  ActorsOK' /\ RequestsFit' /\ WorkersFit'
<1> DEFINE s == [wk[w] EXCEPT !.pc = step]
<1>1. s \in WorkerState
  BY DEF TypeInv, TypeOK, ActorsOK, WorkerState
<1>2. wk' = [wk EXCEPT ![w] = s]
  BY DEF WGoto, TypeInv, TypeOK, ActorsOK
<1> HIDE DEF s
<1>3. MessageFits(s)
  BY DEF s
<1> QED
  BY <1>1, <1>2, <1>3, WorkerMoves

---------------------------------------------------------------------------
(* What the calls to the stores do to them.                                *)

LEMMA TablesKept ==
    ASSUME TablesOK, UNCHANGED database
    PROVE  TablesOK'
  BY DEF TablesOK, database

LEMMA StoresKept ==
    ASSUME StoresOK, UNCHANGED <<files, cache, queue, mails, spent>>
    PROVE  StoresOK'
  BY DEF StoresOK

LEMMA StoresAfterSpend ==
    ASSUME StoresOK, NEW kind \in Fault, Spend(kind),
           UNCHANGED <<files, cache, queue, mails>>
    PROVE  StoresOK'
  BY DEF StoresOK, Spend

LEMMA StoresAfterWrite ==
    ASSUME StoresOK, NEW p \in PhotoId, NEW S \in SUBSET Blob,
           files' = [files EXCEPT ![p] = S],
           \/ UNCHANGED spent
           \/ \E kind \in Fault : Spend(kind),
           UNCHANGED <<cache, queue, mails>>
    PROVE  StoresOK'
<1>1. files' \in [PhotoId -> SUBSET Blob]
  BY DEF StoresOK
<1>2. spent' \in [Fault -> Nat]
  BY DEF StoresOK, Spend
<1> QED
  BY <1>1, <1>2 DEF StoresOK

LEMMA StoresAfterPublish ==
    ASSUME StoresOK, NEW m \in Message, Publish(m),
           \/ UNCHANGED spent
           \/ \E kind \in Fault : Spend(kind),
           UNCHANGED <<files, cache, mails>>
    PROVE  StoresOK'
<1>1. IsABag(queue') /\ DOMAIN queue' \subseteq Message
  <2>1. IsABag(queue) /\ DOMAIN queue \subseteq Message
    BY DEF StoresOK
  <2>2. /\ IsABag(BagAdd(queue, m))
        /\ DOMAIN BagAdd(queue, m) = DOMAIN queue \cup {m}
    BY <2>1, BagAddType
  <2>3. queue' = BagAdd(queue, m)
    BY DEF Publish
  <2> QED
    BY <2>1, <2>2, <2>3
<1>2. spent' \in [Fault -> Nat]
  BY DEF StoresOK, Spend
<1>3. /\ files' \in [PhotoId -> SUBSET Blob]
      /\ DOMAIN cache' \subseteq PhotoId
      /\ \A p \in DOMAIN cache' :
            cache'[p] \in [view : View, overtaken : BOOLEAN]
      /\ IsABag(mails') /\ DOMAIN mails' \subseteq NoteId
  BY DEF StoresOK
<1> QED
  BY <1>1, <1>2, <1>3 DEF StoresOK

LEMMA StoresAfterTake ==
    ASSUME StoresOK, NEW m, queue' = BagRemove(queue, m),
           UNCHANGED <<files, cache, mails, spent>>
    PROVE  StoresOK'
<1>1. IsABag(queue') /\ DOMAIN queue' \subseteq Message
  <2>1. IsABag(queue) /\ DOMAIN queue \subseteq Message
    BY DEF StoresOK
  <2> QED
    BY <2>1, BagRemoveType
<1>2. /\ files' \in [PhotoId -> SUBSET Blob]
      /\ DOMAIN cache' \subseteq PhotoId
      /\ \A p \in DOMAIN cache' :
            cache'[p] \in [view : View, overtaken : BOOLEAN]
      /\ IsABag(mails') /\ DOMAIN mails' \subseteq NoteId
      /\ spent' \in [Fault -> Nat]
  BY DEF StoresOK
<1> QED
  BY <1>1, <1>2 DEF StoresOK

LEMMA StoresAfterCacheDelete ==
    ASSUME StoresOK, NEW p, CacheDelete(p), UNCHANGED <<files, queue, mails>>
    PROVE  StoresOK'
<1>1. CASE cache' = Drop(cache, {p}) /\ UNCHANGED spent
  BY <1>1 DEF StoresOK, Drop, Restrict
<1>2. CASE Spend("cache") /\ UNCHANGED cache
  BY <1>2, StoresAfterSpend DEF Fault
<1> QED
  BY <1>1, <1>2 DEF CacheDelete

LEMMA StoresAfterRemoval ==
    ASSUME StoresOK, NEW p \in PhotoId, DeletePhotoFiles(p),
           UNCHANGED <<cache, queue, mails>>
    PROVE  StoresOK'
<1>1. CASE files' = [files EXCEPT ![p] = {}] /\ UNCHANGED spent
  BY <1>1, StoresAfterWrite
<1>2. CASE Spend("rmtree") /\ UNCHANGED files
  BY <1>2, StoresAfterSpend DEF Fault
<1> QED
  BY <1>1, <1>2 DEF DeletePhotoFiles

(* A step that only moves actors. *)
LEMMA OnlyActorsMove ==
    ASSUME TypeInv, UNCHANGED shared, ActorsOK', RequestsFit', WorkersFit'
    PROVE  TypeInv'
<1>1. TablesOK'
  BY TablesKept DEF TypeInv, TypeOK, shared
<1>2. StoresOK'
  BY StoresKept DEF TypeInv, TypeOK, shared
<1> QED
  BY <1>1, <1>2 DEF TypeInv, TypeOK

---------------------------------------------------------------------------
(* The initial states.                                                     *)

LEMMA TypeInit == Init => TypeInv
<1> SUFFICES ASSUME Init PROVE TypeInv
  OBVIOUS
<1> USE ConstantAssumption, SeedAssumption
<1>1. /\ Len(Seeds) \in 0..MaxPhotos
      /\ \A p \in 1..Len(Seeds) : /\ Seeds[p].row \in Photo
                                  /\ Seeds[p].image \in Image
                                  /\ p \in PhotoId
  <2>1. Len(Seeds) \in Nat /\ Len(Seeds) <= MaxPhotos /\ MaxPhotos \in Nat
    OBVIOUS
  <2>2. \A p \in 1..Len(Seeds) : Seeds[p] \in [row : Photo, image : Image]
    <3> DEFINE S == [row : Photo, image : Image]
    <3>1. Seeds \in Seq(S)
      OBVIOUS
    <3> HIDE DEF S
    <3>2. \A p \in 1..Len(Seeds) : Seeds[p] \in S
      BY <3>1
    <3> QED
      BY <3>2 DEF S
  <2> QED
    BY <2>1, <2>2 DEF PhotoId
<1>2. TablesOK
  <2>1. \A f \in SeedFlags : f \in FlagId
    <3> TAKE f \in SeedFlags
    <3>1. PICK p \in 1..Len(Seeds) : f = <<p, Seeds[p].row.owner>>
      OBVIOUS
    <3>2. p \in PhotoId /\ Seeds[p].row.owner \in User
      BY <1>1 DEF Photo
    <3> QED
      BY <3>1, <3>2 DEF FlagId
  <2>2. /\ DOMAIN photos \subseteq 1..lastId
        /\ \A p \in DOMAIN photos : photos[p] \in Photo
        /\ lastId \in 0..MaxPhotos
    BY <1>1 DEF Init
  <2>3. /\ flags \in [DOMAIN flags -> {"pending", "dismissed"}]
        /\ DOMAIN flags \subseteq FlagId
    BY <2>1 DEF Init
  <2>4. /\ audit \subseteq Audit
        /\ DOMAIN outbox = {}
    BY DEF Init
  <2> QED
    BY <2>2, <2>3, <2>4 DEF TablesOK
<1>3. StoresOK
  <2>1. files \in [PhotoId -> SUBSET Blob]
    BY <1>1 DEF Init, Blob, PhotoId
  <2>2. DOMAIN cache = {} /\ spent \in [Fault -> Nat]
    BY DEF Init
  <2>3. IsABag(queue) /\ DOMAIN queue \subseteq Message
    BY <1>1 DEF Init, IsABag, Message, ThumbMessage
  <2>4. IsABag(mails) /\ DOMAIN mails = {}
    BY DEF Init, IsABag, EmptyBag, SetToBag
  <2> QED
    BY <2>1, <2>2, <2>3, <2>4 DEF StoresOK
<1>4. ASSUME NEW r \in Request
      PROVE  /\ call[r] \in Call
             /\ Fresh(call[r]) \in ReqState
             /\ req[r] = Fresh(call[r])
             /\ Fits(req[r], call[r], lastId)
  <2>1. call[r] \in Call /\ req[r] = Fresh(call[r])
    BY DEF Init
  <2>2. CASE call[r].op = "upload"
    <3>1. PhotoOf(call[r]) = 0 /\ FirstStep(call[r].op) = "upload"
      BY <2>2 DEF PhotoOf, FirstStep, Decision
    <3> QED
      BY <2>1, <2>2, <3>1 DEF Fresh, ReqState, Step, Fits, CallFits, PhotoFits,
         RowFits, UploadSteps, PatchSteps, ServeSteps, DecideSteps, LoadSteps
  <2>3. CASE call[r].op \in PhotoOps
    <3>1. PhotoOf(call[r]) \in PhotoId
      BY <2>1, <2>3, CallFields DEF PhotoOf, PhotoOps, Decision, PhotoCall, PatchCall
    <3>2. FirstStep(call[r].op) \in {"get", "load_photo"}
      BY <2>3 DEF FirstStep, PhotoOps, Decision
    <3> QED
      BY <2>1, <2>3, <3>1, <3>2 DEF Fresh, ReqState, Step, Fits, CallFits, PhotoFits,
         RowFits, UploadSteps, PatchSteps, ServeSteps, DecideSteps, LoadSteps
  <2>4. CASE call[r].op \in Decision
    <3>1. PhotoOf(call[r]) \in PhotoId
      BY <2>1, <2>4, CallFields DEF PhotoOf, Decision, DecideCall, FlagId
    <3>2. FirstStep(call[r].op) = "decide"
      BY <2>4 DEF FirstStep, Decision
    <3> QED
      BY <2>1, <2>4, <3>1, <3>2 DEF Fresh, ReqState, Step, Fits, CallFits, PhotoFits,
         RowFits, UploadSteps, PatchSteps, ServeSteps, DecideSteps, LoadSteps
  <2> QED
    BY <2>1, <2>2, <2>3, <2>4, CallFields
<1>5. call \in [Request -> Call] /\ req \in [Request -> ReqState]
  BY <1>4 DEF Init
<1>6. wk \in [Worker -> WorkerState] /\ WorkersFit
  BY DEF Init, IdleWorker, WorkerState, WorkerStep, WorkersFit, MessageFits,
     ThumbSteps, NoteSteps
<1> QED
  BY <1>2, <1>3, <1>4, <1>5, <1>6 DEF TypeInv, TypeOK, ActorsOK, RequestsFit

---------------------------------------------------------------------------
(* The photo endpoints.                                                    *)

LEMMA RequestFacts ==
    ASSUME TypeInv, NEW r \in Request
    PROVE  /\ req[r] \in ReqState /\ call[r] \in Call
           /\ Fits(req[r], call[r], lastId)
           /\ lastId \in Nat /\ lastId <= MaxPhotos /\ MaxPhotos \in Nat
           /\ 1..lastId \subseteq PhotoId
           /\ TablesOK /\ StoresOK /\ ActorsOK
  BY ConstantAssumption
     DEF TypeInv, TypeOK, TablesOK, ActorsOK, RequestsFit, PhotoId

LEMMA TypeInvParts ==
    ASSUME TablesOK, StoresOK, ActorsOK, RequestsFit, WorkersFit
    PROVE  TypeInv
  BY DEF TypeInv, TypeOK

(* POST /photos. *)
LEMMA UploadTyped ==
    ASSUME TypeInv, NEW r \in Request,
           \/ UploadReject(r) \/ UploadFlush(r) \/ UploadWrite(r)
           \/ UploadWriteFails(r) \/ UploadCommit(r) \/ UploadRefresh(r)
           \/ UploadEnqueue(r) \/ UploadEnqueueFails(r)
    PROVE  TypeInv'
<1>0. /\ req[r] \in ReqState /\ call[r] \in Call
      /\ Fits(req[r], call[r], lastId)
      /\ lastId \in Nat /\ lastId <= MaxPhotos /\ MaxPhotos \in Nat
      /\ 1..lastId \subseteq PhotoId
      /\ TablesOK /\ StoresOK /\ ActorsOK
  BY RequestFacts
<1> USE DEF Fits, CallFits, PhotoFits, RowFits, UploadSteps, PatchSteps,
            ServeSteps, DecideSteps, LoadSteps
<1>1. CASE UploadReject(r)
  <2>1. ActorsOK' /\ RequestsFit' /\ WorkersFit'
    BY <1>1, AnswerMoves DEF UploadReject, Answer, Codes, shared, database
  <2> QED
    BY <1>1, <2>1, OnlyActorsMove DEF UploadReject
<1>2. CASE UploadFlush(r)
  <2> DEFINE q == [req[r] EXCEPT !.pc = "upload_write", !.photo = lastId + 1]
  <2>1. /\ lastId + 1 \in PhotoId /\ lastId' = lastId + 1
        /\ lastId' \in Nat /\ lastId <= lastId'
    BY <1>0, <1>2 DEF UploadFlush, PhotoId
  <2>2. q \in ReqState
    BY <1>0, <2>1, PhotoUpdated DEF Step
  <2>3. req' = [req EXCEPT ![r] = q] /\ UNCHANGED <<call, wk>>
    BY <1>0, <1>2 DEF UploadFlush, ActorsOK
  <2>4. Fits(q, call[r], lastId')
    BY <1>0, <1>2, <2>1 DEF UploadFlush, ReqState
  <2> HIDE DEF q
  <2>5. ActorsOK' /\ RequestsFit' /\ WorkersFit'
    <3>1. RequestsFit /\ WorkersFit
      BY DEF TypeInv
    <3> HIDE DEF Fits
    <3> QED
      BY <1>0, <2>1, <2>2, <2>3, <2>4, <3>1, RequestMoves
  <2>6. TablesOK'
    BY <1>0, <1>2, <2>1 DEF UploadFlush, TablesOK
  <2>7. StoresOK'
    BY <1>0, <1>2, StoresKept DEF UploadFlush
  <2> QED
    BY <2>5, <2>6, <2>7 DEF TypeInv, TypeOK
<1>3. CASE UploadWrite(r)
  <2>1. ActorsOK' /\ RequestsFit' /\ WorkersFit'
    BY <1>0, <1>3, GotoMoves DEF UploadWrite, ReqState, Step, database
  <2>2. /\ req[r].photo \in PhotoId
        /\ files[req[r].photo] \cup {call[r].image} \in SUBSET Blob
    BY <1>0, <1>3 DEF UploadWrite, StoresOK, Blob
  <2>3. StoresOK'
    BY <1>0, <1>3, <2>2, StoresAfterWrite DEF UploadWrite
  <2>4. TablesOK'
    BY <1>0, <1>3, TablesKept DEF UploadWrite
  <2> QED
    BY <2>1, <2>3, <2>4 DEF TypeInv, TypeOK
<1>4. CASE UploadWriteFails(r)
  <2>1. ActorsOK' /\ RequestsFit' /\ WorkersFit'
    BY <1>4, AnswerMoves DEF UploadWriteFails, Answer, Codes, database
  <2>2. PICK left \in {{}, {"truncated"}} :
           files' = [files EXCEPT ![req[r].photo] = files[req[r].photo] \cup left]
    BY <1>0, <1>4 DEF UploadWriteFails, StoresOK
  <2>3. /\ req[r].photo \in PhotoId
        /\ files[req[r].photo] \cup left \in SUBSET Blob
    BY <1>0, <1>4 DEF UploadWriteFails, StoresOK, Blob, Image
  <2>4. StoresOK'
    BY <1>0, <1>4, <2>2, <2>3, StoresAfterWrite DEF UploadWriteFails, Fault
  <2>5. TablesOK'
    BY <1>0, <1>4, TablesKept DEF UploadWriteFails
  <2> QED
    BY <2>1, <2>4, <2>5 DEF TypeInv, TypeOK
<1>5. CASE UploadCommit(r)
  <2>1. ActorsOK' /\ RequestsFit' /\ WorkersFit'
    BY <1>0, <1>5, GotoMoves DEF UploadCommit, ReqState, Step
  <2>2. /\ req[r].photo \in 1..lastId
        /\ call[r].user \in User /\ call[r].caption \in Caption
    BY <1>0, <1>5, CallFields DEF UploadCommit, UploadCall
  <2>3. TablesOK'
    BY <1>0, <1>5, <2>2 DEF UploadCommit, TablesOK, Put, Photo, Status
  <2>4. StoresOK'
    BY <1>0, <1>5, StoresKept DEF UploadCommit
  <2> QED
    BY <2>1, <2>3, <2>4 DEF TypeInv, TypeOK
<1>6. CASE UploadRefresh(r)
  <2>1. CASE req[r].photo \in DOMAIN photos
    <3>1. ActorsOK' /\ RequestsFit' /\ WorkersFit'
      BY <1>0, <1>6, <2>1, GotoMoves
         DEF UploadRefresh, ReqState, Step, shared, database
    <3> QED
      BY <1>6, <3>1, OnlyActorsMove DEF UploadRefresh
  <2>2. CASE req[r].photo \notin DOMAIN photos
    <3>1. ActorsOK' /\ RequestsFit' /\ WorkersFit'
      BY <1>6, <2>2, AnswerMoves DEF UploadRefresh, Answer, Codes, shared, database
    <3> QED
      BY <1>6, <3>1, OnlyActorsMove DEF UploadRefresh
  <2> QED
    BY <2>1, <2>2
<1>7. CASE UploadEnqueue(r)
  <2>1. ActorsOK' /\ RequestsFit' /\ WorkersFit'
    BY <1>7, AnswerMoves DEF UploadEnqueue, Answer, Codes, database
  <2>2. [photo |-> req[r].photo, retries |-> 0] \in Message
    BY <1>0, <1>7, ConstantAssumption DEF UploadEnqueue, Message, ThumbMessage
  <2>3. StoresOK'
    BY <1>0, <1>7, <2>2, StoresAfterPublish DEF UploadEnqueue
  <2>4. TablesOK'
    BY <1>0, <1>7, TablesKept DEF UploadEnqueue
  <2> QED
    BY <2>1, <2>3, <2>4 DEF TypeInv, TypeOK
<1>8. CASE UploadEnqueueFails(r)
  <2>1. ActorsOK' /\ RequestsFit' /\ WorkersFit'
    BY <1>8, AnswerMoves DEF UploadEnqueueFails, Answer, Codes, database
  <2>2. StoresOK'
    BY <1>0, <1>8, StoresAfterSpend DEF UploadEnqueueFails, Fault
  <2>3. TablesOK'
    BY <1>0, <1>8, TablesKept DEF UploadEnqueueFails
  <2> QED
    BY <2>1, <2>2, <2>3 DEF TypeInv, TypeOK
<1> QED
  BY <1>1, <1>2, <1>3, <1>4, <1>5, <1>6, <1>7, <1>8

(* _load, shared by the endpoints on one photo. *)
LEMMA LoadTyped ==
    ASSUME TypeInv, NEW r \in Request, LoadPhoto(r) \/ LoadThumb(r)
    PROVE  TypeInv'
<1>0. /\ req[r] \in ReqState /\ call[r] \in Call
      /\ Fits(req[r], call[r], lastId)
      /\ lastId \in Nat /\ lastId <= MaxPhotos /\ MaxPhotos \in Nat
      /\ 1..lastId \subseteq PhotoId
      /\ TablesOK /\ StoresOK /\ ActorsOK
  BY RequestFacts
<1>k. /\ RequestsFit /\ WorkersFit
      /\ lastId <= lastId
  BY <1>0 DEF TypeInv
<1> USE DEF Fits, CallFits, PhotoFits, RowFits, UploadSteps, PatchSteps,
            ServeSteps, DecideSteps, LoadSteps
<1>1. CASE LoadPhoto(r)
  <2> DEFINE p == req[r].photo
  <2>1. CASE p \in DOMAIN photos /\ photos[p].owner = call[r].user
    <3> DEFINE v == [photos[p] EXCEPT !.status = "none", !.attempts = 0]
               q == [req[r] EXCEPT !.pc = "load_thumb", !.row = v]
    <3>1. v \in View
      BY <1>0, <2>1 DEF TablesOK, Photo, View
    <3>2. req' = [req EXCEPT ![r] = q] /\ UNCHANGED <<shared, call, wk, lastId>>
      BY <1>0, <1>1, <2>1 DEF LoadPhoto, ActorsOK, shared, database
    <3> HIDE DEF v
    <3>3. q \in ReqState
      BY <1>0, <3>1, RowUpdated DEF Step
    <3>4. q.pc = "load_thumb" /\ q.row = v /\ q.photo = req[r].photo
      BY <1>0 DEF ReqState
    <3> HIDE DEF q
    <3>5. Fits(q, call[r], lastId')
      BY <1>0, <1>1, <3>1, <3>2, <3>4 DEF LoadPhoto
    <3> HIDE DEF Fits
    <3>6. ActorsOK' /\ RequestsFit' /\ WorkersFit'
      BY <1>0, <1>k, <3>2, <3>3, <3>5, RequestMoves
    <3> QED
      BY <3>2, <3>6, OnlyActorsMove
  <2>2. CASE ~(p \in DOMAIN photos /\ photos[p].owner = call[r].user)
    <3>1. ActorsOK' /\ RequestsFit' /\ WorkersFit'
      BY <1>1, <2>2, AnswerMoves DEF LoadPhoto, Answer, Codes, shared, database
    <3> QED
      BY <1>1, <3>1, OnlyActorsMove DEF LoadPhoto
  <2> QED
    BY <2>1, <2>2
<1>2. CASE LoadThumb(r)
  <2> DEFINE p == req[r].photo
             step == AfterLoad[call[r].op]
  <2>1. call[r].op \in PhotoOps /\ req[r].row \in View
    BY <1>0, <1>2 DEF LoadThumb
  <2>2. /\ step \in {"patch_commit"} \cup ServeSteps
        /\ step = "patch_commit" => call[r].op = "patch"
        /\ step = "flag_commit" => call[r].op = "flag"
        /\ step = "delete_flags" => call[r].op = "delete"
    BY <2>1 DEF AfterLoad, PhotoOps
  <2>3. step \in Step
    BY <2>2 DEF Step
  <2> HIDE DEF step
  <2>4. CASE p \in DOMAIN photos
    <3> DEFINE v == [req[r].row EXCEPT !.status = photos[p].status,
                                       !.attempts = photos[p].attempts]
               q == [req[r] EXCEPT !.pc = step, !.row = v]
    <3>1. v \in View
      BY <1>0, <2>1, <2>4 DEF TablesOK, Photo, View
    <3>2. req' = [req EXCEPT ![r] = q] /\ UNCHANGED <<shared, call, wk, lastId>>
      <4>1. req[r].row = [req[r] EXCEPT !.pc = step].row
        BY <1>0 DEF ReqState
      <4>2. [req EXCEPT ![r].pc = step][r] = [req[r] EXCEPT !.pc = step]
        BY DEF TypeInv, TypeOK, ActorsOK
      <4>3. req' = [req EXCEPT ![r].pc = step,
                               ![r].row = [@ EXCEPT !.status = photos[p].status,
                                                    !.attempts = photos[p].attempts]]
        BY <1>2, <2>4 DEF LoadThumb, step
      <4>4. UNCHANGED <<shared, call, wk, lastId>>
        BY <1>2 DEF LoadThumb, shared, database
      <4> QED
        BY <1>0, <4>1, <4>2, <4>3, <4>4 DEF ActorsOK
    <3> HIDE DEF v
    <3>3. q \in ReqState
      BY <1>0, <2>3, <3>1, RowUpdated
    <3>4. q.pc = step /\ q.row = v /\ q.photo = req[r].photo
      BY <1>0 DEF ReqState
    <3> HIDE DEF q
    <3>5. Fits(q, call[r], lastId')
      BY <1>0, <2>1, <2>2, <3>1, <3>2, <3>4 DEF PhotoOps
    <3> HIDE DEF Fits
    <3>6. ActorsOK' /\ RequestsFit' /\ WorkersFit'
      BY <1>0, <1>k, <3>2, <3>3, <3>5, RequestMoves
    <3> QED
      BY <3>2, <3>6, OnlyActorsMove
  <2>5. CASE p \notin DOMAIN photos
    <3>1. Goto(r, step) /\ UNCHANGED <<shared, call, wk, lastId>>
      BY <1>2, <2>5 DEF LoadThumb, shared, database, step
    <3>2. Fits([req[r] EXCEPT !.pc = step], call[r], lastId)
      BY <1>0, <2>1, <2>2 DEF ReqState, PhotoOps
    <3> HIDE DEF Fits
    <3>3. ActorsOK' /\ RequestsFit' /\ WorkersFit'
      BY <2>3, <3>1, <3>2, GotoMoves
    <3> QED
      BY <3>1, <3>3, OnlyActorsMove
  <2> QED
    BY <2>4, <2>5
<1> QED
  BY <1>1, <1>2

LEMMA AnswerTyped ==
    ASSUME TypeInv, NEW r \in Request, NEW code \in Codes,
           NEW payload \in View \cup {None},
           AnswerWith(r, code, payload), UNCHANGED <<shared, call, wk>>
    PROVE  TypeInv'
<1>1. ActorsOK' /\ RequestsFit' /\ WorkersFit'
  BY AnswerMoves DEF shared, database
<1> QED
  BY <1>1, OnlyActorsMove

LEMMA GotoTyped ==
    ASSUME TypeInv, NEW r \in Request, NEW step \in Step,
           Goto(r, step), UNCHANGED <<shared, call, wk>>,
           Fits([req[r] EXCEPT !.pc = step], call[r], lastId)
    PROVE  TypeInv'
<1>1. ActorsOK' /\ RequestsFit' /\ WorkersFit'
  BY GotoMoves DEF shared, database
<1> QED
  BY <1>1, OnlyActorsMove

(* GET /photos/{id}. *)
LEMMA GetTyped ==
    ASSUME TypeInv, NEW r \in Request,
           GetCached(r) \/ GetCacheDown(r) \/ GetFill(r)
    PROVE  TypeInv'
<1>0. /\ req[r] \in ReqState /\ call[r] \in Call
      /\ Fits(req[r], call[r], lastId)
      /\ lastId \in Nat /\ lastId <= MaxPhotos /\ MaxPhotos \in Nat
      /\ 1..lastId \subseteq PhotoId
      /\ TablesOK /\ StoresOK /\ ActorsOK
  BY RequestFacts
<1> USE DEF Fits, CallFits, PhotoFits, RowFits, UploadSteps, PatchSteps,
            ServeSteps, DecideSteps, LoadSteps
<1>1. ASSUME req[r].pc = "get"
      PROVE  /\ "load_photo" \in Step
             /\ Fits([req[r] EXCEPT !.pc = "load_photo"], call[r], lastId)
  BY <1>0, <1>1 DEF ReqState, Step
<1>2. CASE GetCached(r)
  <2> DEFINE p == req[r].photo
  <2>1. CASE p \notin DOMAIN cache
    <3>1. Goto(r, "load_photo") /\ UNCHANGED <<shared, call, wk>>
      BY <1>2, <2>1 DEF GetCached
    <3>2. req[r].pc = "get"
      BY <1>2 DEF GetCached
    <3> HIDE DEF Fits
    <3> QED
      BY <1>1, <3>1, <3>2, GotoTyped
  <2>2. CASE p \in DOMAIN cache /\ cache[p].view.owner = call[r].user
    <3>1. cache[p].view \in View
      BY <1>0, <2>2 DEF StoresOK
    <3>2. AnswerWith(r, 200, cache[p].view) /\ UNCHANGED <<shared, call, wk>>
      BY <1>2, <2>2 DEF GetCached
    <3> QED
      BY <3>1, <3>2, AnswerTyped DEF Codes
  <2>3. CASE p \in DOMAIN cache /\ cache[p].view.owner # call[r].user
    BY <1>2, <2>3, AnswerTyped DEF GetCached, Answer, Codes
  <2> QED
    BY <2>1, <2>2, <2>3
<1>3. CASE GetCacheDown(r)
  <2>1. ActorsOK' /\ RequestsFit' /\ WorkersFit'
    <3>1. Goto(r, "load_photo") /\ UNCHANGED <<call, wk, lastId>>
      BY <1>3 DEF GetCacheDown, database
    <3>2. req[r].pc = "get"
      BY <1>3 DEF GetCacheDown
    <3> HIDE DEF Fits
    <3> QED
      BY <1>1, <3>1, <3>2, GotoMoves
  <2>2. StoresOK'
    BY <1>0, <1>3, StoresAfterSpend DEF GetCacheDown, Fault
  <2>3. TablesOK'
    BY <1>0, <1>3, TablesKept DEF GetCacheDown
  <2> QED
    BY <2>1, <2>2, <2>3, TypeInvParts DEF TypeInv, TypeOK
<1>4. CASE GetFill(r)
  <2> DEFINE p == req[r].photo
             v == req[r].row
  <2>1. v \in View /\ p \in PhotoId
    BY <1>0, <1>4 DEF GetFill, PhotoOps
  <2>2. ActorsOK' /\ RequestsFit' /\ WorkersFit'
    BY <1>4, <2>1, AnswerMoves DEF GetFill, Codes, database
  <2>3. ASSUME cache' = Put(cache, p, [view |-> v, overtaken |-> Overtaken(p, v)]),
               UNCHANGED <<spent, files, queue, mails>>
        PROVE  StoresOK'
    <3> DEFINE e == [view |-> v, overtaken |-> Overtaken(p, v)]
    <3>1. e \in [view : View, overtaken : BOOLEAN]
      BY <2>1 DEF Overtaken
    <3> HIDE DEF e, p
    <3>2. /\ DOMAIN cache' \subseteq PhotoId
          /\ \A x \in DOMAIN cache' :
                cache'[x] \in [view : View, overtaken : BOOLEAN]
      <4>1. cache' = Put(cache, p, e)
        BY <2>3 DEF e
      <4> QED
        BY <1>0, <2>1, <3>1, <4>1 DEF Put, StoresOK
    <3> QED
      BY <1>0, <2>3, <3>2 DEF StoresOK
  <2>4. ASSUME Spend("cache"), UNCHANGED <<cache, files, queue, mails>>
        PROVE  StoresOK'
    BY <1>0, <2>4, StoresAfterSpend DEF Fault
  <2>5. StoresOK'
    BY <1>4, <2>3, <2>4 DEF GetFill
  <2>6. TablesOK'
    BY <1>0, <1>4, TablesKept DEF GetFill
  <2> QED
    BY <2>2, <2>5, <2>6 DEF TypeInv, TypeOK
<1> QED
  BY <1>2, <1>3, <1>4

(* PATCH /photos/{id}. *)
LEMMA PatchTyped ==
    ASSUME TypeInv, NEW r \in Request,
           PatchCommit(r) \/ PatchRefresh(r) \/ PatchInvalidate(r)
    PROVE  TypeInv'
<1>0. /\ req[r] \in ReqState /\ call[r] \in Call
      /\ Fits(req[r], call[r], lastId)
      /\ lastId \in Nat /\ lastId <= MaxPhotos /\ MaxPhotos \in Nat
      /\ 1..lastId \subseteq PhotoId
      /\ TablesOK /\ StoresOK /\ ActorsOK
  BY RequestFacts
<1> USE DEF Fits, CallFits, PhotoFits, RowFits, UploadSteps, PatchSteps,
            ServeSteps, DecideSteps, LoadSteps
<1>1. CASE PatchCommit(r)
  <2> DEFINE p == req[r].photo
  <2>1. ASSUME Goto(r, "patch_refresh")
        PROVE  ActorsOK' /\ RequestsFit' /\ WorkersFit'
    <3>1. UNCHANGED <<call, wk, lastId>>
      BY <1>1 DEF PatchCommit
    <3>2. /\ "patch_refresh" \in Step
          /\ Fits([req[r] EXCEPT !.pc = "patch_refresh"], call[r], lastId)
      BY <1>0, <1>1 DEF PatchCommit, ReqState, Step
    <3> HIDE DEF Fits
    <3> QED
      BY <2>1, <3>1, <3>2, GotoMoves
  <2>2. ASSUME Answer(r, 500)
        PROVE  ActorsOK' /\ RequestsFit' /\ WorkersFit'
    BY <1>1, <2>2, AnswerMoves DEF PatchCommit, Answer, Codes
  <2>3. ActorsOK' /\ RequestsFit' /\ WorkersFit'
    BY <1>1, <2>1, <2>2 DEF PatchCommit
  <2>4. call[r].caption \in Caption
    BY <1>0, <1>1, CallFields DEF PatchCommit, PatchCall
  <2>5. TablesOK'
    <3>1. CASE UNCHANGED photos
      BY <1>0, <1>1, <3>1 DEF PatchCommit, TablesOK
    <3>2. CASE photos' = [photos EXCEPT ![p].caption = call[r].caption]
      BY <1>0, <1>1, <2>4, <3>2 DEF PatchCommit, TablesOK, Photo
    <3> QED
      BY <1>1, <3>1, <3>2 DEF PatchCommit
  <2>6. StoresOK'
    BY <1>0, <1>1, StoresKept DEF PatchCommit
  <2> QED
    BY <2>3, <2>5, <2>6 DEF TypeInv, TypeOK
<1>2. CASE PatchRefresh(r)
  <2>1. CASE Goto(r, "patch_invalidate")
    <3>1. /\ "patch_invalidate" \in Step
          /\ Fits([req[r] EXCEPT !.pc = "patch_invalidate"], call[r], lastId)
      BY <1>0, <1>2 DEF PatchRefresh, ReqState, Step
    <3> HIDE DEF Fits
    <3> QED
      BY <1>2, <2>1, <3>1, GotoTyped DEF PatchRefresh
  <2>2. CASE Answer(r, 500)
    BY <1>2, <2>2, AnswerTyped DEF PatchRefresh, Answer, Codes
  <2> QED
    BY <1>2, <2>1, <2>2 DEF PatchRefresh
<1>3. CASE PatchInvalidate(r)
  <2>1. ActorsOK' /\ RequestsFit' /\ WorkersFit'
    BY <1>3, AnswerMoves DEF PatchInvalidate, Answer, Codes, database
  <2>2. StoresOK'
    BY <1>0, <1>3, StoresAfterCacheDelete DEF PatchInvalidate
  <2>3. TablesOK'
    BY <1>0, <1>3, TablesKept DEF PatchInvalidate
  <2> QED
    BY <2>1, <2>2, <2>3 DEF TypeInv, TypeOK
<1> QED
  BY <1>1, <1>2, <1>3

(* A request at q that keeps its photo and its row moves to q's step. *)
LEMMA StepTyped ==
    ASSUME TypeInv, NEW r \in Request, NEW q \in ReqState,
           req' = [req EXCEPT ![r] = q], UNCHANGED <<call, wk, lastId>>,
           q.photo = req[r].photo, q.row = req[r].row,
           Fits([req[r] EXCEPT !.pc = q.pc], call[r], lastId)
    PROVE  ActorsOK' /\ RequestsFit' /\ WorkersFit'
<1> DEFINE s == [req[r] EXCEPT !.pc = q.pc]
<1>1. /\ req[r] \in ReqState
      /\ lastId \in Nat /\ lastId' \in Nat /\ lastId <= lastId'
      /\ lastId' = lastId
      /\ ActorsOK /\ RequestsFit /\ WorkersFit
  BY RequestFacts DEF TypeInv
<1>2. q.pc \in Step
  BY DEF ReqState
<1>3. /\ s \in ReqState
      /\ s.pc = q.pc /\ s.photo = q.photo /\ s.row = q.row
  BY <1>1, <1>2 DEF ReqState
<1> HIDE DEF s
<1>4. Fits(s, call[r], lastId)
  BY DEF s
<1>5. Fits(q, call[r], lastId)
  BY <1>3, <1>4, FitsDepends
<1>6. Fits(q, call[r], lastId')
  BY <1>1, <1>5
<1> QED
  BY <1>1, <1>6, RequestMoves

(* The statements of a deletion, shared with action decisions. *)
LEMMA LockTyped ==
    ASSUME TypeInv, NEW r \in Request,
           DeleteFlags(r) \/ LockFlags(r) \/ LockPhoto(r)
    PROVE  TypeInv'
<1>0. /\ req[r] \in ReqState /\ call[r] \in Call
      /\ Fits(req[r], call[r], lastId)
      /\ TablesOK /\ StoresOK /\ ActorsOK
  BY RequestFacts
<1>1. /\ "lock_flags" \in Step /\ "lock_photo" \in Step /\ "cascade" \in Step
      /\ FlagsOf(req[r].photo) \in SUBSET FlagId
      /\ req[r].heldFlags \cup (req[r].flags \cap DOMAIN flags) \in SUBSET FlagId
      /\ (req[r].photo \in DOMAIN photos) \in BOOLEAN
  BY <1>0 DEF Step, FlagsOf, TablesOK, ReqState
<1>2. PICK q \in ReqState :
        /\ req' = [req EXCEPT ![r] = q]
        /\ q.photo = req[r].photo /\ q.row = req[r].row
        /\ \/ req[r].pc = "delete_flags" /\ q.pc = "lock_flags"
           \/ req[r].pc = "lock_flags" /\ q.pc = "lock_photo"
           \/ req[r].pc = "lock_photo" /\ q.pc = "cascade"
  <2>1. CASE DeleteFlags(r)
    <3> DEFINE q == [req[r] EXCEPT !.pc = "lock_flags",
                                   !.flags = FlagsOf(req[r].photo)]
    <3>1. q \in ReqState
      BY <1>0, <1>1, SetsUpdated
    <3>2. q.pc = "lock_flags" /\ q.photo = req[r].photo /\ q.row = req[r].row
      BY <1>0 DEF ReqState
    <3>3. req' = [req EXCEPT ![r] = q]
      BY <1>0, <2>1 DEF DeleteFlags, ActorsOK
    <3> HIDE DEF q
    <3> QED
      BY <2>1, <3>1, <3>2, <3>3 DEF DeleteFlags
  <2>2. CASE LockFlags(r)
    <3> DEFINE H == req[r].heldFlags \cup (req[r].flags \cap DOMAIN flags)
               q == [req[r] EXCEPT !.pc = "lock_photo", !.heldFlags = H]
    <3>1. q \in ReqState
      BY <1>0, <1>1, SetsUpdated
    <3>2. q.pc = "lock_photo" /\ q.photo = req[r].photo /\ q.row = req[r].row
      BY <1>0 DEF ReqState
    <3>3. req' = [req EXCEPT ![r] = q]
      BY <1>0, <2>2 DEF LockFlags, ActorsOK
    <3> HIDE DEF q
    <3> QED
      BY <2>2, <3>1, <3>2, <3>3 DEF LockFlags
  <2>3. CASE LockPhoto(r)
    <3> DEFINE q == [req[r] EXCEPT !.pc = "cascade",
                                   !.heldPhoto = req[r].photo \in DOMAIN photos]
    <3>1. q \in ReqState
      BY <1>0, <1>1, SetsUpdated
    <3>2. q.pc = "cascade" /\ q.photo = req[r].photo /\ q.row = req[r].row
      BY <1>0 DEF ReqState
    <3>3. req' = [req EXCEPT ![r] = q]
      BY <1>0, <2>3 DEF LockPhoto, ActorsOK
    <3> HIDE DEF q
    <3> QED
      BY <2>3, <3>1, <3>2, <3>3 DEF LockPhoto
  <2> QED
    BY <2>1, <2>2, <2>3
<1>3. UNCHANGED <<shared, call, wk, lastId>>
  BY DEF DeleteFlags, LockFlags, LockPhoto, shared, database
<1>4. Fits([req[r] EXCEPT !.pc = q.pc], call[r], lastId)
  BY <1>0, <1>2 DEF ReqState, Fits, CallFits, PhotoFits, RowFits, UploadSteps,
     PatchSteps, ServeSteps, DecideSteps, LoadSteps, PhotoOps
<1>5. ActorsOK' /\ RequestsFit' /\ WorkersFit'
  BY <1>2, <1>3, <1>4, StepTyped
<1> QED
  BY <1>3, <1>5, OnlyActorsMove

(* Dropping photos and flags leaves the tables typed. *)
LEMMA TablesAfterDrop ==
    ASSUME TablesOK, NEW P, NEW F,
           photos' = Drop(photos, P), flags' = Drop(flags, F),
           UNCHANGED <<lastId, audit, outbox>>
    PROVE  TablesOK'
<1>1. /\ DOMAIN photos' \subseteq DOMAIN photos
      /\ \A p \in DOMAIN photos' : photos'[p] = photos[p]
      /\ DOMAIN flags' \subseteq DOMAIN flags
      /\ flags' \in [DOMAIN flags' -> {"pending", "dismissed"}]
  BY DEF TablesOK, Drop, Restrict
<1> QED
  BY <1>1 DEF TablesOK

(* The rest of DELETE /photos/{id}. *)
LEMMA DeleteTyped ==
    ASSUME TypeInv, NEW r \in Request,
           DeleteCommit(r) \/ DeleteFiles(r) \/ DeleteInvalidate(r)
    PROVE  TypeInv'
<1>0. /\ req[r] \in ReqState /\ call[r] \in Call
      /\ Fits(req[r], call[r], lastId)
      /\ TablesOK /\ StoresOK /\ ActorsOK
  BY RequestFacts
<1>1. CASE DeleteCommit(r)
  <2> DEFINE q == [req[r] EXCEPT !.pc = "delete_files", !.heldFlags = {},
                                 !.heldPhoto = FALSE]
  <2>1. q \in ReqState
    BY <1>0, SetsUpdated DEF Step
  <2>2. q.pc = "delete_files" /\ q.photo = req[r].photo /\ q.row = req[r].row
    BY <1>0 DEF ReqState
  <2>3. req' = [req EXCEPT ![r] = q] /\ UNCHANGED <<call, wk, lastId>>
    BY <1>0, <1>1 DEF DeleteCommit, ActorsOK
  <2>4. Fits([req[r] EXCEPT !.pc = "delete_files"], call[r], lastId)
    BY <1>0, <1>1 DEF DeleteCommit, ReqState, Fits, CallFits, PhotoFits, RowFits,
       UploadSteps, PatchSteps, ServeSteps, DecideSteps, LoadSteps
  <2> HIDE DEF q
  <2>5. ActorsOK' /\ RequestsFit' /\ WorkersFit'
    BY <2>1, <2>2, <2>3, <2>4, StepTyped
  <2>6. TablesOK'
    BY <1>0, <1>1, TablesAfterDrop DEF DeleteCommit
  <2>7. StoresOK'
    BY <1>0, <1>1, StoresKept DEF DeleteCommit
  <2> QED
    BY <2>5, <2>6, <2>7 DEF TypeInv, TypeOK
<1>2. CASE DeleteFiles(r)
  <2>1. /\ "delete_invalidate" \in Step /\ req[r].photo \in PhotoId
        /\ Fits([req[r] EXCEPT !.pc = "delete_invalidate"], call[r], lastId)
    BY <1>0, <1>2 DEF DeleteFiles, Step, ReqState, Fits, CallFits, PhotoFits,
       RowFits, UploadSteps, PatchSteps, ServeSteps, DecideSteps, LoadSteps,
       Decision
  <2>2. ActorsOK' /\ RequestsFit' /\ WorkersFit'
    BY <1>2, <2>1, GotoMoves DEF DeleteFiles, database
  <2>3. StoresOK'
    BY <1>0, <1>2, <2>1, StoresAfterRemoval DEF DeleteFiles
  <2>4. TablesOK'
    BY <1>0, <1>2, TablesKept DEF DeleteFiles
  <2> QED
    BY <2>2, <2>3, <2>4 DEF TypeInv, TypeOK
<1>3. CASE DeleteInvalidate(r)
  <2>1. ActorsOK' /\ RequestsFit' /\ WorkersFit'
    BY <1>3, AnswerMoves DEF DeleteInvalidate, Answer, Codes, database
  <2>2. StoresOK'
    BY <1>0, <1>3, StoresAfterCacheDelete DEF DeleteInvalidate
  <2>3. TablesOK'
    BY <1>0, <1>3, TablesKept DEF DeleteInvalidate
  <2> QED
    BY <2>1, <2>2, <2>3 DEF TypeInv, TypeOK
<1> QED
  BY <1>1, <1>2, <1>3

(* The endpoints that serve a thumbnail's status or a file. *)
LEMMA ServeTyped ==
    ASSUME TypeInv, NEW r \in Request,
           ThumbSend(r) \/ FileSend(r) \/ ThumbFileSend(r)
    PROVE  TypeInv'
<1>1. CASE ThumbSend(r)
  BY <1>1, AnswerTyped DEF ThumbSend, Answer, Codes
<1>2. CASE FileSend(r)
  BY <1>2, AnswerTyped DEF FileSend, Answer, Codes, Served
<1>3. CASE ThumbFileSend(r)
  <2> DEFINE code == CASE req[r].row.status = "none"  -> 500
                       [] req[r].row.status = "ready" -> Served(r, {"thumb"})
                       [] OTHER -> 409
  <2>1. code \in Codes
    BY DEF Codes, Served
  <2> HIDE DEF code
  <2>2. AnswerWith(r, code, None) /\ UNCHANGED <<shared, call, wk>>
    BY <1>3 DEF ThumbFileSend, Answer, code
  <2> QED
    BY <2>1, <2>2, AnswerTyped
<1> QED
  BY <1>1, <1>2, <1>3

LEMMA PhotoStepTyped ==
    ASSUME TypeInv, NEW r \in Request, PhotoStep(r)
    PROVE  TypeInv'
  BY UploadTyped, LoadTyped, GetTyped, PatchTyped, LockTyped, DeleteTyped,
     ServeTyped DEF PhotoStep

---------------------------------------------------------------------------
(* The moderation endpoints.                                               *)

(* POST /photos/{id}/flags. *)
LEMMA FlagTyped ==
    ASSUME TypeInv, NEW r \in Request, FlagCommit(r) \/ FlagRefresh(r)
    PROVE  TypeInv'
<1>0. /\ req[r] \in ReqState /\ call[r] \in Call
      /\ Fits(req[r], call[r], lastId)
      /\ TablesOK /\ StoresOK /\ ActorsOK
  BY RequestFacts
<1>1. CASE FlagCommit(r)
  <2> DEFINE f == <<req[r].photo, call[r].user>>
  <2>1. ASSUME flags' = Put(flags, f, "pending"), Goto(r, "flag_refresh")
        PROVE  ActorsOK' /\ RequestsFit' /\ WorkersFit' /\ TablesOK'
    <3>1. /\ "flag_refresh" \in Step
          /\ Fits([req[r] EXCEPT !.pc = "flag_refresh"], call[r], lastId)
      BY <1>0, <1>1 DEF FlagCommit, Step, ReqState, Fits, CallFits, PhotoFits,
         RowFits, UploadSteps, PatchSteps, ServeSteps, DecideSteps, LoadSteps
    <3>2. ActorsOK' /\ RequestsFit' /\ WorkersFit'
      BY <1>1, <2>1, <3>1, GotoMoves DEF FlagCommit
    <3>3. call[r].op = "flag" /\ req[r].photo \in PhotoId
      BY <1>0, <1>1 DEF FlagCommit, Fits, CallFits, PhotoFits
    <3>4. f \in FlagId
      BY <1>0, <3>3, CallFields DEF PhotoOps, PhotoCall, FlagId
    <3> HIDE DEF f
    <3>5. TablesOK'
      BY <1>0, <1>1, <2>1, <3>4 DEF FlagCommit, TablesOK, Put
    <3> QED
      BY <3>2, <3>5
  <2>2. ASSUME UNCHANGED flags, Answer(r, 409)
        PROVE  ActorsOK' /\ RequestsFit' /\ WorkersFit' /\ TablesOK'
    BY <1>0, <1>1, <2>2, AnswerMoves, TablesKept
       DEF FlagCommit, Answer, Codes, database
  <2>3. StoresOK'
    BY <1>0, <1>1, StoresKept DEF FlagCommit
  <2> QED
    BY <1>1, <2>1, <2>2, <2>3 DEF FlagCommit, TypeInv, TypeOK
<1>2. CASE FlagRefresh(r)
  BY <1>2, AnswerTyped DEF FlagRefresh, Answer, Codes
<1> QED
  BY <1>1, <1>2

(* Queueing outbox rows for flags leaves the outbox typed. *)
LEMMA NotesTyped ==
    ASSUME TablesOK, NEW r \in Request, NEW S \in SUBSET FlagId
    PROVE  /\ DOMAIN WithNotes(r, S) \subseteq NoteId
           /\ \A n \in DOMAIN WithNotes(r, S) : WithNotes(r, S)[n] \in Note
  BY DEF TablesOK, WithNotes, NoteId, Note

(* The audit row of a decision is one. *)
LEMMA AuditTyped ==
    ASSUME NEW r \in Request, call[r] \in Call, call[r].op \in Decision
    PROVE  AuditRow(r) \in Audit
  BY CallFields DEF AuditRow, Audit, DecideCall

(* decide, up to the statement that resolves the flags. *)
LEMMA DecideTyped ==
    ASSUME TypeInv, NEW r \in Request, DecideLoad(r) \/ DismissCommit(r)
    PROVE  TypeInv'
<1>0. /\ req[r] \in ReqState /\ call[r] \in Call
      /\ Fits(req[r], call[r], lastId)
      /\ TablesOK /\ StoresOK /\ ActorsOK
  BY RequestFacts
<1>1. CASE DecideLoad(r)
  <2>1. ASSUME NEW step \in {"dismiss_commit", "action_siblings"}, Goto(r, step)
        PROVE  TypeInv'
    <3>1. /\ step \in Step
          /\ Fits([req[r] EXCEPT !.pc = step], call[r], lastId)
      BY <1>0, <1>1 DEF DecideLoad, Step, ReqState, Fits, CallFits, PhotoFits,
         RowFits, UploadSteps, PatchSteps, ServeSteps, DecideSteps, LoadSteps
    <3> QED
      BY <1>1, <2>1, <3>1, GotoTyped DEF DecideLoad
  <2>2. ASSUME NEW code \in {404, 409}, Answer(r, code)
        PROVE  TypeInv'
    BY <1>1, <2>2, AnswerTyped DEF DecideLoad, Answer, Codes
  <2> QED
    BY <1>1, <2>1, <2>2 DEF DecideLoad
<1>2. CASE DismissCommit(r)
  <2> DEFINE f == call[r].flag
  <2>1. call[r].op \in Decision
    BY <1>0, <1>2 DEF DismissCommit, Fits, CallFits, DecideSteps
  <2>2. CASE f \in DOMAIN flags
    <3> DEFINE q == [req[r] EXCEPT !.pc = "decide_refresh", !.notes = {f}]
    <3>1. f \in FlagId /\ {f} \in SUBSET FlagId
      BY <1>0, <2>2 DEF TablesOK
    <3>2. q \in ReqState
      <4>1. "decide_refresh" \in Step
        BY DEF Step
      <4> QED
        BY <1>0, <3>1, <4>1, SetsUpdated
    <3>3. /\ q.pc = "decide_refresh"
          /\ q.photo = req[r].photo /\ q.row = req[r].row
      BY <1>0 DEF ReqState
    <3>4. req' = [req EXCEPT ![r] = q] /\ UNCHANGED <<call, wk, lastId>>
      BY <1>0, <1>2, <2>2 DEF DismissCommit, ActorsOK
    <3>5. Fits([req[r] EXCEPT !.pc = "decide_refresh"], call[r], lastId)
      BY <1>0, <1>2 DEF DismissCommit, ReqState, Fits, CallFits, PhotoFits, RowFits,
         UploadSteps, PatchSteps, ServeSteps, DecideSteps, LoadSteps
    <3> HIDE DEF q
    <3>6. ActorsOK' /\ RequestsFit' /\ WorkersFit'
      BY <3>2, <3>3, <3>4, <3>5, StepTyped
    <3>7. /\ flags' = [flags EXCEPT ![f] = "dismissed"]
          /\ audit' = audit \cup {AuditRow(r)}
          /\ outbox' = WithNotes(r, {f})
          /\ UNCHANGED <<photos, lastId>>
      BY <1>2, <2>2 DEF DismissCommit
    <3>8. /\ AuditRow(r) \in Audit
          /\ DOMAIN outbox' \subseteq NoteId
          /\ \A n \in DOMAIN outbox' : outbox'[n] \in Note
      <4>1. AuditRow(r) \in Audit
        BY <1>0, <2>1, AuditTyped
      <4> QED
        BY <1>0, <3>1, <3>7, <4>1, NotesTyped
    <3>9. TablesOK'
      BY <1>0, <3>7, <3>8 DEF TablesOK
    <3>10. StoresOK'
      BY <1>0, <1>2, StoresKept DEF DismissCommit
    <3> QED
      BY <3>6, <3>9, <3>10 DEF TypeInv, TypeOK
  <2>3. CASE f \notin DOMAIN flags
    BY <1>2, <2>3, AnswerTyped DEF DismissCommit, Answer, Codes, shared, database
  <2> QED
    BY <2>2, <2>3
<1> QED
  BY <1>1, <1>2

(* An action decision, up to its last statement. *)
LEMMA ActionTyped ==
    ASSUME TypeInv, NEW r \in Request,
           \/ ActionSiblings(r) \/ ActionResolve(r) \/ ActionPhoto(r)
           \/ ActionCascade(r)
    PROVE  TypeInv'
<1>0. /\ req[r] \in ReqState /\ call[r] \in Call
      /\ Fits(req[r], call[r], lastId)
      /\ TablesOK /\ StoresOK /\ ActorsOK
  BY RequestFacts
<1>1. /\ "action_resolve" \in Step /\ "action_photo" \in Step
      /\ "lock_flags" \in Step /\ "action_files" \in Step
      /\ FlagsOf(req[r].photo) \in SUBSET FlagId
      /\ {f \in FlagsOf(req[r].photo) : flags[f] = "pending"} \in SUBSET FlagId
      /\ req[r].flags \in SUBSET FlagId
      /\ req[r].heldFlags \cup FlagsOf(req[r].photo) \in SUBSET FlagId
  BY <1>0 DEF Step, FlagsOf, TablesOK, ReqState
<1>2. ASSUME NEW q \in ReqState,
             req' = [req EXCEPT ![r] = q],
             q.photo = req[r].photo, q.row = req[r].row,
             \/ req[r].pc \in DecideSteps
                  /\ q.pc \in {"lock_flags"} \cup DecideSteps
             \/ ActionCascade(r) /\ q.pc = "action_files"
      PROVE  TypeInv'
  <2>1. UNCHANGED <<shared, call, wk, lastId>>
    BY DEF ActionSiblings, ActionResolve, ActionPhoto, ActionCascade, shared, database
  <2>2. Fits([req[r] EXCEPT !.pc = q.pc], call[r], lastId)
    <3>1. call[r].op \in Decision
      BY <1>0, <1>2 DEF ActionCascade, Fits, CallFits, Decision
    <3>2. [req[r] EXCEPT !.pc = q.pc].pc \in {"lock_flags"} \cup DecideSteps
      BY <1>0, <1>2 DEF ReqState, DecideSteps
    <3>3. [req[r] EXCEPT !.pc = q.pc].photo = req[r].photo
      BY <1>0 DEF ReqState
    <3> QED
      BY <1>0, <3>1, <3>2, <3>3 DEF Fits, CallFits, PhotoFits, RowFits,
         UploadSteps, PatchSteps, ServeSteps, DecideSteps, LoadSteps, Decision
  <2>3. ActorsOK' /\ RequestsFit' /\ WorkersFit'
    BY <1>2, <2>1, <2>2, StepTyped
  <2> QED
    BY <2>1, <2>3, OnlyActorsMove
<1>3. CASE ActionSiblings(r)
  <2> DEFINE S == {f \in FlagsOf(req[r].photo) : flags[f] = "pending"}
             q == [req[r] EXCEPT !.pc = "action_resolve", !.flags = S]
  <2>1. q \in ReqState
    BY <1>0, <1>1, SetsUpdated
  <2>2. q.pc = "action_resolve" /\ q.photo = req[r].photo /\ q.row = req[r].row
    BY <1>0 DEF ReqState
  <2>3. req' = [req EXCEPT ![r] = q] /\ req[r].pc \in DecideSteps
    BY <1>0, <1>3 DEF ActionSiblings, ActorsOK, DecideSteps
  <2> HIDE DEF q
  <2> QED
    BY <1>2, <2>1, <2>2, <2>3 DEF DecideSteps
<1>4. CASE ActionResolve(r)
  <2>1. CASE req[r].flags \subseteq DOMAIN flags
    <3> DEFINE q == [req[r] EXCEPT !.pc = "action_photo", !.notes = req[r].flags,
                                   !.heldFlags = req[r].flags]
    <3>1. q \in ReqState
      BY <1>0, <1>1, SetsUpdated
    <3>2. q.pc = "action_photo" /\ q.photo = req[r].photo /\ q.row = req[r].row
      BY <1>0 DEF ReqState
    <3>3. req' = [req EXCEPT ![r] = q] /\ req[r].pc \in DecideSteps
      BY <1>0, <1>4, <2>1 DEF ActionResolve, ActorsOK, DecideSteps
    <3> HIDE DEF q
    <3> QED
      BY <1>2, <3>1, <3>2, <3>3 DEF DecideSteps
  <2>2. CASE ~(req[r].flags \subseteq DOMAIN flags)
    BY <1>4, <2>2, AnswerTyped DEF ActionResolve, Answer, Codes
  <2> QED
    BY <2>1, <2>2
<1>5. CASE ActionPhoto(r)
  <2>1. CASE req[r].photo \in DOMAIN photos
    <3> DEFINE q == [req[r] EXCEPT !.pc = "lock_flags",
                                   !.flags = FlagsOf(req[r].photo)]
    <3>1. q \in ReqState
      BY <1>0, <1>1, SetsUpdated
    <3>2. q.pc = "lock_flags" /\ q.photo = req[r].photo /\ q.row = req[r].row
      BY <1>0 DEF ReqState
    <3>3. req' = [req EXCEPT ![r] = q] /\ req[r].pc \in DecideSteps
      BY <1>0, <1>5, <2>1 DEF ActionPhoto, ActorsOK, DecideSteps
    <3> HIDE DEF q
    <3> QED
      BY <1>2, <3>1, <3>2, <3>3
  <2>2. CASE req[r].photo \notin DOMAIN photos
    BY <1>5, <2>2, AnswerTyped DEF ActionPhoto, Answer, Codes
  <2> QED
    BY <2>1, <2>2
<1>6. CASE ActionCascade(r)
  <2> DEFINE H == req[r].heldFlags \cup FlagsOf(req[r].photo)
             q == [req[r] EXCEPT !.pc = "action_files", !.heldFlags = H]
  <2>1. q \in ReqState
    BY <1>0, <1>1, SetsUpdated
  <2>2. q.pc = "action_files" /\ q.photo = req[r].photo /\ q.row = req[r].row
    BY <1>0 DEF ReqState
  <2>3. req' = [req EXCEPT ![r] = q]
    BY <1>0, <1>6 DEF ActionCascade, ActorsOK
  <2> HIDE DEF q
  <2> QED
    BY <1>2, <1>6, <2>1, <2>2, <2>3
<1> QED
  BY <1>3, <1>4, <1>5, <1>6

(* The removal by an action decision and its commit. *)
LEMMA RemovalTyped ==
    ASSUME TypeInv, NEW r \in Request,
           ActionFiles(r) \/ ActionInvalidate(r) \/ ActionCommit(r)
    PROVE  TypeInv'
<1>0. /\ req[r] \in ReqState /\ call[r] \in Call
      /\ Fits(req[r], call[r], lastId)
      /\ TablesOK /\ StoresOK /\ ActorsOK
  BY RequestFacts
<1>1. /\ call[r].op \in Decision /\ req[r].photo \in PhotoId
      /\ \A step \in {"action_invalidate", "action_commit", "decide_refresh"} :
            /\ step \in Step
            /\ Fits([req[r] EXCEPT !.pc = step], call[r], lastId)
  <2>1. call[r].op \in Decision /\ req[r].photo \in PhotoId
    BY <1>0 DEF ActionFiles, ActionInvalidate, ActionCommit, Fits, CallFits,
       PhotoFits, DecideSteps, Decision
  <2>2. ASSUME NEW step \in {"action_invalidate", "action_commit", "decide_refresh"}
        PROVE  /\ step \in Step
               /\ Fits([req[r] EXCEPT !.pc = step], call[r], lastId)
    BY <1>0, <2>1, <2>2 DEF Step, ReqState, Fits, CallFits, PhotoFits, RowFits,
       UploadSteps, PatchSteps, ServeSteps, DecideSteps, LoadSteps, Decision
  <2> QED
    BY <2>1, <2>2
<1>2. CASE ActionFiles(r)
  <2>1. ActorsOK' /\ RequestsFit' /\ WorkersFit'
    BY <1>1, <1>2, GotoMoves DEF ActionFiles, database
  <2>2. StoresOK'
    BY <1>0, <1>1, <1>2, StoresAfterRemoval DEF ActionFiles
  <2>3. TablesOK'
    BY <1>0, <1>2, TablesKept DEF ActionFiles
  <2> QED
    BY <2>1, <2>2, <2>3 DEF TypeInv, TypeOK
<1>3. CASE ActionInvalidate(r)
  <2>1. ActorsOK' /\ RequestsFit' /\ WorkersFit'
    BY <1>1, <1>3, GotoMoves DEF ActionInvalidate, database
  <2>2. StoresOK'
    BY <1>0, <1>3, StoresAfterCacheDelete DEF ActionInvalidate
  <2>3. TablesOK'
    BY <1>0, <1>3, TablesKept DEF ActionInvalidate
  <2> QED
    BY <2>1, <2>2, <2>3 DEF TypeInv, TypeOK
<1>4. CASE ActionCommit(r)
  <2> DEFINE q == [req[r] EXCEPT !.pc = "decide_refresh", !.heldFlags = {},
                                 !.heldPhoto = FALSE]
  <2>1. q \in ReqState
    BY <1>0, <1>1, SetsUpdated
  <2>2. /\ q.pc = "decide_refresh"
        /\ q.photo = req[r].photo /\ q.row = req[r].row
    BY <1>0 DEF ReqState
  <2>3. req' = [req EXCEPT ![r] = q] /\ UNCHANGED <<call, wk, lastId>>
    BY <1>0, <1>4 DEF ActionCommit, ActorsOK
  <2> HIDE DEF q
  <2>4. ActorsOK' /\ RequestsFit' /\ WorkersFit'
    BY <1>1, <2>1, <2>2, <2>3, StepTyped
  <2>5. /\ AuditRow(r) \in Audit
        /\ DOMAIN outbox' \subseteq NoteId
        /\ \A n \in DOMAIN outbox' : outbox'[n] \in Note
    <3>1. req[r].notes \in SUBSET FlagId
      BY <1>0 DEF ReqState
    <3>2. AuditRow(r) \in Audit
      BY <1>0, <1>1, AuditTyped
    <3>3. outbox' = WithNotes(r, req[r].notes)
      BY <1>4 DEF ActionCommit
    <3> QED
      BY <1>0, <3>1, <3>2, <3>3, NotesTyped
  <2>6. TablesOK'
    <3>1. /\ photos' = Drop(photos, {req[r].photo})
          /\ flags' = Drop(flags, FlagsOf(req[r].photo))
          /\ audit' = audit \cup {AuditRow(r)} /\ lastId' = lastId
      BY <1>4 DEF ActionCommit
    <3>2. /\ DOMAIN photos' \subseteq DOMAIN photos
          /\ \A p \in DOMAIN photos' : photos'[p] = photos[p]
          /\ DOMAIN flags' \subseteq DOMAIN flags
          /\ flags' \in [DOMAIN flags' -> {"pending", "dismissed"}]
      BY <1>0, <3>1 DEF TablesOK, Drop, Restrict
    <3> QED
      BY <1>0, <2>5, <3>1, <3>2 DEF TablesOK
  <2>7. StoresOK'
    BY <1>0, <1>4, StoresKept DEF ActionCommit
  <2> QED
    BY <2>4, <2>6, <2>7 DEF TypeInv, TypeOK
<1> QED
  BY <1>2, <1>3, <1>4

(* What a decision does after its commit. *)
LEMMA DispatchTyped ==
    ASSUME TypeInv, NEW r \in Request,
           DecideRefresh(r) \/ Dispatch(r) \/ DispatchFails(r) \/ Decided(r)
    PROVE  TypeInv'
<1>0. /\ req[r] \in ReqState /\ call[r] \in Call
      /\ Fits(req[r], call[r], lastId)
      /\ TablesOK /\ StoresOK /\ ActorsOK
  BY RequestFacts
<1>1. CASE DecideRefresh(r)
  <2>1. CASE Goto(r, "dispatch")
    <3>1. /\ "dispatch" \in Step
          /\ Fits([req[r] EXCEPT !.pc = "dispatch"], call[r], lastId)
      BY <1>0, <1>1 DEF DecideRefresh, Step, ReqState, Fits, CallFits, PhotoFits,
         RowFits, UploadSteps, PatchSteps, ServeSteps, DecideSteps, LoadSteps
    <3> QED
      BY <1>1, <2>1, <3>1, GotoTyped DEF DecideRefresh
  <2>2. CASE Answer(r, 500)
    BY <1>1, <2>2, AnswerTyped DEF DecideRefresh, Answer, Codes
  <2> QED
    BY <1>1, <2>1, <2>2 DEF DecideRefresh
<1>2. CASE Dispatch(r)
  <2>1. PICK f \in req[r].notes :
          /\ Publish([note |-> <<r, f>>, retries |-> 0])
          /\ req' = [req EXCEPT ![r].notes = @ \ {f}]
    BY <1>2 DEF Dispatch
  <2> DEFINE q == [req[r] EXCEPT !.notes = req[r].notes \ {f}]
  <2>2. q \in ReqState
    BY <1>0 DEF ReqState
  <2>3. q.pc = req[r].pc /\ q.photo = req[r].photo /\ q.row = req[r].row
    BY <1>0 DEF ReqState
  <2>4. req' = [req EXCEPT ![r] = q] /\ UNCHANGED <<call, wk, lastId>>
    BY <1>0, <1>2, <2>1 DEF Dispatch, ActorsOK, database
  <2> HIDE DEF q
  <2>5. [req[r] EXCEPT !.pc = q.pc] = req[r]
    BY <1>0, <2>3 DEF ReqState
  <2>6. ActorsOK' /\ RequestsFit' /\ WorkersFit'
    BY <1>0, <2>2, <2>3, <2>4, <2>5, StepTyped
  <2>7. [note |-> <<r, f>>, retries |-> 0] \in Message
    BY <1>0, <2>1, ConstantAssumption DEF ReqState, Message, NoteMessage, NoteId
  <2>8. StoresOK'
    BY <1>0, <1>2, <2>1, <2>7, StoresAfterPublish DEF Dispatch
  <2>9. TablesOK'
    BY <1>0, <1>2, TablesKept DEF Dispatch
  <2> QED
    BY <2>6, <2>8, <2>9 DEF TypeInv, TypeOK
<1>3. CASE DispatchFails(r)
  <2>1. ActorsOK' /\ RequestsFit' /\ WorkersFit'
    BY <1>3, AnswerMoves DEF DispatchFails, Answer, Codes, database
  <2>2. StoresOK'
    BY <1>0, <1>3, StoresAfterSpend DEF DispatchFails, Fault
  <2>3. TablesOK'
    BY <1>0, <1>3, TablesKept DEF DispatchFails
  <2> QED
    BY <2>1, <2>2, <2>3 DEF TypeInv, TypeOK
<1>4. CASE Decided(r)
  BY <1>4, AnswerTyped DEF Decided, Answer, Codes
<1> QED
  BY <1>1, <1>2, <1>3, <1>4

LEMMA ModerationStepTyped ==
    ASSUME TypeInv, NEW r \in Request, ModerationStep(r)
    PROVE  TypeInv'
  BY FlagTyped, DecideTyped, ActionTyped, RemovalTyped, DispatchTyped
     DEF ModerationStep

---------------------------------------------------------------------------
(* The workers.                                                            *)

LEMMA WorkerFacts ==
    ASSUME TypeInv, NEW w \in Worker
    PROVE  /\ wk[w] \in WorkerState /\ MessageFits(wk[w])
           /\ wk[w].pc \in ThumbSteps => wk[w].msg \in ThumbMessage
           /\ wk[w].pc \in ThumbSteps => JobPhoto(w) \in PhotoId
           /\ wk[w].pc \in NoteSteps => wk[w].msg \in NoteMessage
           /\ TablesOK /\ StoresOK /\ ActorsOK
  BY DEF TypeInv, TypeOK, ActorsOK, WorkersFit, MessageFits, JobPhoto, ThumbMessage

(* A worker may move on to a step its message serves. *)
LEMMA WStepFits ==
    ASSUME TypeInv, NEW w \in Worker, NEW step \in WorkerStep,
           wk[w].pc # "idle",
           step \in ThumbSteps => wk[w].pc \in ThumbSteps,
           step \in NoteSteps => wk[w].pc \in NoteSteps,
           step = "thumb_retry" => wk[w].msg.retries < ThumbnailMaxRetries,
           step = "note_retry" => wk[w].msg.retries < NotificationMaxRetries
    PROVE  MessageFits([wk[w] EXCEPT !.pc = step])
<1>1. wk[w] \in WorkerState /\ MessageFits(wk[w])
  BY WorkerFacts
<1> DEFINE s == [wk[w] EXCEPT !.pc = step]
<1>2. s.pc = step /\ s.msg = wk[w].msg
  BY <1>1 DEF WorkerState
<1> HIDE DEF s
<1>3. MessageFits(s)
  BY <1>1, <1>2 DEF MessageFits
<1> QED
  BY <1>3 DEF s

(* The worker goes on to its next step, the database and the stores stay. *)
LEMMA WGotoTyped ==
    ASSUME TypeInv, NEW w \in Worker, NEW step \in WorkerStep,
           WGoto(w, step), UNCHANGED <<shared, call, req>>,
           MessageFits([wk[w] EXCEPT !.pc = step])
    PROVE  TypeInv'
<1>1. ActorsOK' /\ RequestsFit' /\ WorkersFit'
  BY WGotoMoves DEF shared, database
<1> QED
  BY <1>1, OnlyActorsMove

(* An UPDATE of a thumbnail by its job. *)
LEMMA UpdateThumbTyped ==
    ASSUME TypeInv, NEW w \in Worker, wk[w].pc \in ThumbSteps,
           NEW row, JobPhoto(w) \in DOMAIN photos => row \in Photo,
           NEW next \in ThumbSteps \ {"thumb_retry"}, UpdateThumb(w, row, next)
    PROVE  TypeInv'
<1>0. /\ TablesOK /\ StoresOK /\ ActorsOK
      /\ wk[w].pc # "idle"
  BY WorkerFacts DEF ThumbSteps
<1>1. \A step \in {next, "ack"} :
         step \in WorkerStep /\ MessageFits([wk[w] EXCEPT !.pc = step])
  <2>1. ASSUME NEW step \in {next, "ack"}
        PROVE  /\ step \in WorkerStep
               /\ step \notin NoteSteps /\ step \notin {"thumb_retry", "note_retry"}
    BY <2>1 DEF WorkerStep, ThumbSteps, NoteSteps
  <2> QED
    BY <1>0, <2>1, WStepFits
<1>2. PICK step \in {next, "ack"} :
        /\ WGoto(w, step)
        /\ \/ UNCHANGED photos
           \/ /\ JobPhoto(w) \in DOMAIN photos
              /\ photos' = [photos EXCEPT ![JobPhoto(w)] = row]
  BY DEF UpdateThumb
<1>3. UNCHANGED <<lastId, flags, audit, outbox, files, cache, queue, mails,
                  call, req, spent>>
  BY DEF UpdateThumb
<1>4. ActorsOK' /\ RequestsFit' /\ WorkersFit'
  BY <1>1, <1>2, <1>3, WGotoMoves
<1>5. TablesOK'
  BY <1>0, <1>2, <1>3 DEF TablesOK
<1>6. StoresOK'
  BY <1>0, <1>3, StoresKept
<1> QED
  BY <1>4, <1>5, <1>6 DEF TypeInv, TypeOK

LEMMA UpdateStatusTyped ==
    ASSUME TypeInv, NEW w \in Worker, wk[w].pc \in ThumbSteps,
           NEW status \in Status, NEW next \in ThumbSteps \ {"thumb_retry"},
           UpdateStatus(w, status, next)
    PROVE  TypeInv'
<1> DEFINE row == [photos[JobPhoto(w)] EXCEPT !.status = status]
<1>1. JobPhoto(w) \in DOMAIN photos => row \in Photo
  BY WorkerFacts DEF TablesOK, Photo
<1>2. UpdateThumb(w, row, next)
  BY DEF UpdateStatus
<1> HIDE DEF row
<1> QED
  BY <1>1, <1>2, UpdateThumbTyped

(* A worker takes a message: it is of the kind its next step expects. *)
LEMMA TakeTyped ==
    ASSUME TypeInv, NEW w \in Worker, TakeThumb(w) \/ TakeNote(w)
    PROVE  TypeInv'
<1>0. wk[w] \in WorkerState /\ TablesOK /\ StoresOK /\ ActorsOK
  BY WorkerFacts
<1>1. PICK m \in DOMAIN queue, s \in WorkerState :
        /\ queue' = BagRemove(queue, m)
        /\ wk' = [wk EXCEPT ![w] = s]
        /\ MessageFits(s)
  <2>1. CASE TakeThumb(w)
    <3>1. PICK m \in DOMAIN queue \cap ThumbMessage :
             /\ queue' = BagRemove(queue, m)
             /\ wk' = [wk EXCEPT ![w] =
                        IF m.photo \in DOMAIN photos
                        THEN [pc |-> "thumb_processing", msg |-> m,
                              status |-> photos[m.photo].status,
                              attempts |-> photos[m.photo].attempts]
                        ELSE [IdleWorker EXCEPT !.pc = "ack", !.msg = m]]
      BY <2>1 DEF TakeThumb
    <3>2. CASE m.photo \in DOMAIN photos
      <4> DEFINE s == [pc |-> "thumb_processing", msg |-> m,
                       status |-> photos[m.photo].status,
                       attempts |-> photos[m.photo].attempts]
      <4>1. s \in WorkerState /\ MessageFits(s)
        BY <1>0, <3>2 DEF TablesOK, Photo, WorkerState, WorkerStep, Message,
           MessageFits, ThumbSteps, NoteSteps
      <4> QED
        BY <3>1, <3>2, <4>1
    <3>3. CASE m.photo \notin DOMAIN photos
      <4> DEFINE s == [IdleWorker EXCEPT !.pc = "ack", !.msg = m]
      <4>1. s \in WorkerState /\ MessageFits(s)
        BY DEF IdleWorker, WorkerState, WorkerStep, Message, MessageFits,
           ThumbSteps, NoteSteps
      <4> QED
        BY <3>1, <3>3, <4>1
    <3> QED
      BY <3>2, <3>3
  <2>2. CASE TakeNote(w)
    <3>1. PICK m \in DOMAIN queue \cap NoteMessage :
             /\ queue' = BagRemove(queue, m)
             /\ wk' = [wk EXCEPT ![w] =
                        IF m.note \in DOMAIN outbox /\ outbox[m.note].status # "sent"
                        THEN [pc |-> "note_send", msg |-> m,
                              status |-> outbox[m.note].status,
                              attempts |-> outbox[m.note].attempts]
                        ELSE [IdleWorker EXCEPT !.pc = "ack", !.msg = m]]
      BY <2>2 DEF TakeNote
    <3>2. CASE m.note \in DOMAIN outbox /\ outbox[m.note].status # "sent"
      <4> DEFINE s == [pc |-> "note_send", msg |-> m,
                       status |-> outbox[m.note].status,
                       attempts |-> outbox[m.note].attempts]
      <4>1. s \in WorkerState /\ MessageFits(s)
        BY <1>0, <3>2 DEF TablesOK, Note, WorkerState, WorkerStep, Message, Status,
           MessageFits, ThumbSteps, NoteSteps
      <4> QED
        BY <3>1, <3>2, <4>1
    <3>3. CASE ~(m.note \in DOMAIN outbox /\ outbox[m.note].status # "sent")
      <4> DEFINE s == [IdleWorker EXCEPT !.pc = "ack", !.msg = m]
      <4>1. s \in WorkerState /\ MessageFits(s)
        BY DEF IdleWorker, WorkerState, WorkerStep, Message, MessageFits,
           ThumbSteps, NoteSteps
      <4> QED
        BY <3>1, <3>3, <4>1
    <3> QED
      BY <3>2, <3>3
  <2> QED
    BY <2>1, <2>2
<1>2. UNCHANGED <<database, files, cache, mails, call, req, spent, lastId>>
  BY DEF TakeThumb, TakeNote, database
<1>3. ActorsOK' /\ RequestsFit' /\ WorkersFit'
  BY <1>1, <1>2, WorkerMoves
<1>4. StoresOK'
  BY <1>0, <1>1, <1>2, StoresAfterTake
<1>5. TablesOK'
  BY <1>0, <1>2, TablesKept
<1> QED
  BY <1>3, <1>4, <1>5 DEF TypeInv, TypeOK

(* generate_thumbnail. *)
LEMMA ThumbTyped ==
    ASSUME TypeInv, NEW w \in Worker,
           \/ ThumbProcessing(w) \/ ThumbOpen(w) \/ ThumbSave(w)
           \/ ThumbSaveFails(w) \/ ThumbReady(w) \/ ThumbFailed(w)
           \/ ThumbPending(w) \/ ThumbInvalidate(w) \/ ThumbPendingInvalidate(w)
    PROVE  TypeInv'
<1>0. /\ wk[w] \in WorkerState /\ TablesOK /\ StoresOK /\ ActorsOK
      /\ wk[w].pc \in ThumbSteps /\ wk[w].pc # "idle"
      /\ wk[w].msg \in ThumbMessage /\ JobPhoto(w) \in PhotoId
  <2>1. wk[w].pc \in ThumbSteps /\ wk[w].pc # "idle"
    BY DEF ThumbProcessing, ThumbOpen, ThumbSave, ThumbSaveFails, ThumbReady,
       ThumbFailed, ThumbPending, ThumbInvalidate, ThumbPendingInvalidate, ThumbSteps
  <2> QED
    BY <2>1, WorkerFacts
<1>1. \A step \in {"ack", "thumb_open", "thumb_save", "thumb_ready",
                   "thumb_failed", "thumb_pending"} :
         step \in WorkerStep /\ MessageFits([wk[w] EXCEPT !.pc = step])
  <2>1. ASSUME NEW step \in {"ack", "thumb_open", "thumb_save", "thumb_ready",
                             "thumb_failed", "thumb_pending"}
        PROVE  /\ step \in WorkerStep
               /\ step \notin NoteSteps /\ step \notin {"thumb_retry", "note_retry"}
    BY <2>1 DEF WorkerStep, NoteSteps
  <2> QED
    BY <1>0, <2>1, WStepFits
<1>2. CASE ThumbProcessing(w)
  <2> DEFINE row == [photos[JobPhoto(w)] EXCEPT
                       !.status = IF wk[w].status = "processing" THEN @
                                                                 ELSE "processing",
                       !.attempts = wk[w].attempts + 1]
  <2>1. JobPhoto(w) \in DOMAIN photos => row \in Photo
    <3>1. SUFFICES ASSUME JobPhoto(w) \in DOMAIN photos PROVE row \in Photo
      OBVIOUS
    <3> DEFINE old == photos[JobPhoto(w)]
               status == IF wk[w].status = "processing" THEN old.status
                                                        ELSE "processing"
               attempts == wk[w].attempts + 1
    <3>2. old \in Photo /\ attempts \in Nat
      BY <1>0, <3>1 DEF TablesOK, WorkerState
    <3>3. status \in Status
      BY <3>2 DEF Photo, Status
    <3>4. row = [old EXCEPT !.status = status, !.attempts = attempts]
      BY <3>2 DEF Photo
    <3> HIDE DEF old, status, attempts, row
    <3> QED
      BY <3>2, <3>3, <3>4 DEF Photo
  <2>2. UpdateThumb(w, row, "thumb_open")
    BY <1>2 DEF ThumbProcessing
  <2> HIDE DEF row
  <2> QED
    BY <1>0, <2>1, <2>2, UpdateThumbTyped DEF ThumbSteps
<1>3. CASE ThumbOpen(w)
  <2>1. PICK step \in {"thumb_failed", "thumb_save", "thumb_pending"} :
           WGoto(w, step)
    BY <1>3 DEF ThumbOpen
  <2> QED
    BY <1>1, <1>3, <2>1, WGotoTyped DEF ThumbOpen
<1>4. CASE ThumbSave(w)
  <2>1. ActorsOK' /\ RequestsFit' /\ WorkersFit'
    BY <1>1, <1>4, WGotoMoves DEF ThumbSave, database
  <2>2. files[JobPhoto(w)] \cup {"thumb"} \in SUBSET Blob
    BY <1>0 DEF StoresOK, Blob
  <2>3. StoresOK'
    BY <1>0, <1>4, <2>2, StoresAfterWrite DEF ThumbSave
  <2>4. TablesOK'
    BY <1>0, <1>4, TablesKept DEF ThumbSave
  <2> QED
    BY <2>1, <2>3, <2>4 DEF TypeInv, TypeOK
<1>5. CASE ThumbSaveFails(w)
  <2>1. ActorsOK' /\ RequestsFit' /\ WorkersFit'
    BY <1>1, <1>5, WGotoMoves DEF ThumbSaveFails, database
  <2>2. StoresOK'
    BY <1>0, <1>5, StoresAfterSpend DEF ThumbSaveFails, Fault
  <2>3. TablesOK'
    BY <1>0, <1>5, TablesKept DEF ThumbSaveFails
  <2> QED
    BY <2>1, <2>2, <2>3 DEF TypeInv, TypeOK
<1>6. CASE ThumbReady(w)
  BY <1>0, <1>6, UpdateStatusTyped DEF ThumbReady, Status, ThumbSteps
<1>7. CASE ThumbFailed(w)
  BY <1>0, <1>7, UpdateStatusTyped DEF ThumbFailed, Status, ThumbSteps
<1>8. CASE ThumbPending(w)
  BY <1>0, <1>8, UpdateStatusTyped DEF ThumbPending, Status, ThumbSteps
<1>9. CASE ThumbInvalidate(w)
  <2>1. ActorsOK' /\ RequestsFit' /\ WorkersFit'
    BY <1>1, <1>9, WGotoMoves DEF ThumbInvalidate, database
  <2>2. StoresOK'
    BY <1>0, <1>9, StoresAfterCacheDelete DEF ThumbInvalidate
  <2>3. TablesOK'
    BY <1>0, <1>9, TablesKept DEF ThumbInvalidate
  <2> QED
    BY <2>1, <2>2, <2>3 DEF TypeInv, TypeOK
<1>10. CASE ThumbPendingInvalidate(w)
  <2>1. PICK step \in WorkerStep :
          WGoto(w, step) /\ MessageFits([wk[w] EXCEPT !.pc = step])
    <3>1. CASE wk[w].msg.retries >= ThumbnailMaxRetries
      BY <1>1, <1>10, <3>1 DEF ThumbPendingInvalidate
    <3>2. CASE ~(wk[w].msg.retries >= ThumbnailMaxRetries)
      <4>1. wk[w].msg.retries < ThumbnailMaxRetries
        BY <1>0, <3>2, ConstantAssumption DEF ThumbMessage
      <4>2. "thumb_retry" \in WorkerStep /\ "thumb_retry" \notin NoteSteps
        BY DEF WorkerStep, NoteSteps
      <4>3. MessageFits([wk[w] EXCEPT !.pc = "thumb_retry"])
        BY <1>0, <4>1, <4>2, WStepFits
      <4> QED
        BY <1>10, <3>2, <4>2, <4>3 DEF ThumbPendingInvalidate
    <3> QED
      BY <3>1, <3>2
  <2>2. ActorsOK' /\ RequestsFit' /\ WorkersFit'
    BY <1>10, <2>1, WGotoMoves DEF ThumbPendingInvalidate, database
  <2>3. StoresOK'
    BY <1>0, <1>10, StoresAfterCacheDelete DEF ThumbPendingInvalidate
  <2>4. TablesOK'
    BY <1>0, <1>10, TablesKept DEF ThumbPendingInvalidate
  <2> QED
    BY <2>2, <2>3, <2>4 DEF TypeInv, TypeOK
<1> QED
  BY <1>2, <1>3, <1>4, <1>5, <1>6, <1>7, <1>8, <1>9, <1>10

(* An outbox row updated by its job. *)
LEMMA UpdateNoteTyped ==
    ASSUME TypeInv, NEW w \in Worker,
           NEW status \in {"sent", "failed"}, NEW next \in WorkerStep,
           UpdateNote(w, status, next), MessageFits([wk[w] EXCEPT !.pc = next])
    PROVE  TypeInv'
<1>0. wk[w] \in WorkerState /\ TablesOK /\ StoresOK /\ ActorsOK
  BY WorkerFacts
<1>1. ActorsOK' /\ RequestsFit' /\ WorkersFit'
  BY WGotoMoves DEF UpdateNote
<1>2. TablesOK'
  <2> DEFINE row == [status |-> IF wk[w].status = status
                                THEN outbox[JobNote(w)].status ELSE status,
                     attempts |-> wk[w].attempts + 1]
  <2>1. JobNote(w) \in DOMAIN outbox => row \in Note
    BY <1>0 DEF Note, WorkerState, TablesOK
  <2>2. outbox' = [outbox EXCEPT ![JobNote(w)] = row]
    BY DEF UpdateNote
  <2> HIDE DEF row
  <2> QED
    BY <1>0, <2>1, <2>2 DEF TablesOK, UpdateNote
<1>3. StoresOK'
  BY <1>0, StoresKept DEF UpdateNote
<1> QED
  BY <1>1, <1>2, <1>3 DEF TypeInv, TypeOK

(* deliver_notification. *)
LEMMA NoteTyped ==
    ASSUME TypeInv, NEW w \in Worker,
           \/ NoteSend(w) \/ NoteSendFails(w) \/ NoteMailDirFails(w)
           \/ NoteSent(w) \/ NoteFailed(w)
    PROVE  TypeInv'
<1>0. /\ wk[w] \in WorkerState /\ TablesOK /\ StoresOK /\ ActorsOK
      /\ wk[w].pc \in NoteSteps /\ wk[w].pc # "idle"
      /\ wk[w].msg \in NoteMessage
  <2>1. wk[w].pc \in NoteSteps /\ wk[w].pc # "idle"
    BY DEF NoteSend, NoteSendFails, NoteMailDirFails, NoteSent, NoteFailed, NoteSteps
  <2> QED
    BY <2>1, WorkerFacts
<1>1. \A step \in {"ack", "note_sent", "note_failed"} :
         step \in WorkerStep /\ MessageFits([wk[w] EXCEPT !.pc = step])
  <2>1. ASSUME NEW step \in {"ack", "note_sent", "note_failed"}
        PROVE  /\ step \in WorkerStep
               /\ step \notin ThumbSteps /\ step \notin {"thumb_retry", "note_retry"}
    BY <2>1 DEF WorkerStep, ThumbSteps
  <2> QED
    BY <1>0, <2>1, WStepFits
<1>2. CASE NoteSend(w)
  <2>1. ActorsOK' /\ RequestsFit' /\ WorkersFit'
    BY <1>1, <1>2, WGotoMoves DEF NoteSend, database
  <2>2. IsABag(mails') /\ DOMAIN mails' \subseteq NoteId
    <3>1. JobNote(w) \in NoteId
      BY <1>0 DEF JobNote, NoteMessage
    <3>2. IsABag(mails) /\ DOMAIN mails \subseteq NoteId
      BY <1>0 DEF StoresOK
    <3>3. mails' = BagAdd(mails, JobNote(w))
      BY <1>2 DEF NoteSend
    <3>4. /\ IsABag(BagAdd(mails, JobNote(w)))
          /\ DOMAIN BagAdd(mails, JobNote(w)) = DOMAIN mails \cup {JobNote(w)}
      BY <3>2, BagAddType
    <3> QED
      BY <3>1, <3>2, <3>3, <3>4
  <2>3. StoresOK'
    BY <1>0, <1>2, <2>2 DEF NoteSend, StoresOK
  <2>4. TablesOK'
    BY <1>0, <1>2, TablesKept DEF NoteSend
  <2> QED
    BY <2>1, <2>3, <2>4 DEF TypeInv, TypeOK
<1>3. CASE NoteSendFails(w)
  <2>1. ActorsOK' /\ RequestsFit' /\ WorkersFit'
    BY <1>1, <1>3, WGotoMoves DEF NoteSendFails, database
  <2>2. StoresOK'
    BY <1>0, <1>3, StoresAfterSpend DEF NoteSendFails, Fault
  <2>3. TablesOK'
    BY <1>0, <1>3, TablesKept DEF NoteSendFails
  <2> QED
    BY <2>1, <2>2, <2>3 DEF TypeInv, TypeOK
<1>4. CASE NoteMailDirFails(w)
  <2>1. ActorsOK' /\ RequestsFit' /\ WorkersFit'
    BY <1>1, <1>4, WGotoMoves DEF NoteMailDirFails, database
  <2>2. StoresOK'
    BY <1>0, <1>4, StoresAfterSpend DEF NoteMailDirFails, Fault
  <2>3. TablesOK'
    BY <1>0, <1>4, TablesKept DEF NoteMailDirFails
  <2> QED
    BY <2>1, <2>2, <2>3 DEF TypeInv, TypeOK
<1>5. CASE NoteSent(w)
  BY <1>1, <1>5, UpdateNoteTyped DEF NoteSent
<1>6. CASE NoteFailed(w)
  <2>1. CASE wk[w].msg.retries >= NotificationMaxRetries
    BY <1>1, <1>6, <2>1, UpdateNoteTyped DEF NoteFailed
  <2>2. CASE ~(wk[w].msg.retries >= NotificationMaxRetries)
    <3>1. wk[w].msg.retries < NotificationMaxRetries
      BY <1>0, <2>2, ConstantAssumption DEF NoteMessage
    <3>2. "note_retry" \in WorkerStep /\ "note_retry" \notin ThumbSteps
      BY DEF WorkerStep, ThumbSteps
    <3>3. MessageFits([wk[w] EXCEPT !.pc = "note_retry"])
      BY <1>0, <3>1, <3>2, WStepFits
    <3> QED
      BY <1>6, <2>2, <3>2, <3>3, UpdateNoteTyped DEF NoteFailed
  <2> QED
    BY <2>1, <2>2
<1> QED
  BY <1>2, <1>3, <1>4, <1>5, <1>6

(* A retry stays within the budget of its task. *)
LEMMA RetryTyped ==
    ASSUME TypeInv, NEW w \in Worker, Retry(w)
    PROVE  TypeInv'
<1>0. /\ wk[w] \in WorkerState /\ TablesOK /\ StoresOK /\ ActorsOK
      /\ wk[w].pc \in {"thumb_retry", "note_retry"} /\ wk[w].pc # "idle"
      /\ MessageFits(wk[w])
  BY WorkerFacts DEF Retry
<1>1. "ack" \in WorkerStep /\ MessageFits([wk[w] EXCEPT !.pc = "ack"])
  <2>1. /\ "ack" \in WorkerStep
        /\ "ack" \notin ThumbSteps /\ "ack" \notin NoteSteps
        /\ "ack" \notin {"thumb_retry", "note_retry"}
    BY DEF WorkerStep, ThumbSteps, NoteSteps
  <2> QED
    BY <1>0, <2>1, WStepFits
<1>2. ActorsOK' /\ RequestsFit' /\ WorkersFit'
  BY <1>1, WGotoMoves DEF Retry, database
<1>3. StoresOK'
  <2> DEFINE m == [wk[w].msg EXCEPT !.retries = @ + 1]
  <2>1. m \in Message
    <3>1. CASE wk[w].pc = "thumb_retry"
      <4>1. wk[w].msg \in ThumbMessage /\ wk[w].msg.retries < ThumbnailMaxRetries
        BY <1>0, <3>1 DEF MessageFits, ThumbSteps
      <4>2. m \in ThumbMessage
        BY <4>1, ConstantAssumption DEF ThumbMessage
      <4> QED
        BY <4>2 DEF Message
    <3>2. CASE wk[w].pc = "note_retry"
      <4>1. wk[w].msg \in NoteMessage /\ wk[w].msg.retries < NotificationMaxRetries
        BY <1>0, <3>2 DEF MessageFits, NoteSteps
      <4>2. m \in NoteMessage
        BY <4>1, ConstantAssumption DEF NoteMessage
      <4> QED
        BY <4>2 DEF Message
    <3> QED
      BY <1>0, <3>1, <3>2
  <2>2. \/ Publish(m) /\ UNCHANGED spent
        \/ Spend("broker") /\ UNCHANGED queue
    BY DEF Retry
  <2> HIDE DEF m
  <2>3. UNCHANGED <<files, cache, mails>>
    BY DEF Retry
  <2>4. CASE Publish(m) /\ UNCHANGED spent
    BY <1>0, <2>1, <2>3, <2>4, StoresAfterPublish
  <2>5. CASE Spend("broker") /\ UNCHANGED queue
    BY <1>0, <2>3, <2>5, StoresAfterSpend DEF Fault
  <2> QED
    BY <2>2, <2>4, <2>5
<1>4. TablesOK'
  BY <1>0, TablesKept DEF Retry
<1> QED
  BY <1>2, <1>3, <1>4 DEF TypeInv, TypeOK

(* An idle worker holds no message. *)
LEMMA IdleFits ==
    IdleWorker \in WorkerState /\ MessageFits(IdleWorker)
  BY DEF IdleWorker, WorkerState, WorkerStep, MessageFits, ThumbSteps, NoteSteps

LEMMA AckTyped ==
    ASSUME TypeInv, NEW w \in Worker, Ack(w)
    PROVE  TypeInv'
<1>1. wk' = [wk EXCEPT ![w] = IdleWorker] /\ UNCHANGED <<shared, call, req>>
  BY DEF Ack
<1>2. UNCHANGED lastId
  BY <1>1 DEF shared, database
<1>3. ActorsOK' /\ RequestsFit' /\ WorkersFit'
  BY <1>1, <1>2, IdleFits, WorkerMoves
<1> QED
  BY <1>1, <1>3, OnlyActorsMove

LEMMA WorkerTurnTyped ==
    ASSUME TypeInv, NEW w \in Worker, WorkerTurn(w)
    PROVE  TypeInv'
  BY TakeTyped, ThumbTyped, NoteTyped, RetryTyped, AckTyped DEF WorkerTurn

---------------------------------------------------------------------------
(* The faults.                                                             *)

(* A message made visible again is one a worker held. *)
LEMMA RedeliveryTyped ==
    ASSUME TypeInv, NEW w \in Worker, WorkerCrash(w) \/ Redeliver(w)
    PROVE  TypeInv'
<1>0. /\ wk[w] \in WorkerState /\ TablesOK /\ StoresOK /\ ActorsOK
      /\ MessageFits(wk[w]) /\ wk[w].pc # "idle"
  BY WorkerFacts DEF WorkerCrash, Redeliver
<1>1. /\ Publish(wk[w].msg) /\ wk[w].msg \in Message
      /\ UNCHANGED <<database, files, cache, mails, call, req>>
      /\ \/ Spend("worker_crash") /\ wk' = [wk EXCEPT ![w] = IdleWorker]
         \/ Spend("redeliver") /\ UNCHANGED wk
  BY <1>0 DEF WorkerCrash, Redeliver, MessageFits
<1>2. UNCHANGED lastId
  BY <1>1 DEF database
<1>3. ActorsOK' /\ RequestsFit' /\ WorkersFit'
  <2>1. CASE wk' = [wk EXCEPT ![w] = IdleWorker]
    BY <1>1, <1>2, <2>1, IdleFits, WorkerMoves
  <2>2. CASE UNCHANGED wk
    BY <1>1, <1>2, <2>2 DEF TypeInv, TypeOK, ActorsOK, RequestsFit, WorkersFit
  <2> QED
    BY <1>1, <2>1, <2>2
<1>4. StoresOK'
  BY <1>0, <1>1, StoresAfterPublish DEF Fault
<1>5. TablesOK'
  BY <1>0, <1>1, TablesKept
<1> QED
  BY <1>3, <1>4, <1>5 DEF TypeInv, TypeOK

LEMMA WorkerDbErrorTyped ==
    ASSUME TypeInv, NEW w \in Worker, WorkerDbError(w)
    PROVE  TypeInv'
<1>0. /\ TablesOK /\ StoresOK /\ wk[w].pc # "idle"
  BY WorkerFacts DEF WorkerDbError
<1>1. "ack" \in WorkerStep /\ MessageFits([wk[w] EXCEPT !.pc = "ack"])
  <2>1. /\ "ack" \in WorkerStep
        /\ "ack" \notin ThumbSteps /\ "ack" \notin NoteSteps
        /\ "ack" \notin {"thumb_retry", "note_retry"}
    BY DEF WorkerStep, ThumbSteps, NoteSteps
  <2> QED
    BY <1>0, <2>1, WStepFits
<1>2. ActorsOK' /\ RequestsFit' /\ WorkersFit'
  BY <1>1, WGotoMoves DEF WorkerDbError, database
<1>3. StoresOK'
  BY <1>0, StoresAfterSpend DEF WorkerDbError, Fault
<1>4. TablesOK'
  BY <1>0, TablesKept DEF WorkerDbError
<1> QED
  BY <1>2, <1>3, <1>4 DEF TypeInv, TypeOK

(* Nothing is expected of a request whose process died. *)
LEMMA ApiCrashTyped ==
    ASSUME TypeInv, NEW r \in Request, ApiCrash(r)
    PROVE  TypeInv'
<1>0. /\ TablesOK /\ StoresOK /\ ActorsOK /\ RequestsFit /\ WorkersFit
      /\ req[r] \in ReqState
  BY DEF TypeInv, TypeOK, ActorsOK
<1> DEFINE s == [req[r] EXCEPT !.pc = "crashed", !.flags = {}]
           t == [s EXCEPT !.pc = "crashed", !.notes = {}]
           q == [t EXCEPT !.pc = "crashed", !.heldFlags = {}, !.heldPhoto = FALSE]
<1>1. q = [req[r] EXCEPT !.pc = "crashed", !.flags = {}, !.notes = {},
                         !.heldFlags = {}, !.heldPhoto = FALSE]
  BY <1>0 DEF ReqState
<1>2. req' = [req EXCEPT ![r] = q]
  BY <1>0, <1>1 DEF ApiCrash
<1>3. "crashed" \in Step /\ {} \in SUBSET FlagId /\ FALSE \in BOOLEAN
  BY DEF Step
<1>4. q \in ReqState /\ q.pc = "crashed" /\ q.photo = req[r].photo
  <2>1. s \in ReqState
    BY <1>0, <1>3, SetsUpdated
  <2>2. s.photo = req[r].photo
    BY <1>0 DEF ReqState
  <2> HIDE DEF s
  <2>3. t \in ReqState
    BY <1>3, <2>1, SetsUpdated
  <2>4. t.photo = s.photo
    BY <2>1 DEF ReqState
  <2> HIDE DEF t
  <2>5. q \in ReqState
    BY <1>3, <2>3, SetsUpdated
  <2>6. q.pc = "crashed" /\ q.photo = t.photo
    BY <2>3 DEF ReqState
  <2> QED
    BY <2>2, <2>4, <2>5, <2>6
<1> HIDE DEF q
<1>5. /\ lastId \in Nat /\ lastId' \in Nat /\ lastId <= lastId'
      /\ lastId' = lastId
  BY <1>0, ConstantAssumption DEF TablesOK, ApiCrash, database
<1>6. Fits(req[r], call[r], lastId)
  BY <1>0 DEF RequestsFit
<1>7. Fits(q, call[r], lastId')
  BY <1>4, <1>5, <1>6 DEF Fits, CallFits, PhotoFits, RowFits, UploadSteps,
     PatchSteps, ServeSteps, DecideSteps, LoadSteps
<1>8. ActorsOK' /\ RequestsFit' /\ WorkersFit'
  BY <1>0, <1>2, <1>4, <1>5, <1>7, RequestMoves DEF ApiCrash
<1>9. StoresOK'
  BY <1>0, StoresAfterSpend DEF ApiCrash, Fault
<1>10. TablesOK'
  BY <1>0, TablesKept DEF ApiCrash
<1> QED
  BY <1>8, <1>9, <1>10 DEF TypeInv, TypeOK

LEMMA ApiDbErrorTyped ==
    ASSUME TypeInv, NEW r \in Request, ApiDbError(r)
    PROVE  TypeInv'
<1>1. ActorsOK' /\ RequestsFit' /\ WorkersFit'
  BY AnswerMoves DEF ApiDbError, Answer, Codes, database
<1>2. StoresOK'
  BY StoresAfterSpend DEF TypeInv, TypeOK, ApiDbError, Fault
<1>3. TablesOK'
  BY TablesKept DEF TypeInv, TypeOK, ApiDbError
<1> QED
  BY <1>1, <1>2, <1>3 DEF TypeInv, TypeOK

LEMMA DeadlockAbortTyped ==
    ASSUME TypeInv, NEW r \in Request, DeadlockAbort(r)
    PROVE  TypeInv'
  BY AnswerTyped DEF DeadlockAbort, Answer, Codes

LEMMA ExpireTyped ==
    ASSUME TypeInv, NEW p, Expire(p)
    PROVE  TypeInv'
<1>1. ActorsOK' /\ RequestsFit' /\ WorkersFit'
  BY DEF TypeInv, TypeOK, ActorsOK, RequestsFit, WorkersFit, Expire, database
<1>2. StoresOK'
  BY StoresAfterCacheDelete DEF TypeInv, TypeOK, Expire, CacheDelete
<1>3. TablesOK'
  BY TablesKept DEF TypeInv, TypeOK, Expire
<1> QED
  BY <1>1, <1>2, <1>3 DEF TypeInv, TypeOK

---------------------------------------------------------------------------
(* The theorem.                                                            *)

LEMMA TypeStutter ==
    ASSUME TypeInv, UNCHANGED vars
    PROVE  TypeInv'
<1>1. UNCHANGED shared /\ UNCHANGED <<call, req, wk, lastId>>
  BY DEF vars, shared, database
<1>2. ActorsOK' /\ RequestsFit' /\ WorkersFit'
  BY <1>1 DEF TypeInv, TypeOK, ActorsOK, RequestsFit, WorkersFit
<1> QED
  BY <1>1, <1>2, OnlyActorsMove

LEMMA TypeStep == TypeInv /\ [Next]_vars => TypeInv'
<1> SUFFICES ASSUME TypeInv, [Next]_vars PROVE TypeInv'
  OBVIOUS
<1>1. CASE \E r \in Request : RequestTurn(r) \/ ApiCrash(r) \/ ApiDbError(r)
  BY <1>1, PhotoStepTyped, ModerationStepTyped, DeadlockAbortTyped, ApiCrashTyped,
     ApiDbErrorTyped DEF RequestTurn
<1>2. CASE \E w \in Worker : \/ WorkerTurn(w) \/ WorkerCrash(w) \/ Redeliver(w)
                             \/ WorkerDbError(w)
  BY <1>2, WorkerTurnTyped, RedeliveryTyped, WorkerDbErrorTyped
<1>3. CASE \E p \in PhotoId : Expire(p)
  BY <1>3, ExpireTyped
<1>4. CASE Idle \/ UNCHANGED vars
  BY <1>4, TypeStutter DEF Idle
<1> QED
  BY <1>1, <1>2, <1>3, <1>4 DEF Next

(* Every row, message and key has its type in every reachable state, and a *)
(* handler or a task finds the call, the row, the message and the retry    *)
(* budget its code takes for granted.                                      *)
THEOREM TypeInvCorrect == Spec => []TypeInv
  BY TypeInit, TypeStep, PTL DEF Spec

(* Type correctness as the runs check it. *)
THEOREM TypeCorrect == Spec => []TypeOK
<1>1. TypeInv => TypeOK
  BY DEF TypeInv
<1> QED
  BY <1>1, TypeInvCorrect, PTL

---------------------------------------------------------------------------
(* Frames.                                                                 *)

\* No row of the locked tables comes or goes.
SameRows ==
    /\ DOMAIN photos' = DOMAIN photos
    /\ DOMAIN flags' = DOMAIN flags
    /\ lastId' = lastId

(* A step that moves no request and neither adds nor removes rows. *)
LEMMA LockKept ==
    ASSUME LockInv, SameRows, UNCHANGED <<call, req>>
    PROVE  LockInv'
  BY DEF LockInv, SameRows, FlagsHavePhotos

(* One request moves on to q. *)
LEMMA LockMoves ==
    ASSUME LockInv, ActorsOK, NEW r \in Request, NEW q,
           req' = [req EXCEPT ![r] = q], UNCHANGED call,
           Sound(q, call[r], DOMAIN photos', DOMAIN flags', lastId'),
           \A o \in Request \ {r} :
              /\ Sound(req[o], call[o], DOMAIN photos', DOMAIN flags', lastId')
              /\ Apart(q, req[o]) /\ Apart(req[o], q),
           FlagsHavePhotos'
    PROVE  LockInv'
<1>1. req'[r] = q /\ call' = call
  BY DEF ActorsOK
<1>2. \A o \in Request \ {r} : req'[o] = req[o]
  BY DEF ActorsOK
<1>3. ASSUME NEW o \in Request
      PROVE  Sound(req'[o], call'[o], DOMAIN photos', DOMAIN flags', lastId')
  BY <1>1, <1>2
<1>4. ASSUME NEW a \in Request, NEW b \in Request, a # b
      PROVE  Apart(req'[a], req'[b])
  <2>1. CASE a = r
    BY <1>1, <1>2, <1>4, <2>1
  <2>2. CASE b = r
    BY <1>1, <1>2, <1>4, <2>2
  <2>3. CASE a # r /\ b # r
    BY <1>2, <1>4, <2>3 DEF LockInv
  <2> QED
    BY <2>1, <2>2, <2>3
<1> QED
  BY <1>3, <1>4 DEF LockInv

(* One request moves on to q, and no row comes or goes. *)
LEMMA LockMovesAlone ==
    ASSUME LockInv, ActorsOK, NEW r \in Request, NEW q,
           req' = [req EXCEPT ![r] = q], UNCHANGED call, SameRows,
           Sound(q, call[r], DOMAIN photos, DOMAIN flags, lastId),
           \A o \in Request \ {r} : Apart(q, req[o]) /\ Apart(req[o], q)
    PROVE  LockInv'
<1>1. Sound(q, call[r], DOMAIN photos', DOMAIN flags', lastId')
  BY DEF SameRows
<1>2. \A o \in Request \ {r} :
         Sound(req[o], call[o], DOMAIN photos', DOMAIN flags', lastId')
  BY DEF SameRows, LockInv
<1>3. FlagsHavePhotos'
  BY DEF SameRows, LockInv, FlagsHavePhotos
<1> QED
  BY <1>1, <1>2, <1>3, LockMoves

\* Steps at which a request neither holds a lock nor has picked rows to lock.
BareSteps == Step \ (LockSteps \cup FreshSteps \cup {"action_resolve"})

(* A request that holds no lock, at a step that needs none, about a photo  *)
(* it knew before or a visible one, is sound and apart from all others.    *)
LEMMA BareMoves ==
    ASSUME LockInv, TypeInv, NEW r \in Request, NEW q,
           req' = [req EXCEPT ![r] = q], UNCHANGED call, SameRows,
           q.pc \in BareSteps, q.photo = req[r].photo,
           q.heldFlags = {}, q.heldPhoto = FALSE,
           \/ q.pc \in Unbound
           \/ req[r].pc \notin Unbound
           \/ q.photo \in DOMAIN photos
    PROVE  LockInv'
<1>1. Sound(req[r], call[r], DOMAIN photos, DOMAIN flags, lastId)
  BY DEF LockInv
<1>2. DOMAIN photos \subseteq 1..lastId /\ ActorsOK
  BY DEF TypeInv, TypeOK, TablesOK
<1>3. Knows(q, DOMAIN photos, lastId)
  BY <1>1, <1>2 DEF Sound, Knows, BareSteps
<1>4. Places(q, call[r]) /\ Keeps(q, DOMAIN photos, DOMAIN flags)
  BY <1>1 DEF Sound, Places, Keeps, BareSteps, LockSteps, RemovedSteps
<1>5. ASSUME NEW o \in Request \ {r} PROVE Apart(q, req[o]) /\ Apart(req[o], q)
  <2>1. /\ Apart(req[o], req[r])
        /\ Sound(req[o], call[o], DOMAIN photos, DOMAIN flags, lastId)
    BY DEF LockInv
  <2> QED
    BY <2>1 DEF Apart, Sound, Knows, BareSteps
<1>6. Sound(q, call[r], DOMAIN photos, DOMAIN flags, lastId)
  BY <1>3, <1>4 DEF Sound
<1> QED
  BY <1>2, <1>5, <1>6, LockMovesAlone

(* The handler answers: its locks go. *)
LEMMA AnswerLocks ==
    ASSUME LockInv, TypeInv, NEW r \in Request, NEW code, NEW payload,
           AnswerWith(r, code, payload), UNCHANGED call, SameRows
    PROVE  LockInv'
<1> DEFINE q == [pc |-> "done", photo |-> req[r].photo, row |-> payload,
                 flags |-> {}, notes |-> {}, heldFlags |-> {},
                 heldPhoto |-> FALSE, reply |-> code]
<1>1. req' = [req EXCEPT ![r] = q]
  BY DEF AnswerWith, TypeInv, TypeOK, ActorsOK
<1>2. /\ q.pc = "done" /\ q.photo = req[r].photo
      /\ q.heldFlags = {} /\ q.heldPhoto = FALSE
  OBVIOUS
<1>3. q.pc \in BareSteps /\ q.pc \in Unbound
  BY <1>2 DEF BareSteps, Step, LockSteps, FreshSteps, RemovedSteps, Unbound
<1> HIDE DEF q
<1> QED
  BY <1>1, <1>2, <1>3, BareMoves

(* What the invariant says of a request at a step without locks. *)
LEMMA HoldsNothing ==
    ASSUME LockInv, TypeInv, NEW r \in Request, req[r].pc \notin LockSteps
    PROVE  req[r].heldFlags = {} /\ req[r].heldPhoto = FALSE
<1>1. Places(req[r], call[r]) /\ req[r] \in ReqState
  BY DEF LockInv, Sound, TypeInv, TypeOK, ActorsOK
<1> QED
  BY <1>1 DEF Places, LockSteps, ReqState

(* Sending a request without locks on to another step that needs none. *)
LEMMA GotoLocks ==
    ASSUME LockInv, TypeInv, NEW r \in Request, NEW step \in BareSteps,
           Goto(r, step), UNCHANGED call, SameRows,
           req[r].pc \notin LockSteps,
           step \in Unbound \/ req[r].pc \notin Unbound
    PROVE  LockInv'
<1> DEFINE q == [req[r] EXCEPT !.pc = step]
<1>1. req[r] \in ReqState /\ req' = [req EXCEPT ![r] = q]
  BY DEF Goto, TypeInv, TypeOK, ActorsOK
<1>2. /\ q.pc = step /\ q.photo = req[r].photo
      /\ q.heldFlags = req[r].heldFlags /\ q.heldPhoto = req[r].heldPhoto
  BY <1>1 DEF ReqState
<1> HIDE DEF q
<1> QED
  BY <1>1, <1>2, HoldsNothing, BareMoves

(* Sending a request on with its locks: what holds of the new step is left *)
(* to show, nothing about the others is.                                   *)
LEMMA LockedMoves ==
    ASSUME LockInv, TypeInv, NEW r \in Request, NEW q,
           req' = [req EXCEPT ![r] = q], UNCHANGED call, SameRows,
           q.photo = req[r].photo, q.heldFlags \subseteq req[r].heldFlags,
           q.heldPhoto => req[r].heldPhoto,
           req[r].pc \notin Unbound,
           q.pc \in FreshSteps => req[r].pc \in FreshSteps,
           Places(q, call[r]), Keeps(q, DOMAIN photos, DOMAIN flags)
    PROVE  LockInv'
<1>1. Sound(req[r], call[r], DOMAIN photos, DOMAIN flags, lastId) /\ ActorsOK
  BY DEF LockInv, TypeInv, TypeOK
<1>2. Sound(q, call[r], DOMAIN photos, DOMAIN flags, lastId)
  BY <1>1 DEF Sound, Knows
<1>3. ASSUME NEW o \in Request \ {r} PROVE Apart(q, req[o]) /\ Apart(req[o], q)
  <2>1. Apart(req[r], req[o]) /\ Apart(req[o], req[r])
    BY DEF LockInv
  <2> QED
    BY <2>1 DEF Apart
<1> QED
  BY <1>1, <1>2, <1>3, LockMovesAlone

---------------------------------------------------------------------------
(* Two requests, one of them at a step that needs a row.                   *)

LEMMA Facts ==
    ASSUME LockInv, TypeInv, NEW r \in Request
    PROVE  /\ req[r] \in ReqState /\ ActorsOK
           /\ Fits(req[r], call[r], lastId)
           /\ Knows(req[r], DOMAIN photos, lastId)
           /\ Places(req[r], call[r])
           /\ Keeps(req[r], DOMAIN photos, DOMAIN flags)
           /\ DOMAIN photos \subseteq 1..lastId /\ lastId \in Nat
  BY ConstantAssumption
     DEF LockInv, Sound, TypeInv, TypeOK, TablesOK, ActorsOK, RequestsFit

(* The removal of a photo with its flags by the request that has locked    *)
(* them takes nothing from anybody else.                                   *)
LEMMA RemovalLocks ==
    ASSUME LockInv, TypeInv, NEW r \in Request, NEW q, NEW p,
           req' = [req EXCEPT ![r] = q], UNCHANGED <<call, lastId>>,
           p = req[r].photo, q.photo = p, q.pc \in BareSteps,
           q.heldFlags = {}, q.heldPhoto = FALSE,
           req[r].pc \in {"cascade"} \cup RemovedSteps,
           photos' = Drop(photos, {p}), flags' = Drop(flags, FlagsOf(p)),
           \A o \in Request \ {r} : FlagsOf(p) \cap req[o].heldFlags = {}
    PROVE  LockInv'
<1>0. /\ req[r] \in ReqState /\ ActorsOK
      /\ Knows(req[r], DOMAIN photos, lastId)
      /\ Places(req[r], call[r])
      /\ Keeps(req[r], DOMAIN photos, DOMAIN flags)
  BY Facts
<1>1. /\ DOMAIN photos' = DOMAIN photos \ {p}
      /\ DOMAIN flags' = {f \in DOMAIN flags : f[1] # p}
  BY DEF Drop, Restrict, FlagsOf
<1>2. Sound(q, call[r], DOMAIN photos', DOMAIN flags', lastId')
  <2>1. Knows(q, DOMAIN photos', lastId')
    BY <1>0 DEF Knows, BareSteps, Unbound, RemovedSteps
  <2>2. Places(q, call[r]) /\ Keeps(q, DOMAIN photos', DOMAIN flags')
    BY <1>0 DEF Places, Keeps, BareSteps, LockSteps, RemovedSteps
  <2> QED
    BY <2>1, <2>2 DEF Sound
<1>3. ASSUME NEW o \in Request \ {r}
      PROVE  /\ Sound(req[o], call[o], DOMAIN photos', DOMAIN flags', lastId')
             /\ Apart(q, req[o]) /\ Apart(req[o], q)
  <2>1. /\ Knows(req[o], DOMAIN photos, lastId) /\ Places(req[o], call[o])
        /\ Keeps(req[o], DOMAIN photos, DOMAIN flags)
        /\ Apart(req[r], req[o]) /\ Apart(req[o], req[r])
    BY Facts DEF LockInv
  <2>2. Knows(req[o], DOMAIN photos', lastId')
    BY <1>1, <2>1 DEF Knows
  <2>3. ~(req[o].heldPhoto /\ req[o].photo = p)
    BY <1>0, <2>1 DEF Keeps, Apart
  <2>4. req[o].heldFlags \subseteq DOMAIN flags'
    BY <1>1, <2>1 DEF Keeps, FlagsOf
  <2>5. Keeps(req[o], DOMAIN photos', DOMAIN flags')
    BY <1>1, <2>1, <2>3, <2>4 DEF Keeps
  <2>6. Apart(q, req[o]) /\ Apart(req[o], q)
    BY <2>1 DEF Apart, BareSteps, RemovedSteps, Unbound
  <2> QED
    BY <2>1, <2>2, <2>5, <2>6 DEF Sound
<1>4. FlagsHavePhotos'
  BY <1>1 DEF FlagsHavePhotos, LockInv
<1> QED
  BY <1>0, <1>2, <1>3, <1>4, LockMoves

---------------------------------------------------------------------------
(* The photo endpoints.                                                    *)

(* The id an upload is given is nobody's. *)
LEMMA FlushLocks ==
    ASSUME LockInv, TypeInv, NEW r \in Request, UploadFlush(r)
    PROVE  LockInv'
<1>0. /\ req[r] \in ReqState /\ ActorsOK
      /\ Fits(req[r], call[r], lastId)
      /\ DOMAIN photos \subseteq 1..lastId /\ lastId \in Nat
  BY Facts
<1> DEFINE q == [req[r] EXCEPT !.pc = "upload_write", !.photo = lastId + 1]
<1>1. req' = [req EXCEPT ![r] = q]
  BY <1>0 DEF UploadFlush, ActorsOK
<1>2. /\ q.pc = "upload_write" /\ q.photo = lastId + 1
      /\ q.heldFlags = req[r].heldFlags /\ q.heldPhoto = req[r].heldPhoto
  BY <1>0 DEF ReqState
<1> HIDE DEF q
<1>3. q.heldFlags = {} /\ q.heldPhoto = FALSE
  BY <1>2, HoldsNothing DEF UploadFlush, LockSteps, RemovedSteps
<1>4. /\ UNCHANGED <<photos, flags, call>>
      /\ lastId' = lastId + 1 /\ call[r].op = "upload"
  BY <1>0 DEF UploadFlush, Fits, CallFits, UploadSteps
<1>5. Sound(q, call[r], DOMAIN photos', DOMAIN flags', lastId')
  <2>1. Knows(q, DOMAIN photos', lastId')
    BY <1>0, <1>2, <1>4 DEF Knows
  <2>2. Places(q, call[r]) /\ Keeps(q, DOMAIN photos', DOMAIN flags')
    BY <1>2, <1>3, <1>4 DEF Places, Keeps, RemovedSteps, Decision
  <2> QED
    BY <2>1, <2>2 DEF Sound
<1>6. ASSUME NEW o \in Request \ {r}
      PROVE  /\ Sound(req[o], call[o], DOMAIN photos', DOMAIN flags', lastId')
             /\ Apart(q, req[o]) /\ Apart(req[o], q)
  <2>1. /\ Knows(req[o], DOMAIN photos, lastId) /\ Places(req[o], call[o])
        /\ Keeps(req[o], DOMAIN photos, DOMAIN flags)
    BY Facts
  <2>2. req[o].pc \notin Unbound => req[o].photo \in 1..lastId
    BY <2>1 DEF Knows
  <2>3. Knows(req[o], DOMAIN photos', lastId')
    BY <1>0, <1>4, <2>1, <2>2 DEF Knows
  <2>4. req[o].pc \notin Unbound => req[o].photo # lastId + 1
    BY <1>0, <2>2
  <2>5. Apart(q, req[o]) /\ Apart(req[o], q)
    BY <1>2, <1>3, <2>4 DEF Apart, FreshSteps, Unbound
  <2> QED
    BY <1>4, <2>1, <2>3, <2>5 DEF Sound
<1>7. FlagsHavePhotos'
  BY <1>4 DEF FlagsHavePhotos, LockInv
<1> QED
  BY <1>0, <1>1, <1>4, <1>5, <1>6, <1>7, LockMoves

(* The row an upload commits is locked by nobody, and no deletion that     *)
(* found no photo to lock finds one now.                                   *)
LEMMA CommitLocks ==
    ASSUME LockInv, TypeInv, NEW r \in Request, UploadCommit(r)
    PROVE  LockInv'
<1>0. /\ req[r] \in ReqState /\ ActorsOK
      /\ Knows(req[r], DOMAIN photos, lastId) /\ Places(req[r], call[r])
      /\ req[r].pc = "upload_commit"
  BY Facts DEF UploadCommit
<1> DEFINE q == [req[r] EXCEPT !.pc = "upload_refresh"]
<1>1. req' = [req EXCEPT ![r] = q]
  BY <1>0 DEF UploadCommit, Goto, ActorsOK
<1>2. /\ q.pc = "upload_refresh" /\ q.photo = req[r].photo
      /\ q.heldFlags = req[r].heldFlags /\ q.heldPhoto = req[r].heldPhoto
  BY <1>0 DEF ReqState
<1> HIDE DEF q
<1>3. q.heldFlags = {} /\ q.heldPhoto = FALSE
  BY <1>0, <1>2, HoldsNothing DEF LockSteps, RemovedSteps
<1>4. /\ UNCHANGED <<flags, call, lastId>>
      /\ DOMAIN photos' = DOMAIN photos \cup {req[r].photo}
  BY DEF UploadCommit, Put
<1>5. Sound(q, call[r], DOMAIN photos', DOMAIN flags', lastId')
  <2>1. Knows(q, DOMAIN photos', lastId')
    BY <1>0, <1>2, <1>4 DEF Knows, FreshSteps, Unbound
  <2>2. Places(q, call[r]) /\ Keeps(q, DOMAIN photos', DOMAIN flags')
    BY <1>0, <1>2, <1>3, <1>4 DEF Places, Keeps, RemovedSteps
  <2> QED
    BY <2>1, <2>2 DEF Sound
<1>6. ASSUME NEW o \in Request \ {r}
      PROVE  /\ Sound(req[o], call[o], DOMAIN photos', DOMAIN flags', lastId')
             /\ Apart(q, req[o]) /\ Apart(req[o], q)
  <2>1. /\ Knows(req[o], DOMAIN photos, lastId) /\ Places(req[o], call[o])
        /\ Keeps(req[o], DOMAIN photos, DOMAIN flags)
        /\ Apart(req[r], req[o]) /\ Apart(req[o], req[r])
    BY Facts DEF LockInv
  <2>2. req[o].pc \notin Unbound => req[o].photo # req[r].photo
    BY <1>0, <2>1 DEF Apart, FreshSteps
  <2>3. Knows(req[o], DOMAIN photos', lastId')
    BY <1>4, <2>1, <2>2 DEF Knows, FreshSteps, Unbound
  <2>4. Keeps(req[o], DOMAIN photos', DOMAIN flags')
    BY <1>4, <2>1, <2>2 DEF Keeps, RemovedSteps, Unbound
  <2>5. Apart(q, req[o]) /\ Apart(req[o], q)
    BY <1>0, <1>2, <1>3, <2>1 DEF Apart, FreshSteps, Unbound
  <2> QED
    BY <1>4, <2>1, <2>3, <2>4, <2>5 DEF Sound
<1>7. FlagsHavePhotos'
  BY <1>4 DEF FlagsHavePhotos, LockInv
<1> QED
  BY <1>0, <1>1, <1>4, <1>5, <1>6, <1>7, LockMoves

LEMMA UploadLocks ==
    ASSUME LockInv, TypeInv, NEW r \in Request,
           \/ UploadReject(r) \/ UploadFlush(r) \/ UploadWrite(r)
           \/ UploadWriteFails(r) \/ UploadCommit(r) \/ UploadRefresh(r)
           \/ UploadEnqueue(r) \/ UploadEnqueueFails(r)
    PROVE  LockInv'
<1> USE DEF SameRows, shared, database
<1>1. CASE UploadReject(r)
  BY <1>1, AnswerLocks DEF UploadReject, Answer
<1>2. CASE UploadFlush(r)
  BY <1>2, FlushLocks
<1>3. CASE UploadWrite(r)
  <2>0. req[r] \in ReqState /\ Places(req[r], call[r]) /\ ActorsOK
    BY Facts
  <2> DEFINE q == [req[r] EXCEPT !.pc = "upload_commit"]
  <2>1. req' = [req EXCEPT ![r] = q] /\ req[r].pc = "upload_write"
    BY <1>3, <2>0 DEF UploadWrite, Goto, ActorsOK
  <2>2. /\ q.pc = "upload_commit" /\ q.photo = req[r].photo
        /\ q.heldFlags = req[r].heldFlags /\ q.heldPhoto = req[r].heldPhoto
    BY <2>0 DEF ReqState
  <2> HIDE DEF q
  <2>3. q.heldFlags = {} /\ q.heldPhoto = FALSE
    BY <2>1, <2>2, HoldsNothing DEF LockSteps, RemovedSteps
  <2>4. Places(q, call[r]) /\ Keeps(q, DOMAIN photos, DOMAIN flags)
    BY <2>0, <2>2, <2>3 DEF Places, Keeps, RemovedSteps
  <2>5. SameRows /\ UNCHANGED call
    BY <1>3 DEF UploadWrite
  <2> HIDE DEF SameRows
  <2> QED
    BY <2>1, <2>2, <2>3, <2>4, <2>5, LockedMoves DEF FreshSteps, Unbound
<1>4. CASE UploadWriteFails(r)
  BY <1>4, AnswerLocks DEF UploadWriteFails, Answer
<1>5. CASE UploadCommit(r)
  BY <1>5, CommitLocks
<1>6. CASE UploadRefresh(r)
  <2>1. CASE Answer(r, 500)
    BY <1>6, <2>1, AnswerLocks DEF UploadRefresh, Answer
  <2>2. CASE Goto(r, "upload_enqueue")
    BY <1>6, <2>2, GotoLocks DEF UploadRefresh, BareSteps, Step, LockSteps,
       RemovedSteps, FreshSteps, Unbound
  <2> QED
    BY <1>6, <2>1, <2>2 DEF UploadRefresh
<1>7. CASE UploadEnqueue(r)
  BY <1>7, AnswerLocks DEF UploadEnqueue, Answer
<1>8. CASE UploadEnqueueFails(r)
  BY <1>8, AnswerLocks DEF UploadEnqueueFails, Answer
<1> QED
  BY <1>1, <1>2, <1>3, <1>4, <1>5, <1>6, <1>7, <1>8

(* _load and the reads. *)
LEMMA ReadLocks ==
    ASSUME LockInv, TypeInv, NEW r \in Request,
           \/ LoadPhoto(r) \/ LoadThumb(r) \/ GetCached(r) \/ GetCacheDown(r)
           \/ GetFill(r) \/ ThumbSend(r) \/ FileSend(r) \/ ThumbFileSend(r)
    PROVE  LockInv'
<1>0. /\ req[r] \in ReqState /\ ActorsOK /\ Fits(req[r], call[r], lastId)
  BY Facts
<1> USE DEF SameRows, shared, database
<1>1. CASE LoadPhoto(r)
  <2>1. CASE Answer(r, 404)
    BY <1>1, <2>1, AnswerLocks DEF LoadPhoto, Answer
  <2>2. CASE ~Answer(r, 404)
    <3> DEFINE v == [photos[req[r].photo] EXCEPT !.status = "none", !.attempts = 0]
               q == [req[r] EXCEPT !.pc = "load_thumb", !.row = v]
    <3>1. /\ req' = [req EXCEPT ![r] = q] /\ req[r].pc = "load_photo"
          /\ req[r].photo \in DOMAIN photos
      BY <1>0, <1>1, <2>2 DEF LoadPhoto, ActorsOK
    <3> HIDE DEF v
    <3>2. /\ q.pc = "load_thumb" /\ q.photo = req[r].photo
          /\ q.heldFlags = req[r].heldFlags /\ q.heldPhoto = req[r].heldPhoto
      BY <1>0 DEF ReqState
    <3> HIDE DEF q
    <3>3. q.heldFlags = {} /\ q.heldPhoto = FALSE
      BY <3>1, <3>2, HoldsNothing DEF LockSteps, RemovedSteps
    <3>4. q.pc \in BareSteps
      BY <3>2 DEF BareSteps, Step, LockSteps, RemovedSteps, FreshSteps
    <3>5. SameRows /\ UNCHANGED call
      BY <1>1 DEF LoadPhoto
    <3> HIDE DEF SameRows
    <3> QED
      BY <3>1, <3>2, <3>3, <3>4, <3>5, BareMoves
  <2> QED
    BY <2>1, <2>2
<1>2. CASE LoadThumb(r)
  <2>1. /\ call[r].op \in PhotoOps
        /\ AfterLoad[call[r].op] \in BareSteps
    BY <1>0, <1>2 DEF LoadThumb, Fits, CallFits, LoadSteps, PhotoOps, AfterLoad,
       BareSteps, Step, LockSteps, RemovedSteps, FreshSteps
  <2> DEFINE step == AfterLoad[call[r].op]
             v == [req[r].row EXCEPT !.status = photos[req[r].photo].status,
                                     !.attempts = photos[req[r].photo].attempts]
             q == [req[r] EXCEPT !.pc = step, !.row = v]
  <2>2. \/ req' = [req EXCEPT ![r] = q]
        \/ Goto(r, step)
    BY <1>0, <1>2 DEF LoadThumb, ActorsOK
  <2>3. req[r].pc = "load_thumb" /\ SameRows /\ UNCHANGED call
    BY <1>2 DEF LoadThumb
  <2>4. step \in BareSteps
    BY <2>1
  <2> HIDE DEF v, step, SameRows
  <2>5. CASE req' = [req EXCEPT ![r] = q]
    <3>1. /\ q.pc = step /\ q.photo = req[r].photo
          /\ q.heldFlags = req[r].heldFlags /\ q.heldPhoto = req[r].heldPhoto
      BY <1>0 DEF ReqState
    <3> HIDE DEF q
    <3>2. q.heldFlags = {} /\ q.heldPhoto = FALSE
      BY <2>3, <3>1, HoldsNothing DEF LockSteps, RemovedSteps
    <3> QED
      BY <2>3, <2>4, <2>5, <3>1, <3>2, BareMoves DEF Unbound
  <2>6. CASE Goto(r, step)
    BY <2>3, <2>4, <2>6, GotoLocks DEF LockSteps, RemovedSteps, Unbound
  <2> QED
    BY <2>2, <2>5, <2>6
<1>3. CASE GetCached(r) \/ GetCacheDown(r)
  <2>1. CASE Goto(r, "load_photo")
    BY <1>3, <2>1, GotoLocks DEF GetCached, GetCacheDown, BareSteps, Step,
       LockSteps, RemovedSteps, FreshSteps, Unbound
  <2>2. CASE ~Goto(r, "load_photo")
    BY <1>3, <2>2, AnswerLocks DEF GetCached, GetCacheDown, Answer
  <2> QED
    BY <2>1, <2>2
<1>4. CASE GetFill(r)
  BY <1>4, AnswerLocks DEF GetFill
<1>5. CASE ThumbSend(r) \/ FileSend(r) \/ ThumbFileSend(r)
  BY <1>5, AnswerLocks DEF ThumbSend, FileSend, ThumbFileSend, Answer
<1> QED
  BY <1>1, <1>2, <1>3, <1>4, <1>5

(* PATCH changes no row's presence. *)
LEMMA PatchLocks ==
    ASSUME LockInv, TypeInv, NEW r \in Request,
           PatchCommit(r) \/ PatchRefresh(r) \/ PatchInvalidate(r)
    PROVE  LockInv'
<1>1. SameRows /\ UNCHANGED call
  BY DEF PatchCommit, PatchRefresh, PatchInvalidate, SameRows, shared, database
<1>2. /\ "patch_refresh" \in BareSteps /\ "patch_invalidate" \in BareSteps
      /\ req[r].pc \notin LockSteps /\ req[r].pc \notin Unbound
  BY DEF PatchCommit, PatchRefresh, PatchInvalidate, BareSteps, Step, LockSteps,
     RemovedSteps, FreshSteps, Unbound
<1>3. \/ Goto(r, "patch_refresh") \/ Goto(r, "patch_invalidate")
      \/ \E code \in {200, 500} : Answer(r, code)
  BY DEF PatchCommit, PatchRefresh, PatchInvalidate
<1> QED
  BY <1>1, <1>2, <1>3, GotoLocks, AnswerLocks DEF Answer

(* The statements of a deletion. *)
LEMMA DeletionLocks ==
    ASSUME LockInv, TypeInv, NEW r \in Request,
           DeleteFlags(r) \/ LockFlags(r) \/ LockPhoto(r)
    PROVE  LockInv'
<1>0. /\ req[r] \in ReqState /\ ActorsOK
      /\ Knows(req[r], DOMAIN photos, lastId) /\ Places(req[r], call[r])
      /\ Keeps(req[r], DOMAIN photos, DOMAIN flags)
  BY Facts
<1>00. SameRows /\ UNCHANGED call
  BY DEF DeleteFlags, LockFlags, LockPhoto, SameRows, shared, database
<1>1. CASE DeleteFlags(r)
  <2> DEFINE F == FlagsOf(req[r].photo)
             q == [req[r] EXCEPT !.pc = "lock_flags", !.flags = F]
  <2>1. req' = [req EXCEPT ![r] = q] /\ req[r].pc = "delete_flags"
    BY <1>0, <1>1 DEF DeleteFlags, ActorsOK
  <2>2. \A f \in F : f[1] = req[r].photo
    BY DEF FlagsOf
  <2> HIDE DEF F
  <2>3. /\ q.pc = "lock_flags" /\ q.photo = req[r].photo /\ q.flags = F
        /\ q.heldFlags = req[r].heldFlags /\ q.heldPhoto = req[r].heldPhoto
    BY <1>0 DEF ReqState
  <2> HIDE DEF q
  <2>4. q.heldFlags = {} /\ q.heldPhoto = FALSE
    BY <2>1, <2>3, HoldsNothing DEF LockSteps, RemovedSteps
  <2>5. Places(q, call[r]) /\ Keeps(q, DOMAIN photos, DOMAIN flags)
    BY <1>0, <2>2, <2>3, <2>4 DEF Places, Keeps, RemovedSteps
  <2> QED
    BY <1>00, <2>1, <2>3, <2>4, <2>5, LockedMoves DEF FreshSteps, Unbound
<1>2. CASE LockFlags(r)
  <2> DEFINE F == req[r].heldFlags \cup (req[r].flags \cap DOMAIN flags)
             q == [req[r] EXCEPT !.pc = "lock_photo", !.heldFlags = F]
  <2>1. req' = [req EXCEPT ![r] = q] /\ req[r].pc = "lock_flags"
    BY <1>0, <1>2 DEF LockFlags, ActorsOK
  <2>2. /\ q.pc = "lock_photo" /\ q.photo = req[r].photo
        /\ q.heldFlags = F /\ q.heldPhoto = req[r].heldPhoto
    BY <1>0 DEF ReqState
  <2> HIDE DEF q
  <2>3. \A o \in Request \ {r} : req[r].flags \cap req[o].heldFlags = {}
    BY <1>2 DEF LockFlags, Unblocked, WaitsFor, NeededFlags
  <2>4. Sound(q, call[r], DOMAIN photos, DOMAIN flags, lastId)
    <3>1. req[r].heldPhoto = FALSE
      BY <1>0, <2>1 DEF Places, RemovedSteps, ReqState
    <3>2. Knows(q, DOMAIN photos, lastId)
      BY <1>0, <2>1, <2>2 DEF Knows, Unbound, FreshSteps
    <3>3. Places(q, call[r]) /\ Keeps(q, DOMAIN photos, DOMAIN flags)
      BY <1>0, <2>1, <2>2, <3>1 DEF Places, Keeps, LockSteps, RemovedSteps
    <3> QED
      BY <3>2, <3>3 DEF Sound
  <2>5. ASSUME NEW o \in Request \ {r} PROVE Apart(q, req[o]) /\ Apart(req[o], q)
    <3>1. Apart(req[r], req[o]) /\ Apart(req[o], req[r])
      BY DEF LockInv
    <3> QED
      BY <2>1, <2>2, <2>3, <3>1 DEF Apart, FreshSteps, Unbound
  <2> QED
    BY <1>0, <1>00, <2>1, <2>4, <2>5, LockMovesAlone
<1>3. CASE LockPhoto(r)
  <2> DEFINE h == req[r].photo \in DOMAIN photos
             q == [req[r] EXCEPT !.pc = "cascade", !.heldPhoto = h]
  <2>1. req' = [req EXCEPT ![r] = q] /\ req[r].pc = "lock_photo"
    BY <1>0, <1>3 DEF LockPhoto, ActorsOK
  <2>2. /\ q.pc = "cascade" /\ q.photo = req[r].photo
        /\ q.heldFlags = req[r].heldFlags /\ q.heldPhoto = h
    BY <1>0 DEF ReqState
  <2> HIDE DEF q
  <2>3. \A o \in Request \ {r} : ~(req[o].heldPhoto /\ req[o].photo = req[r].photo)
    BY <1>3 DEF LockPhoto, Unblocked, WaitsFor, NeedsPhoto
  <2>4. Sound(q, call[r], DOMAIN photos, DOMAIN flags, lastId)
    <3>1. Knows(q, DOMAIN photos, lastId)
      BY <1>0, <2>1, <2>2 DEF Knows, Unbound, FreshSteps
    <3>2. Places(q, call[r]) /\ Keeps(q, DOMAIN photos, DOMAIN flags)
      BY <1>0, <2>1, <2>2 DEF Places, Keeps, LockSteps, RemovedSteps
    <3> QED
      BY <3>1, <3>2 DEF Sound
  <2>5. ASSUME NEW o \in Request \ {r} PROVE Apart(q, req[o]) /\ Apart(req[o], q)
    <3>1. Apart(req[r], req[o]) /\ Apart(req[o], req[r])
      BY DEF LockInv
    <3> QED
      BY <2>1, <2>2, <2>3, <3>1 DEF Apart, FreshSteps, Unbound
  <2> QED
    BY <1>0, <1>00, <2>1, <2>4, <2>5, LockMovesAlone
<1> QED
  BY <1>1, <1>2, <1>3

(* The end of DELETE /photos/{id}. *)
LEMMA DeleteLocks ==
    ASSUME LockInv, TypeInv, NEW r \in Request,
           DeleteCommit(r) \/ DeleteFiles(r) \/ DeleteInvalidate(r)
    PROVE  LockInv'
<1>0. req[r] \in ReqState /\ ActorsOK
  BY Facts
<1>1. CASE DeleteCommit(r)
  <2> DEFINE q == [req[r] EXCEPT !.pc = "delete_files", !.heldFlags = {},
                                 !.heldPhoto = FALSE]
  <2>1. req' = [req EXCEPT ![r] = q] /\ req[r].pc = "cascade"
    BY <1>0, <1>1 DEF DeleteCommit, ActorsOK
  <2>2. /\ q.pc = "delete_files" /\ q.photo = req[r].photo
        /\ q.heldFlags = {} /\ q.heldPhoto = FALSE
    BY <1>0 DEF ReqState
  <2> HIDE DEF q
  <2>3. \A o \in Request \ {r} : FlagsOf(req[r].photo) \cap req[o].heldFlags = {}
    BY <1>1 DEF DeleteCommit, Unblocked, WaitsFor, NeededFlags
  <2>4. q.pc \in BareSteps
    BY <2>2 DEF BareSteps, Step, LockSteps, RemovedSteps, FreshSteps
  <2>5. /\ UNCHANGED <<call, lastId>>
        /\ photos' = Drop(photos, {req[r].photo})
        /\ flags' = Drop(flags, FlagsOf(req[r].photo))
    BY <1>1 DEF DeleteCommit
  <2> QED
    BY <2>1, <2>2, <2>3, <2>4, <2>5, RemovalLocks
<1>2. CASE DeleteFiles(r)
  <2>1. SameRows /\ UNCHANGED call
    BY <1>2 DEF DeleteFiles, SameRows, database
  <2> QED
    BY <1>2, <2>1, GotoLocks DEF DeleteFiles, BareSteps, Step, LockSteps,
       RemovedSteps, FreshSteps, Unbound
<1>3. CASE DeleteInvalidate(r)
  <2>1. SameRows /\ UNCHANGED call
    BY <1>3 DEF DeleteInvalidate, SameRows, database
  <2> QED
    BY <1>3, <2>1, AnswerLocks DEF DeleteInvalidate, Answer
<1> QED
  BY <1>1, <1>2, <1>3

LEMMA PhotoStepLocks ==
    ASSUME LockInv, TypeInv, NEW r \in Request, PhotoStep(r)
    PROVE  LockInv'
  BY UploadLocks, ReadLocks, PatchLocks, DeletionLocks, DeleteLocks DEF PhotoStep

---------------------------------------------------------------------------
(* Moderation.                                                             *)

(* A flag is filed on a photo no deletion holds, so behind nobody's back.  *)
LEMMA FlagLocks ==
    ASSUME LockInv, TypeInv, NEW r \in Request, FlagCommit(r) \/ FlagRefresh(r)
    PROVE  LockInv'
<1>0. /\ req[r] \in ReqState /\ ActorsOK
      /\ Knows(req[r], DOMAIN photos, lastId) /\ Places(req[r], call[r])
  BY Facts
<1>1. CASE FlagCommit(r) /\ Goto(r, "flag_refresh")
  <2> DEFINE p == req[r].photo
             f == <<p, call[r].user>>
             q == [req[r] EXCEPT !.pc = "flag_refresh"]
  <2>1. req' = [req EXCEPT ![r] = q] /\ req[r].pc = "flag_commit"
    BY <1>0, <1>1 DEF FlagCommit, Goto, ActorsOK
  <2>2. /\ q.pc = "flag_refresh" /\ q.photo = p
        /\ q.heldFlags = req[r].heldFlags /\ q.heldPhoto = req[r].heldPhoto
    BY <1>0 DEF ReqState
  <2>3. p \in DOMAIN photos /\ DOMAIN flags' = DOMAIN flags \cup {f}
    <3>1. ~Answer(r, 409)
      BY <2>1, <2>2, <1>0 DEF Answer, AnswerWith, ActorsOK
    <3> QED
      BY <1>1, <3>1 DEF FlagCommit, Put
  <2> HIDE DEF q
  <2>4. q.heldFlags = {} /\ q.heldPhoto = FALSE
    BY <2>1, <2>2, HoldsNothing DEF LockSteps, RemovedSteps
  <2>5. \A o \in Request \ {r} : ~(req[o].heldPhoto /\ req[o].photo = p)
    BY <1>1 DEF FlagCommit, Unblocked, WaitsFor, NeedsPhoto
  <2>6. UNCHANGED <<photos, call, lastId>>
    BY <1>1 DEF FlagCommit
  <2>7. Sound(q, call[r], DOMAIN photos', DOMAIN flags', lastId')
    <3>1. Knows(q, DOMAIN photos', lastId')
      BY <1>0, <2>1, <2>2, <2>6 DEF Knows, Unbound, FreshSteps
    <3>2. Places(q, call[r]) /\ Keeps(q, DOMAIN photos', DOMAIN flags')
      BY <1>0, <2>2, <2>4 DEF Places, Keeps, RemovedSteps
    <3> QED
      BY <3>1, <3>2 DEF Sound
  <2>8. ASSUME NEW o \in Request \ {r}
        PROVE  /\ Sound(req[o], call[o], DOMAIN photos', DOMAIN flags', lastId')
               /\ Apart(q, req[o]) /\ Apart(req[o], q)
    <3>1. /\ Knows(req[o], DOMAIN photos, lastId) /\ Places(req[o], call[o])
          /\ Keeps(req[o], DOMAIN photos, DOMAIN flags)
          /\ Apart(req[r], req[o]) /\ Apart(req[o], req[r])
      BY Facts DEF LockInv
    <3>2. req[o].pc \in RemovedSteps => req[o].photo # p
      BY <2>3, <2>5, <3>1 DEF Keeps
    <3>3. f[1] = p
      OBVIOUS
    <3> HIDE DEF f, p
    <3>4. Keeps(req[o], DOMAIN photos', DOMAIN flags')
      <4>1. req[o].pc \in RemovedSteps =>
              {g \in DOMAIN flags' : g[1] = req[o].photo} \subseteq req[o].heldFlags
        BY <2>3, <3>1, <3>2, <3>3 DEF Keeps
      <4> QED
        BY <2>3, <2>6, <3>1, <4>1 DEF Keeps
    <3>5. Apart(q, req[o]) /\ Apart(req[o], q)
      BY <2>1, <2>2, <2>4, <3>1 DEF Apart, FreshSteps, Unbound, p
    <3> QED
      BY <2>6, <3>1, <3>4, <3>5 DEF Sound
  <2>9. FlagsHavePhotos'
    BY <2>3, <2>6 DEF FlagsHavePhotos, LockInv
  <2> QED
    BY <1>0, <2>1, <2>6, <2>7, <2>8, <2>9, LockMoves
<1>2. CASE FlagCommit(r) /\ ~Goto(r, "flag_refresh")
  <2>1. SameRows /\ UNCHANGED call /\ Answer(r, 409)
    BY <1>2 DEF FlagCommit, SameRows
  <2> QED
    BY <2>1, AnswerLocks DEF Answer
<1>3. CASE FlagRefresh(r)
  <2>1. SameRows /\ UNCHANGED call
    BY <1>3 DEF FlagRefresh, SameRows, shared, database
  <2> QED
    BY <1>3, <2>1, AnswerLocks DEF FlagRefresh, Answer
<1> QED
  BY <1>1, <1>2, <1>3

(* Loading a flag makes its photo known; a dismissal moves no row. *)
LEMMA DismissLocks ==
    ASSUME LockInv, TypeInv, NEW r \in Request, DecideLoad(r) \/ DismissCommit(r)
    PROVE  LockInv'
<1>0. /\ req[r] \in ReqState /\ ActorsOK /\ Fits(req[r], call[r], lastId)
      /\ Places(req[r], call[r])
  BY Facts
<1>00. SameRows /\ UNCHANGED call
  BY DEF DecideLoad, DismissCommit, SameRows, shared, database
<1>1. CASE DecideLoad(r)
  <2>1. CASE Answer(r, 404) \/ Answer(r, 409)
    BY <1>00, <2>1, AnswerLocks DEF Answer
  <2>2. CASE ~(Answer(r, 404) \/ Answer(r, 409))
    <3>1. PICK step \in {"dismiss_commit", "action_siblings"} : Goto(r, step)
      BY <1>1, <2>2 DEF DecideLoad
    <3>2. call[r].flag \in DOMAIN flags /\ req[r].pc = "decide"
      BY <1>1, <2>2 DEF DecideLoad
    <3>3. req[r].photo \in DOMAIN photos
      <4>1. call[r].op \in Decision
        BY <1>0, <3>2 DEF Fits, CallFits, DecideSteps
      <4> QED
        BY <1>0, <3>2, <4>1 DEF Places, LockInv, FlagsHavePhotos
    <3> DEFINE q == [req[r] EXCEPT !.pc = step]
    <3>4. req' = [req EXCEPT ![r] = q]
      BY <1>0, <3>1 DEF Goto, ActorsOK
    <3>5. /\ q.pc = step /\ q.photo = req[r].photo
          /\ q.heldFlags = req[r].heldFlags /\ q.heldPhoto = req[r].heldPhoto
      BY <1>0 DEF ReqState
    <3> HIDE DEF q
    <3>6. q.heldFlags = {} /\ q.heldPhoto = FALSE
      BY <3>2, <3>5, HoldsNothing DEF LockSteps, RemovedSteps
    <3>7. q.pc \in BareSteps
      BY <3>5 DEF BareSteps, Step, LockSteps, RemovedSteps, FreshSteps
    <3> QED
      BY <1>00, <3>3, <3>4, <3>5, <3>6, <3>7, BareMoves
  <2> QED
    BY <2>1, <2>2
<1>2. CASE DismissCommit(r)
  <2>1. CASE call[r].flag \notin DOMAIN flags
    BY <1>00, <1>2, <2>1, AnswerLocks DEF DismissCommit, Answer
  <2>2. CASE call[r].flag \in DOMAIN flags
    <3> DEFINE N == {call[r].flag}
               q == [req[r] EXCEPT !.pc = "decide_refresh", !.notes = N]
    <3>1. req' = [req EXCEPT ![r] = q] /\ req[r].pc = "dismiss_commit"
      BY <1>0, <1>2, <2>2 DEF DismissCommit, ActorsOK
    <3> HIDE DEF N
    <3>2. /\ q.pc = "decide_refresh" /\ q.photo = req[r].photo
          /\ q.heldFlags = req[r].heldFlags /\ q.heldPhoto = req[r].heldPhoto
      BY <1>0 DEF ReqState
    <3> HIDE DEF q
    <3>3. q.heldFlags = {} /\ q.heldPhoto = FALSE
      BY <3>1, <3>2, HoldsNothing DEF LockSteps, RemovedSteps
    <3>4. q.pc \in BareSteps /\ req[r].pc \notin Unbound
      BY <3>1, <3>2 DEF BareSteps, Step, LockSteps, RemovedSteps, FreshSteps, Unbound
    <3> QED
      BY <1>00, <3>1, <3>2, <3>3, <3>4, BareMoves
  <2> QED
    BY <2>1, <2>2
<1> QED
  BY <1>1, <1>2

(* The statements of an action decision up to its commit. *)
LEMMA ActionLocks ==
    ASSUME LockInv, TypeInv, NEW r \in Request,
           \/ ActionSiblings(r) \/ ActionResolve(r) \/ ActionPhoto(r)
           \/ ActionCascade(r) \/ ActionFiles(r) \/ ActionInvalidate(r)
    PROVE  LockInv'
<1>0. /\ req[r] \in ReqState /\ ActorsOK
      /\ Knows(req[r], DOMAIN photos, lastId) /\ Places(req[r], call[r])
      /\ Keeps(req[r], DOMAIN photos, DOMAIN flags)
  BY Facts
<1>00. SameRows /\ UNCHANGED call
  BY DEF ActionSiblings, ActionResolve, ActionPhoto, ActionCascade, ActionFiles,
     ActionInvalidate, SameRows, shared, database
<1>1. CASE ActionSiblings(r)
  <2> DEFINE F == {f \in FlagsOf(req[r].photo) : flags[f] = "pending"}
             q == [req[r] EXCEPT !.pc = "action_resolve", !.flags = F]
  <2>1. req' = [req EXCEPT ![r] = q] /\ req[r].pc = "action_siblings"
    BY <1>0, <1>1 DEF ActionSiblings, ActorsOK
  <2>2. \A f \in F : f[1] = req[r].photo
    BY DEF FlagsOf
  <2> HIDE DEF F
  <2>3. /\ q.pc = "action_resolve" /\ q.photo = req[r].photo /\ q.flags = F
        /\ q.heldFlags = req[r].heldFlags /\ q.heldPhoto = req[r].heldPhoto
    BY <1>0 DEF ReqState
  <2> HIDE DEF q
  <2>4. q.heldFlags = {} /\ q.heldPhoto = FALSE
    BY <2>1, <2>3, HoldsNothing DEF LockSteps, RemovedSteps
  <2>5. Places(q, call[r]) /\ Keeps(q, DOMAIN photos, DOMAIN flags)
    BY <1>0, <2>2, <2>3, <2>4 DEF Places, Keeps, RemovedSteps
  <2> QED
    BY <1>00, <2>1, <2>3, <2>4, <2>5, LockedMoves DEF FreshSteps, Unbound
<1>2. CASE ActionResolve(r)
  <2>1. CASE ~(req[r].flags \subseteq DOMAIN flags)
    BY <1>00, <1>2, <2>1, AnswerLocks DEF ActionResolve, Answer
  <2>2. CASE req[r].flags \subseteq DOMAIN flags
    <3> DEFINE F == req[r].flags
               q == [req[r] EXCEPT !.pc = "action_photo", !.notes = F,
                                   !.heldFlags = F]
    <3>1. req' = [req EXCEPT ![r] = q] /\ req[r].pc = "action_resolve"
      BY <1>0, <1>2, <2>2 DEF ActionResolve, ActorsOK
    <3>2. /\ q.pc = "action_photo" /\ q.photo = req[r].photo /\ q.notes = F
          /\ q.heldFlags = F /\ q.heldPhoto = req[r].heldPhoto
      BY <1>0 DEF ReqState
    <3> HIDE DEF q
    <3>3. q.heldPhoto = FALSE
      BY <3>1, <3>2, HoldsNothing DEF LockSteps, RemovedSteps
    <3>4. \A o \in Request \ {r} : F \cap req[o].heldFlags = {}
      BY <1>2 DEF ActionResolve, Unblocked, WaitsFor, NeededFlags
    <3>5. Sound(q, call[r], DOMAIN photos, DOMAIN flags, lastId)
      <4>1. Knows(q, DOMAIN photos, lastId)
        BY <1>0, <3>1, <3>2 DEF Knows, Unbound, FreshSteps
      <4>2. Places(q, call[r]) /\ Keeps(q, DOMAIN photos, DOMAIN flags)
        BY <1>0, <2>2, <3>1, <3>2, <3>3 DEF Places, Keeps, LockSteps, RemovedSteps
      <4> QED
        BY <4>1, <4>2 DEF Sound
    <3>6. ASSUME NEW o \in Request \ {r} PROVE Apart(q, req[o]) /\ Apart(req[o], q)
      <4>1. Apart(req[r], req[o]) /\ Apart(req[o], req[r])
        BY DEF LockInv
      <4> QED
        BY <3>1, <3>2, <3>3, <3>4, <4>1 DEF Apart, FreshSteps, Unbound
    <3> QED
      BY <1>0, <1>00, <3>1, <3>5, <3>6, LockMovesAlone
  <2> QED
    BY <2>1, <2>2
<1>3. CASE ActionPhoto(r)
  <2>1. CASE req[r].photo \notin DOMAIN photos
    BY <1>00, <1>3, <2>1, AnswerLocks DEF ActionPhoto, Answer
  <2>2. CASE req[r].photo \in DOMAIN photos
    <3> DEFINE F == FlagsOf(req[r].photo)
               q == [req[r] EXCEPT !.pc = "lock_flags", !.flags = F]
    <3>1. req' = [req EXCEPT ![r] = q] /\ req[r].pc = "action_photo"
      BY <1>0, <1>3, <2>2 DEF ActionPhoto, ActorsOK
    <3>2. \A f \in F : f[1] = req[r].photo
      BY DEF FlagsOf
    <3> HIDE DEF F
    <3>3. /\ q.pc = "lock_flags" /\ q.photo = req[r].photo /\ q.flags = F
          /\ q.heldFlags = req[r].heldFlags /\ q.heldPhoto = req[r].heldPhoto
      BY <1>0 DEF ReqState
    <3> HIDE DEF q
    <3>4. Places(q, call[r]) /\ Keeps(q, DOMAIN photos, DOMAIN flags)
      BY <1>0, <3>1, <3>2, <3>3 DEF Places, Keeps, LockSteps, RemovedSteps
    <3> QED
      BY <1>00, <3>1, <3>3, <3>4, LockedMoves DEF FreshSteps, Unbound
  <2> QED
    BY <2>1, <2>2
<1>4. CASE ActionCascade(r)
  <2> DEFINE F == req[r].heldFlags \cup FlagsOf(req[r].photo)
             q == [req[r] EXCEPT !.pc = "action_files", !.heldFlags = F]
  <2>1. req' = [req EXCEPT ![r] = q] /\ req[r].pc = "cascade"
    BY <1>0, <1>4 DEF ActionCascade, ActorsOK
  <2>2. /\ q.pc = "action_files" /\ q.photo = req[r].photo
        /\ q.heldFlags = F /\ q.heldPhoto = req[r].heldPhoto
    BY <1>0 DEF ReqState
  <2> HIDE DEF q
  <2>3. \A o \in Request \ {r} : FlagsOf(req[r].photo) \cap req[o].heldFlags = {}
    BY <1>4 DEF ActionCascade, Unblocked, WaitsFor, NeededFlags
  <2>4. Sound(q, call[r], DOMAIN photos, DOMAIN flags, lastId)
    <3>1. Knows(q, DOMAIN photos, lastId)
      BY <1>0, <2>1, <2>2 DEF Knows, Unbound, FreshSteps
    <3>2. Places(q, call[r]) /\ Keeps(q, DOMAIN photos, DOMAIN flags)
      BY <1>0, <2>1, <2>2 DEF Places, Keeps, LockSteps, RemovedSteps, FlagsOf
    <3> QED
      BY <3>1, <3>2 DEF Sound
  <2>5. ASSUME NEW o \in Request \ {r} PROVE Apart(q, req[o]) /\ Apart(req[o], q)
    <3>1. Apart(req[r], req[o]) /\ Apart(req[o], req[r])
      BY DEF LockInv
    <3> QED
      BY <2>1, <2>2, <2>3, <3>1 DEF Apart, FreshSteps, Unbound
  <2> QED
    BY <1>0, <1>00, <2>1, <2>4, <2>5, LockMovesAlone
<1>5. CASE ActionFiles(r) \/ ActionInvalidate(r)
  <2>1. PICK step \in {"action_invalidate", "action_commit"} :
           Goto(r, step) /\ req[r].pc \in RemovedSteps
    BY <1>5 DEF ActionFiles, ActionInvalidate, RemovedSteps
  <2> DEFINE q == [req[r] EXCEPT !.pc = step]
  <2>2. req' = [req EXCEPT ![r] = q]
    BY <1>0, <2>1 DEF Goto, ActorsOK
  <2>3. /\ q.pc = step /\ q.photo = req[r].photo
        /\ q.heldFlags = req[r].heldFlags /\ q.heldPhoto = req[r].heldPhoto
    BY <1>0 DEF ReqState
  <2> HIDE DEF q
  <2>4. Places(q, call[r]) /\ Keeps(q, DOMAIN photos, DOMAIN flags)
    BY <1>0, <2>1, <2>3 DEF Places, Keeps, LockSteps, RemovedSteps
  <2> QED
    BY <1>00, <2>1, <2>2, <2>3, <2>4, LockedMoves
       DEF FreshSteps, Unbound, RemovedSteps
<1> QED
  BY <1>1, <1>2, <1>3, <1>4, <1>5

(* The commit of an action removes only what the action has locked. *)
LEMMA ActionCommitLocks ==
    ASSUME LockInv, TypeInv, NEW r \in Request, ActionCommit(r)
    PROVE  LockInv'
<1>0. /\ req[r] \in ReqState /\ ActorsOK
      /\ Keeps(req[r], DOMAIN photos, DOMAIN flags)
  BY Facts
<1> DEFINE q == [req[r] EXCEPT !.pc = "decide_refresh", !.heldFlags = {},
                               !.heldPhoto = FALSE]
<1>1. req' = [req EXCEPT ![r] = q] /\ req[r].pc = "action_commit"
  BY <1>0 DEF ActionCommit, ActorsOK
<1>2. /\ q.pc = "decide_refresh" /\ q.photo = req[r].photo
      /\ q.heldFlags = {} /\ q.heldPhoto = FALSE
  BY <1>0 DEF ReqState
<1> HIDE DEF q
<1>3. FlagsOf(req[r].photo) \subseteq req[r].heldFlags
  BY <1>0, <1>1 DEF Keeps, RemovedSteps, FlagsOf
<1>4. \A o \in Request \ {r} : FlagsOf(req[r].photo) \cap req[o].heldFlags = {}
  BY <1>3 DEF LockInv, Apart
<1>5. q.pc \in BareSteps /\ req[r].pc \in {"cascade"} \cup RemovedSteps
  BY <1>1, <1>2 DEF BareSteps, Step, LockSteps, RemovedSteps, FreshSteps
<1>6. /\ UNCHANGED <<call, lastId>>
      /\ photos' = Drop(photos, {req[r].photo})
      /\ flags' = Drop(flags, FlagsOf(req[r].photo))
  BY DEF ActionCommit
<1> QED
  BY <1>1, <1>2, <1>4, <1>5, <1>6, RemovalLocks

(* After the commit a decision holds nothing. *)
LEMMA DispatchLocks ==
    ASSUME LockInv, TypeInv, NEW r \in Request,
           DecideRefresh(r) \/ Dispatch(r) \/ DispatchFails(r) \/ Decided(r)
    PROVE  LockInv'
<1>0. req[r] \in ReqState /\ ActorsOK
  BY Facts
<1>1. SameRows /\ UNCHANGED call
  BY DEF DecideRefresh, Dispatch, DispatchFails, Decided, SameRows, shared, database
<1>2. /\ "dispatch" \in BareSteps
      /\ req[r].pc \in BareSteps /\ req[r].pc \notin LockSteps
      /\ req[r].pc \notin Unbound
  BY DEF DecideRefresh, Dispatch, DispatchFails, Decided, BareSteps, Step, LockSteps,
     RemovedSteps, FreshSteps, Unbound
<1>3. CASE Dispatch(r)
  <2>1. PICK f \in req[r].notes :
           req' = [req EXCEPT ![r].notes = @ \ {f}]
    BY <1>3 DEF Dispatch
  <2> DEFINE N == req[r].notes \ {f}
             q == [req[r] EXCEPT !.notes = N]
  <2>2. req' = [req EXCEPT ![r] = q]
    BY <1>0, <2>1 DEF ActorsOK
  <2> HIDE DEF N
  <2>3. /\ q.pc = req[r].pc /\ q.photo = req[r].photo
        /\ q.heldFlags = req[r].heldFlags /\ q.heldPhoto = req[r].heldPhoto
    BY <1>0 DEF ReqState
  <2> HIDE DEF q
  <2> QED
    BY <1>1, <1>2, <2>2, <2>3, HoldsNothing, BareMoves
<1>4. CASE ~Dispatch(r)
  <2>1. \/ Goto(r, "dispatch")
        \/ \E code \in {200, 500} : Answer(r, code)
    BY <1>4 DEF DecideRefresh, DispatchFails, Decided
  <2> QED
    BY <1>1, <1>2, <2>1, GotoLocks, AnswerLocks DEF Answer
<1> QED
  BY <1>3, <1>4

LEMMA ModerationStepLocks ==
    ASSUME LockInv, TypeInv, NEW r \in Request, ModerationStep(r)
    PROVE  LockInv'
  BY FlagLocks, DismissLocks, ActionLocks, ActionCommitLocks, DispatchLocks
     DEF ModerationStep

---------------------------------------------------------------------------
(* The workers and the faults.                                             *)

(* A worker locks nothing beyond its step and removes no row. *)
LEMMA WorkerLocks ==
    ASSUME LockInv, TypeInv, NEW w \in Worker,
           \/ WorkerTurn(w) \/ WorkerCrash(w) \/ Redeliver(w) \/ WorkerDbError(w)
    PROVE  LockInv'
<1> USE DEF SameRows, shared, database
<1>1. CASE ThumbProcessing(w) \/ ThumbReady(w) \/ ThumbFailed(w) \/ ThumbPending(w)
  <2>1. SameRows /\ UNCHANGED <<call, req>>
    BY <1>1 DEF ThumbProcessing, ThumbReady, ThumbFailed, ThumbPending, UpdateStatus,
       UpdateThumb
  <2> QED
    BY <2>1, LockKept
<1>2. CASE \/ TakeThumb(w) \/ ThumbOpen(w) \/ ThumbSave(w) \/ ThumbSaveFails(w)
           \/ ThumbInvalidate(w) \/ ThumbPendingInvalidate(w) \/ Retry(w) \/ Ack(w)
  <2>1. SameRows /\ UNCHANGED <<call, req>>
    BY <1>2 DEF TakeThumb, ThumbOpen, ThumbSave, ThumbSaveFails, ThumbInvalidate,
       ThumbPendingInvalidate, Retry, Ack
  <2> QED
    BY <2>1, LockKept
<1>3. CASE \/ TakeNote(w) \/ NoteSend(w) \/ NoteSendFails(w) \/ NoteMailDirFails(w)
           \/ NoteSent(w) \/ NoteFailed(w)
  <2>1. SameRows /\ UNCHANGED <<call, req>>
    BY <1>3 DEF TakeNote, NoteSend, NoteSendFails, NoteMailDirFails, NoteSent,
       NoteFailed, UpdateNote
  <2> QED
    BY <2>1, LockKept
<1>4. CASE WorkerCrash(w) \/ Redeliver(w) \/ WorkerDbError(w)
  <2>1. SameRows /\ UNCHANGED <<call, req>>
    BY <1>4 DEF WorkerCrash, Redeliver, WorkerDbError
  <2> QED
    BY <2>1, LockKept
<1> QED
  BY <1>1, <1>2, <1>3, <1>4 DEF WorkerTurn

(* A request that dies or fails lets go of its locks. *)
LEMMA FailureLocks ==
    ASSUME LockInv, TypeInv, NEW r \in Request,
           ApiCrash(r) \/ ApiDbError(r) \/ DeadlockAbort(r)
    PROVE  LockInv'
<1>0. req[r] \in ReqState /\ ActorsOK
  BY Facts
<1>1. SameRows /\ UNCHANGED call
  BY DEF ApiCrash, ApiDbError, DeadlockAbort, SameRows, shared, database
<1>2. CASE ApiCrash(r)
  <2> DEFINE q == [req[r] EXCEPT !.pc = "crashed", !.flags = {}, !.notes = {},
                                 !.heldFlags = {}, !.heldPhoto = FALSE]
  <2>1. req' = [req EXCEPT ![r] = q]
    BY <1>0, <1>2 DEF ApiCrash, ActorsOK
  <2>2. /\ q.pc = "crashed" /\ q.photo = req[r].photo
        /\ q.heldFlags = {} /\ q.heldPhoto = FALSE
    BY <1>0 DEF ReqState
  <2> HIDE DEF q
  <2>3. q.pc \in BareSteps /\ q.pc \in Unbound
    BY <2>2 DEF BareSteps, Step, LockSteps, RemovedSteps, FreshSteps, Unbound
  <2> QED
    BY <1>1, <2>1, <2>2, <2>3, BareMoves
<1>3. CASE ApiDbError(r) \/ DeadlockAbort(r)
  BY <1>1, <1>3, AnswerLocks DEF ApiDbError, DeadlockAbort, Answer
<1> QED
  BY <1>2, <1>3

---------------------------------------------------------------------------
(* The theorems.                                                           *)

LEMMA LockInit == Init => LockInv
<1> SUFFICES ASSUME Init PROVE LockInv
  OBVIOUS
<1>1. ASSUME NEW r \in Request
      PROVE  /\ req[r].pc \in Unbound /\ req[r].pc \notin FreshSteps \cup LockSteps
             /\ req[r].pc # "action_resolve"
             /\ req[r].heldFlags = {} /\ req[r].heldPhoto = FALSE
             /\ call[r].op \in Decision => req[r].photo = call[r].flag[1]
  <2>1. req[r] = Fresh(call[r])
    BY DEF Init
  <2>2. FirstStep(call[r].op) \in {"upload", "get", "decide", "load_photo"}
    BY DEF FirstStep
  <2>3. call[r].op \in Decision => PhotoOf(call[r]) = call[r].flag[1]
    BY DEF PhotoOf, Decision
  <2> QED
    BY <2>1, <2>2, <2>3 DEF Fresh, Unbound, FreshSteps, LockSteps, RemovedSteps
<1>2. \A r \in Request : Sound(req[r], call[r], DOMAIN photos, DOMAIN flags, lastId)
  BY <1>1 DEF Sound, Knows, Places, Keeps, LockSteps, RemovedSteps
<1>3. \A r, o \in Request : r # o => Apart(req[r], req[o])
  BY <1>1 DEF Apart
<1>4. FlagsHavePhotos
  <2>1. DOMAIN flags = SeedFlags /\ DOMAIN photos = 1..Len(Seeds)
    BY DEF Init
  <2>2. \A f \in SeedFlags : f[1] \in 1..Len(Seeds)
    BY SeedAssumption
  <2> QED
    BY <2>1, <2>2 DEF FlagsHavePhotos
<1> QED
  BY <1>2, <1>3, <1>4 DEF LockInv

LEMMA LockStep == TypeInv /\ LockInv /\ [Next]_vars => LockInv'
<1> SUFFICES ASSUME TypeInv, LockInv, [Next]_vars PROVE LockInv'
  OBVIOUS
<1>1. CASE \E r \in Request : RequestTurn(r) \/ ApiCrash(r) \/ ApiDbError(r)
  BY <1>1, PhotoStepLocks, ModerationStepLocks, FailureLocks DEF RequestTurn
<1>2. CASE \E w \in Worker : \/ WorkerTurn(w) \/ WorkerCrash(w) \/ Redeliver(w)
                             \/ WorkerDbError(w)
  BY <1>2, WorkerLocks
<1>3. CASE (\E p \in PhotoId : Expire(p)) \/ Idle \/ UNCHANGED vars
  <2>1. SameRows /\ UNCHANGED <<call, req>>
    BY <1>3 DEF Expire, Idle, SameRows, vars, database
  <2> QED
    BY <2>1, LockKept
<1> QED
  BY <1>1, <1>2, <1>3 DEF Next

(* Every request holds at each step the row locks its next statements rely *)
(* on, and no two requests hold the same one.                              *)
THEOREM LockInvCorrect == Spec => []LockInv
  BY TypeInvCorrect, LockInit, LockStep, PTL DEF Spec

(* No flag outlives its photo, whatever deletions and reports overlap. *)
THEOREM NoOrphanFlag == Spec => []FlagsHavePhotos
<1>1. LockInv => FlagsHavePhotos
  BY DEF LockInv
<1> QED
  BY <1>1, LockInvCorrect, PTL

(* An action decision that closed a pending flag finds the photo it is     *)
(* about to delete: db.get(Photo) returns None only if no flag was locked. *)
THEOREM ResolvedPhotoFound == Spec => []LockedFlagKeepsPhoto
<1>1. LockInv => LockedFlagKeepsPhoto
  <2>1. SUFFICES ASSUME LockInv, NEW r \in Request, req[r].pc = "action_photo",
                        req[r].notes # {}
                 PROVE  req[r].photo \in DOMAIN photos
    BY DEF LockedFlagKeepsPhoto
  <2>2. PICK f \in req[r].notes : TRUE
    BY <2>1
  <2>3. f \in DOMAIN flags /\ f[1] = req[r].photo
    BY <2>1, <2>2 DEF LockInv, Sound, Keeps, Places
  <2> QED
    BY <2>1, <2>3 DEF LockInv, FlagsHavePhotos
<1> QED
  BY <1>1, LockInvCorrect, PTL

---------------------------------------------------------------------------
(* What one step of a request changes, and which actions change it.        *)

Acts(r) == RequestTurn(r) \/ ApiCrash(r) \/ ApiDbError(r)

WorkerActs(w) ==
    WorkerTurn(w) \/ WorkerCrash(w) \/ Redeliver(w) \/ WorkerDbError(w)

Over == {"done", "crashed"}

(* Nobody else moves, and every change of a table or a store is made by    *)
(* one of a few actions.                                                   *)
Stores(r) ==
    /\ UNCHANGED <<call, wk, mails>>
    /\ \A o \in Request \ {r} : req'[o] = req[o]
    /\ \/ photos' = photos
       \/ UploadCommit(r) \/ PatchCommit(r) \/ DeleteCommit(r) \/ ActionCommit(r)
    /\ lastId' = lastId \/ UploadFlush(r)
    /\ \/ flags' = flags
       \/ FlagCommit(r) \/ DismissCommit(r) \/ DeleteCommit(r) \/ ActionCommit(r)
    /\ \/ UNCHANGED <<audit, outbox>>
       \/ /\ DismissCommit(r) \/ ActionCommit(r)
          /\ req'[r].pc = "decide_refresh"
    /\ \/ files' = files
       \/ UploadWrite(r) \/ UploadWriteFails(r) \/ DeleteFiles(r) \/ ActionFiles(r)
    /\ \/ cache' = cache
       \/ GetFill(r) \/ PatchInvalidate(r) \/ DeleteInvalidate(r)
       \/ ActionInvalidate(r)
    /\ queue' = queue \/ UploadEnqueue(r) \/ Dispatch(r)

(* What the request itself remembers: its photo for good, what it loaded   *)
(* or locked until a few actions change it, nothing once it is over.       *)
Memory(r) ==
    /\ req[r].pc \notin Over
    /\ req'[r].photo = req[r].photo \/ UploadFlush(r)
    /\ req'[r].pc \in Over =>
          /\ req'[r].notes = {} /\ req'[r].heldFlags = {}
          /\ req'[r].heldPhoto = FALSE
    /\ req'[r].pc # "done" => req'[r].reply = req[r].reply
    /\ req[r].pc \in RuledSteps => req'[r].pc \in RuledSteps \cup Over
    /\ req'[r].reply = 200 =>
          \/ req[r].reply = 200
          \/ GetCached(r) \/ GetFill(r) \/ PatchInvalidate(r) \/ ThumbSend(r)
          \/ FileSend(r) \/ ThumbFileSend(r) \/ Decided(r)
    /\ req'[r].reply = 500 =>
          \/ req[r].reply = 500
          \/ UploadWriteFails(r) \/ UploadRefresh(r) \/ UploadEnqueueFails(r)
          \/ PatchCommit(r) \/ PatchRefresh(r)
          \/ ThumbSend(r) \/ FileSend(r) \/ ThumbFileSend(r)
          \/ FlagRefresh(r) \/ DismissCommit(r) \/ ActionResolve(r) \/ ActionPhoto(r)
          \/ DecideRefresh(r) \/ DispatchFails(r)
          \/ DeadlockAbort(r) \/ ApiDbError(r)
    /\ req'[r].pc \notin Over =>
          /\ req'[r].row = req[r].row \/ LoadPhoto(r) \/ LoadThumb(r)
          /\ \/ req'[r].flags = req[r].flags
             \/ DeleteFlags(r) \/ ActionSiblings(r) \/ ActionPhoto(r)
          /\ \/ req'[r].notes = req[r].notes
             \/ ActionResolve(r) \/ DismissCommit(r) \/ Dispatch(r)
          /\ \/ req'[r].heldFlags = req[r].heldFlags
             \/ LockFlags(r) \/ ActionResolve(r) \/ ActionCascade(r)
             \/ DeleteCommit(r) \/ ActionCommit(r)

(* How a request comes to be at a step.                                    *)
Arrives(r) ==
    /\ req'[r].pc \notin {"upload", "get", "decide"}
    /\ req'[r].pc = "load_photo" => req[r].pc = "get"
    /\ req'[r].pc = "upload_write" => UploadFlush(r)
    /\ req'[r].pc = "upload_commit" => UploadWrite(r)
    /\ req'[r].pc = "upload_refresh" => UploadCommit(r)
    /\ req'[r].pc = "upload_enqueue" => UploadRefresh(r)
    /\ req'[r].pc = "load_thumb" => LoadPhoto(r)
    /\ req'[r].pc \in ServeSteps \cup {"patch_commit"} => LoadThumb(r)
    /\ req'[r].pc = "patch_refresh" => PatchCommit(r)
    /\ req'[r].pc = "patch_invalidate" => PatchRefresh(r)
    /\ req'[r].pc = "lock_flags" => DeleteFlags(r) \/ ActionPhoto(r)
    /\ req'[r].pc = "lock_photo" => LockFlags(r)
    /\ req'[r].pc = "cascade" => LockPhoto(r)
    /\ req'[r].pc = "delete_files" => DeleteCommit(r)
    /\ req'[r].pc = "delete_invalidate" => DeleteFiles(r)
    /\ req'[r].pc = "flag_refresh" => FlagCommit(r)
    /\ req'[r].pc \in {"dismiss_commit", "action_siblings"} => DecideLoad(r)
    /\ req'[r].pc = "action_resolve" => ActionSiblings(r)
    /\ req'[r].pc = "action_photo" => ActionResolve(r)
    /\ req'[r].pc = "action_files" => ActionCascade(r)
    /\ req'[r].pc = "action_invalidate" => ActionFiles(r)
    /\ req'[r].pc = "action_commit" => ActionInvalidate(r)
    /\ req'[r].pc = "decide_refresh" => DismissCommit(r) \/ ActionCommit(r)
    /\ req'[r].pc = "dispatch" => DecideRefresh(r) \/ Dispatch(r)
    /\ req'[r].pc = "crashed" => ApiCrash(r)

(* How a request gets on, after the steps others rely on it to take.       *)
Departs(r) ==
    /\ req[r].pc = "upload_commit" => UploadCommit(r) \/ ApiCrash(r) \/ ApiDbError(r)
    /\ req[r].pc = "upload_refresh" => UploadRefresh(r) \/ ApiCrash(r) \/ ApiDbError(r)
    /\ req[r].pc = "upload_enqueue" =>
          UploadEnqueue(r) \/ UploadEnqueueFails(r) \/ ApiCrash(r)
    /\ req[r].pc = "patch_refresh" => PatchRefresh(r) \/ ApiCrash(r) \/ ApiDbError(r)
    /\ req[r].pc = "patch_invalidate" => PatchInvalidate(r) \/ ApiCrash(r)
    /\ req[r].pc = "delete_files" => DeleteFiles(r) \/ ApiCrash(r)
    /\ req[r].pc = "delete_invalidate" => DeleteInvalidate(r) \/ ApiCrash(r)
    /\ req[r].pc = "action_invalidate" => ActionInvalidate(r) \/ ApiCrash(r)
    /\ req[r].pc = "action_commit" => ActionCommit(r) \/ ApiCrash(r) \/ ApiDbError(r)
    /\ req[r].pc = "decide_refresh" => DecideRefresh(r) \/ ApiCrash(r) \/ ApiDbError(r)
    /\ req[r].pc = "dispatch" =>
          Dispatch(r) \/ DispatchFails(r) \/ Decided(r) \/ ApiCrash(r)

Effect(r) == Stores(r) /\ Memory(r) /\ Arrives(r) /\ Departs(r)

LEMMA UploadEffect ==
    ASSUME TypeInv, NEW r \in Request,
           \/ UploadReject(r) \/ UploadFlush(r) \/ UploadWrite(r)
           \/ UploadWriteFails(r) \/ UploadCommit(r) \/ UploadRefresh(r)
           \/ UploadEnqueue(r) \/ UploadEnqueueFails(r)
    PROVE  Effect(r)
<1>0. req \in [Request -> ReqState] /\ req[r] \in ReqState
  BY DEF TypeInv, TypeOK, ActorsOK
<1> USE <1>0 DEF Effect, Stores, Memory, Arrives, Departs, shared, database, Answer,
        AnswerWith, Goto, Over, ServeSteps, RuledSteps, ReqState
<1>1. CASE UploadReject(r)
  BY <1>1 DEF UploadReject
<1>2. CASE UploadFlush(r)
  BY <1>2 DEF UploadFlush
<1>3. CASE UploadWrite(r)
  BY <1>3 DEF UploadWrite
<1>4. CASE UploadWriteFails(r)
  <2>1. /\ req[r].pc = "upload_write" /\ Answer(r, 500)
        /\ UNCHANGED <<database, cache, queue, mails, call, wk>>
    BY <1>4 DEF UploadWriteFails
  <2> QED
    BY <1>4, <2>1
<1>5. CASE UploadCommit(r)
  BY <1>5 DEF UploadCommit
<1>6. CASE UploadRefresh(r)
  BY <1>6 DEF UploadRefresh
<1>7. CASE UploadEnqueue(r) \/ UploadEnqueueFails(r)
  BY <1>7 DEF UploadEnqueue, UploadEnqueueFails
<1> HIDE DEF Effect
<1> QED
  BY <1>1, <1>2, <1>3, <1>4, <1>5, <1>6, <1>7

LEMMA ReadEffect ==
    ASSUME TypeInv, NEW r \in Request,
           \/ LoadPhoto(r) \/ LoadThumb(r) \/ GetCached(r) \/ GetCacheDown(r)
           \/ GetFill(r) \/ ThumbSend(r) \/ FileSend(r) \/ ThumbFileSend(r)
    PROVE  Effect(r)
<1>0. req \in [Request -> ReqState] /\ req[r] \in ReqState
  BY DEF TypeInv, TypeOK, ActorsOK
<1> USE <1>0 DEF Effect, Stores, Memory, Arrives, Departs, shared, database, Answer,
        AnswerWith, Goto, Over, ServeSteps, RuledSteps, ReqState
<1>1. CASE LoadPhoto(r)
  BY <1>1 DEF LoadPhoto
<1>2. CASE LoadThumb(r)
  <2>1. AfterLoad[call[r].op] \in ServeSteps \cup {"patch_commit"}
    BY <1>2, RequestFacts DEF LoadThumb, AfterLoad, Fits, CallFits, LoadSteps, PhotoOps
  <2> QED
    BY <1>2, <2>1 DEF LoadThumb
<1>3. CASE GetCached(r)
  BY <1>3 DEF GetCached
<1>4. CASE GetCacheDown(r)
  BY <1>4 DEF GetCacheDown
<1>5. CASE GetFill(r)
  <2>1. /\ req[r].pc = "get_fill" /\ AnswerWith(r, 200, req[r].row)
        /\ UNCHANGED <<database, files, queue, mails, call, wk>>
    BY <1>5 DEF GetFill
  <2> QED
    BY <1>5, <2>1
<1>6. CASE ThumbSend(r) \/ FileSend(r) \/ ThumbFileSend(r)
  BY <1>6 DEF ThumbSend, FileSend, ThumbFileSend
<1> HIDE DEF Effect
<1> QED
  BY <1>1, <1>2, <1>3, <1>4, <1>5, <1>6

LEMMA WriteEffect ==
    ASSUME TypeInv, NEW r \in Request,
           \/ PatchCommit(r) \/ PatchRefresh(r) \/ PatchInvalidate(r)
           \/ DeleteFlags(r) \/ LockFlags(r) \/ LockPhoto(r)
           \/ DeleteCommit(r) \/ DeleteFiles(r) \/ DeleteInvalidate(r)
    PROVE  Effect(r)
<1>0. req \in [Request -> ReqState] /\ req[r] \in ReqState
  BY DEF TypeInv, TypeOK, ActorsOK
<1> USE <1>0 DEF Effect, Stores, Memory, Arrives, Departs, shared, database, Answer,
        AnswerWith, Goto, Over, ServeSteps, RuledSteps, ReqState
<1>1. CASE PatchCommit(r)
  <2>1. /\ req[r].pc = "patch_commit"
        /\ Goto(r, "patch_refresh") \/ Answer(r, 500)
        /\ UNCHANGED <<lastId, flags, audit, outbox, files, cache, queue, mails,
                       call, wk, spent>>
    BY <1>1 DEF PatchCommit
  <2> QED
    BY <1>1, <2>1
<1>2. CASE PatchRefresh(r)
  BY <1>2 DEF PatchRefresh
<1>3. CASE PatchInvalidate(r)
  BY <1>3 DEF PatchInvalidate
<1>4. CASE DeleteFlags(r)
  BY <1>4 DEF DeleteFlags
<1>5. CASE LockFlags(r)
  BY <1>5 DEF LockFlags
<1>6. CASE LockPhoto(r)
  BY <1>6 DEF LockPhoto
<1>7. CASE DeleteCommit(r)
  BY <1>7 DEF DeleteCommit
<1>8. CASE DeleteFiles(r) \/ DeleteInvalidate(r)
  BY <1>8 DEF DeleteFiles, DeleteInvalidate
<1> HIDE DEF Effect
<1> QED
  BY <1>1, <1>2, <1>3, <1>4, <1>5, <1>6, <1>7, <1>8

LEMMA Dispatched ==
    ASSUME NEW r \in Request, Dispatch(r)
    PROVE  /\ \E f \in req[r].notes : req' = [req EXCEPT ![r].notes = @ \ {f}]
           /\ req[r].pc = "dispatch"
           /\ UNCHANGED <<database, files, cache, mails, call, wk, spent>>
  BY DEF Dispatch

LEMMA DecisionEffect ==
    ASSUME TypeInv, NEW r \in Request, ModerationStep(r)
    PROVE  Effect(r)
<1>0. req \in [Request -> ReqState] /\ req[r] \in ReqState
  BY DEF TypeInv, TypeOK, ActorsOK
<1> USE <1>0 DEF Effect, Stores, Memory, Arrives, Departs, shared, database, Answer,
        AnswerWith, Goto, Over, ServeSteps, RuledSteps, ReqState
<1>1. CASE FlagCommit(r)
  BY <1>1 DEF FlagCommit
<1>2. CASE FlagRefresh(r) \/ DecideLoad(r)
  BY <1>2 DEF FlagRefresh, DecideLoad
<1>3. CASE DismissCommit(r)
  BY <1>3 DEF DismissCommit
<1>4. CASE ActionSiblings(r) \/ ActionPhoto(r)
  BY <1>4 DEF ActionSiblings, ActionPhoto
<1>5. CASE ActionResolve(r)
  <2>1. /\ req[r].pc = "action_resolve"
        /\ \/ Answer(r, 500)
           \/ req' = [req EXCEPT ![r] = [@ EXCEPT !.pc = "action_photo",
                                        !.notes = req[r].flags,
                                        !.heldFlags = req[r].flags]]
        /\ UNCHANGED <<shared, call, wk>>
    BY <1>5 DEF ActionResolve
  <2>2. CASE Answer(r, 500)
    BY <1>5, <2>1, <2>2
  <2>3. CASE req' = [req EXCEPT ![r] = [@ EXCEPT !.pc = "action_photo",
                                        !.notes = req[r].flags,
                                        !.heldFlags = req[r].flags]]
    BY <1>5, <2>1, <2>3
  <2> HIDE DEF Effect, Answer
  <2> QED
    BY <2>1, <2>2, <2>3
<1>6. CASE ActionCascade(r)
  BY <1>6 DEF ActionCascade
<1>7. CASE ActionFiles(r) \/ ActionInvalidate(r)
  BY <1>7 DEF ActionFiles, ActionInvalidate
<1>8. CASE ActionCommit(r)
  BY <1>8 DEF ActionCommit
<1>9. CASE DecideRefresh(r) \/ DispatchFails(r) \/ Decided(r)
  BY <1>9 DEF DecideRefresh, DispatchFails, Decided
<1>10. CASE Dispatch(r)
  <2>1. PICK f \in req[r].notes : req' = [req EXCEPT ![r].notes = @ \ {f}]
    BY <1>10, Dispatched
  <2>2. /\ req[r].pc = "dispatch"
        /\ UNCHANGED <<database, files, cache, mails, call, wk, spent>>
    BY <1>10, Dispatched
  <2>3. Stores(r)
    BY <1>10, <2>1, <2>2
  <2>4. Memory(r)
    BY <1>10, <2>1, <2>2
  <2>5. Arrives(r)
    BY <1>10, <2>1, <2>2
  <2>6. Departs(r)
    BY <1>10, <2>2
  <2> HIDE DEF Stores, Memory, Arrives, Departs
  <2> QED
    BY <2>3, <2>4, <2>5, <2>6
<1> HIDE DEF Effect
<1> QED
  BY <1>1, <1>2, <1>3, <1>4, <1>5, <1>6, <1>7, <1>8, <1>9, <1>10 DEF ModerationStep

\* Steps whose statement may wait for a row lock.
WaitSteps == {"lock_flags", "action_resolve", "dismiss_commit", "cascade",
              "lock_photo", "flag_commit", "patch_commit"}

LEMMA DeadlockedWaits ==
    ASSUME NEW r \in Request, Deadlocked(r)
    PROVE  req[r].pc \in WaitSteps
<1>1. PICK o \in Request : WaitsFor(r, o)
  BY DEF Deadlocked
<1> QED
  BY <1>1 DEF WaitsFor, NeededFlags, NeedsPhoto, WaitSteps

LEMMA FailureEffect ==
    ASSUME TypeInv, NEW r \in Request,
           DeadlockAbort(r) \/ ApiCrash(r) \/ ApiDbError(r)
    PROVE  Effect(r)
<1>0. req \in [Request -> ReqState] /\ req[r] \in ReqState
  BY DEF TypeInv, TypeOK, ActorsOK
<1> USE <1>0 DEF Effect, Stores, Memory, Arrives, Departs, shared, database, Answer,
        AnswerWith, Goto, Over, ServeSteps, RuledSteps, ReqState
<1>1. CASE DeadlockAbort(r)
  BY <1>1, DeadlockedWaits DEF DeadlockAbort, WaitSteps
<1>2. CASE ApiCrash(r)
  BY <1>2 DEF ApiCrash
<1>3. CASE ApiDbError(r)
  BY <1>3 DEF ApiDbError, DbStep
<1> HIDE DEF Effect
<1> QED
  BY <1>1, <1>2, <1>3

LEMMA StepEffect ==
    ASSUME TypeInv, NEW r \in Request, Acts(r)
    PROVE  Effect(r)
  BY UploadEffect, ReadEffect, WriteEffect, DecisionEffect, FailureEffect
     DEF Acts, RequestTurn, PhotoStep

---------------------------------------------------------------------------
(* What one step of a worker changes.                                      *)

WorkerStores(w) ==
    /\ UNCHANGED <<lastId, flags, audit, call, req>>
    /\ \A v \in Worker \ {w} : wk'[v] = wk[v]
    /\ \/ photos' = photos
       \/ ThumbProcessing(w) \/ ThumbReady(w) \/ ThumbFailed(w) \/ ThumbPending(w)
    /\ DOMAIN photos' = DOMAIN photos
    /\ \A p \in DOMAIN photos : photos'[p].owner = photos[p].owner
    /\ outbox' = outbox \/ NoteSent(w) \/ NoteFailed(w)
    /\ DOMAIN outbox' = DOMAIN outbox
    /\ files' = files \/ ThumbSave(w)
    /\ cache' = cache \/ ThumbInvalidate(w) \/ ThumbPendingInvalidate(w)
    /\ \/ queue' = queue
       \/ TakeThumb(w) \/ TakeNote(w) \/ Retry(w) \/ WorkerCrash(w)
       \/ Redeliver(w)
    /\ mails' = mails \/ NoteSend(w)

WorkerMemory(w) ==
    \/ TakeThumb(w) \/ TakeNote(w)
    \/ wk'[w] = IdleWorker
    \/ /\ wk[w].pc # "idle" /\ wk'[w].msg = wk[w].msg
       /\ wk'[w].status = wk[w].status /\ wk'[w].attempts = wk[w].attempts

WorkerArrives(w) ==
    \/ wk' = wk /\ Redeliver(w)
    \/ /\ wk'[w].pc = "thumb_processing" => TakeThumb(w)
       /\ wk'[w].pc = "thumb_open" => ThumbProcessing(w)
       /\ wk'[w].pc = "thumb_save" => ThumbOpen(w)
       /\ wk'[w].pc = "thumb_ready" => ThumbSave(w)
       /\ wk'[w].pc = "thumb_failed" =>
             ThumbOpen(w) \/ ThumbPendingInvalidate(w)
       /\ wk'[w].pc = "thumb_invalidate" => ThumbReady(w) \/ ThumbFailed(w)
       /\ wk'[w].pc = "thumb_pending" => ThumbOpen(w) \/ ThumbSaveFails(w)
       /\ wk'[w].pc = "thumb_pending_invalidate" => ThumbPending(w)
       /\ wk'[w].pc = "thumb_retry" => ThumbPendingInvalidate(w)
       /\ wk'[w].pc = "note_send" => TakeNote(w)
       /\ wk'[w].pc = "note_sent" => NoteSend(w)
       /\ wk'[w].pc = "note_failed" => NoteSendFails(w)
       /\ wk'[w].pc = "note_retry" => NoteFailed(w)

WorkerEffect(w) == WorkerStores(w) /\ WorkerMemory(w) /\ WorkerArrives(w)

(* An UPDATE of a thumbnail changes nobody's photo. *)
LEMMA RowUpdate ==
    ASSUME TypeInv, NEW w \in Worker, NEW row, NEW next, UpdateThumb(w, row, next),
           JobPhoto(w) \in DOMAIN photos => row.owner = photos[JobPhoto(w)].owner
    PROVE  /\ WGoto(w, next) \/ WGoto(w, "ack")
           /\ DOMAIN photos' = DOMAIN photos
           /\ \A p \in DOMAIN photos : photos'[p].owner = photos[p].owner
           /\ UNCHANGED <<lastId, flags, audit, outbox, files, cache, queue, mails,
                          call, req, spent>>
  BY DEF UpdateThumb

LEMMA ThumbUpdateEffect ==
    ASSUME TypeInv, NEW w \in Worker,
           \/ ThumbProcessing(w) \/ ThumbReady(w) \/ ThumbFailed(w)
           \/ ThumbPending(w)
    PROVE  WorkerEffect(w)
<1>0. wk \in [Worker -> WorkerState] /\ wk[w] \in WorkerState
  BY DEF TypeInv, TypeOK, ActorsOK
<1>1. JobPhoto(w) \in DOMAIN photos => photos[JobPhoto(w)] \in Photo
  BY DEF TypeInv, TypeOK, TablesOK
<1> USE <1>0 DEF WorkerEffect, WorkerStores, WorkerMemory, WorkerArrives, WGoto,
        WorkerState
<1>2. CASE ThumbProcessing(w)
  <2> DEFINE row == [photos[JobPhoto(w)] EXCEPT
                       !.status = IF wk[w].status = "processing" THEN @
                                  ELSE "processing",
                       !.attempts = wk[w].attempts + 1]
  <2>1. JobPhoto(w) \in DOMAIN photos => row.owner = photos[JobPhoto(w)].owner
    BY <1>1 DEF Photo
  <2>2. wk[w].pc = "thumb_processing" /\ UpdateThumb(w, row, "thumb_open")
    BY <1>2 DEF ThumbProcessing
  <2> HIDE DEF row
  <2> QED
    BY <1>2, <2>1, <2>2, RowUpdate
<1>3. CASE ThumbReady(w)
  <2> DEFINE row == [photos[JobPhoto(w)] EXCEPT !.status = "ready"]
  <2>1. wk[w].pc = "thumb_ready" /\ UpdateThumb(w, row, "thumb_invalidate")
    BY <1>3 DEF ThumbReady, UpdateStatus
  <2>2. JobPhoto(w) \in DOMAIN photos => row.owner = photos[JobPhoto(w)].owner
    BY <1>1 DEF Photo
  <2> HIDE DEF row
  <2> QED
    BY <1>3, <2>1, <2>2, RowUpdate
<1>4. CASE ThumbFailed(w)
  <2> DEFINE row == [photos[JobPhoto(w)] EXCEPT !.status = "failed"]
  <2>1. wk[w].pc = "thumb_failed" /\ UpdateThumb(w, row, "thumb_invalidate")
    BY <1>4 DEF ThumbFailed, UpdateStatus
  <2>2. JobPhoto(w) \in DOMAIN photos => row.owner = photos[JobPhoto(w)].owner
    BY <1>1 DEF Photo
  <2> HIDE DEF row
  <2> QED
    BY <1>4, <2>1, <2>2, RowUpdate
<1>5. CASE ThumbPending(w)
  <2> DEFINE row == [photos[JobPhoto(w)] EXCEPT !.status = "pending"]
  <2>1. wk[w].pc = "thumb_pending" /\ UpdateThumb(w, row, "thumb_pending_invalidate")
    BY <1>5 DEF ThumbPending, UpdateStatus
  <2>2. JobPhoto(w) \in DOMAIN photos => row.owner = photos[JobPhoto(w)].owner
    BY <1>1 DEF Photo
  <2> HIDE DEF row
  <2> QED
    BY <1>5, <2>1, <2>2, RowUpdate
<1> QED
  BY <1>2, <1>3, <1>4, <1>5

LEMMA ThumbJobEffect ==
    ASSUME TypeInv, NEW w \in Worker,
           \/ TakeThumb(w) \/ ThumbOpen(w) \/ ThumbSave(w) \/ ThumbSaveFails(w)
           \/ ThumbInvalidate(w) \/ ThumbPendingInvalidate(w)
    PROVE  WorkerEffect(w)
<1>0. wk \in [Worker -> WorkerState] /\ wk[w] \in WorkerState
  BY DEF TypeInv, TypeOK, ActorsOK
<1> USE <1>0 DEF WorkerEffect, WorkerStores, WorkerMemory, WorkerArrives, WGoto,
        WorkerState, IdleWorker, shared, database
<1>1. CASE TakeThumb(w)
  <2>1. PICK m : wk' = [wk EXCEPT ![w] =
                      IF m.photo \in DOMAIN photos
                      THEN [pc |-> "thumb_processing", msg |-> m,
                            status |-> photos[m.photo].status,
                            attempts |-> photos[m.photo].attempts]
                      ELSE [IdleWorker EXCEPT !.pc = "ack", !.msg = m]]
    BY <1>1 DEF TakeThumb
  <2>2. UNCHANGED <<database, files, cache, mails, call, req, spent>>
    BY <1>1 DEF TakeThumb
  <2> QED
    BY <1>1, <2>1, <2>2
<1>2. CASE ThumbOpen(w)
  BY <1>2 DEF ThumbOpen
<1>3. CASE ThumbSave(w) \/ ThumbSaveFails(w)
  BY <1>3 DEF ThumbSave, ThumbSaveFails
<1>4. CASE ThumbInvalidate(w)
  BY <1>4 DEF ThumbInvalidate
<1>5. CASE ThumbPendingInvalidate(w)
  BY <1>5 DEF ThumbPendingInvalidate
<1> QED
  BY <1>1, <1>2, <1>3, <1>4, <1>5

LEMMA NoteJobEffect ==
    ASSUME TypeInv, NEW w \in Worker,
           \/ TakeNote(w) \/ NoteSend(w) \/ NoteSendFails(w)
           \/ NoteMailDirFails(w) \/ NoteSent(w) \/ NoteFailed(w)
    PROVE  WorkerEffect(w)
<1>0. wk \in [Worker -> WorkerState] /\ wk[w] \in WorkerState
  BY DEF TypeInv, TypeOK, ActorsOK
<1> USE <1>0 DEF WorkerEffect, WorkerStores, WorkerMemory, WorkerArrives, WGoto,
        WorkerState, IdleWorker, shared, database
<1>1. CASE TakeNote(w)
  <2>1. PICK m : wk' = [wk EXCEPT ![w] =
                      IF m.note \in DOMAIN outbox /\ outbox[m.note].status # "sent"
                      THEN [pc |-> "note_send", msg |-> m,
                            status |-> outbox[m.note].status,
                            attempts |-> outbox[m.note].attempts]
                      ELSE [IdleWorker EXCEPT !.pc = "ack", !.msg = m]]
    BY <1>1 DEF TakeNote
  <2>2. UNCHANGED <<database, files, cache, mails, call, req, spent>>
    BY <1>1 DEF TakeNote
  <2> QED
    BY <1>1, <2>1, <2>2
<1>2. CASE NoteSend(w) \/ NoteSendFails(w) \/ NoteMailDirFails(w)
  BY <1>2 DEF NoteSend, NoteSendFails, NoteMailDirFails
<1>3. CASE NoteSent(w)
  BY <1>3 DEF NoteSent, UpdateNote
<1>4. CASE NoteFailed(w)
  BY <1>4 DEF NoteFailed, UpdateNote
<1> QED
  BY <1>1, <1>2, <1>3, <1>4

LEMMA DeliveryEffect ==
    ASSUME TypeInv, NEW w \in Worker,
           \/ Retry(w) \/ Ack(w) \/ WorkerCrash(w) \/ Redeliver(w)
           \/ WorkerDbError(w)
    PROVE  WorkerEffect(w)
<1>0. wk \in [Worker -> WorkerState] /\ wk[w] \in WorkerState
  BY DEF TypeInv, TypeOK, ActorsOK
<1> USE <1>0 DEF WorkerEffect, WorkerStores, WorkerMemory, WorkerArrives, WGoto,
        WorkerState, IdleWorker, shared, database
<1>1. CASE Retry(w)
  BY <1>1 DEF Retry
<1>2. CASE Ack(w)
  BY <1>2 DEF Ack
<1>3. CASE WorkerCrash(w)
  BY <1>3 DEF WorkerCrash
<1>4. CASE Redeliver(w)
  BY <1>4 DEF Redeliver
<1>5. CASE WorkerDbError(w)
  BY <1>5 DEF WorkerDbError
<1> QED
  BY <1>1, <1>2, <1>3, <1>4, <1>5

LEMMA WorkerStepEffect ==
    ASSUME TypeInv, NEW w \in Worker, WorkerActs(w)
    PROVE  WorkerEffect(w)
  BY ThumbUpdateEffect, ThumbJobEffect, NoteJobEffect, DeliveryEffect
     DEF WorkerActs, WorkerTurn

---------------------------------------------------------------------------
(* Every step is a request's, a worker's, or leaves all but the cache.     *)

Quiet == UNCHANGED <<photos, lastId, flags, audit, outbox, files, queue, mails,
                     call, req, wk, spent>>

LEMMA StepCases ==
    ASSUME [Next]_vars
    PROVE  \/ \E r \in Request : Acts(r)
           \/ \E w \in Worker : WorkerActs(w)
           \/ Quiet
  BY DEF Next, Acts, WorkerActs, Quiet, Expire, Idle, vars, database

(* What a request's step does to the rows of photos and of flags.          *)
LEMMA PhotoRows ==
    ASSUME TypeInv, NEW r \in Request, Acts(r)
    PROVE  /\ lastId' >= lastId
           /\ \/ /\ DOMAIN photos' \subseteq DOMAIN photos
                 /\ \A p \in DOMAIN photos' : photos'[p].owner = photos[p].owner
              \/ /\ UploadCommit(r)
                 /\ DOMAIN photos' = DOMAIN photos \cup {req[r].photo}
                 /\ \A p \in DOMAIN photos' \ {req[r].photo} :
                       photos'[p] = photos[p]
<1>0. Effect(r) /\ lastId \in Nat
  BY StepEffect, RequestFacts
<1>1. lastId' >= lastId
  BY <1>0 DEF Effect, Stores, UploadFlush
<1>2. CASE photos' = photos
  BY <1>1, <1>2
<1>3. CASE UploadCommit(r)
  BY <1>1, <1>3 DEF UploadCommit, Put
<1>4. CASE PatchCommit(r)
  <2>1. req[r].photo \in DOMAIN photos => photos[req[r].photo] \in Photo
    BY DEF TypeInv, TypeOK, TablesOK
  <2>2. /\ DOMAIN photos' \subseteq DOMAIN photos
        /\ \A p \in DOMAIN photos' : photos'[p].owner = photos[p].owner
    BY <1>4, <2>1 DEF PatchCommit, Photo
  <2> QED
    BY <1>1, <2>2
<1>5. CASE DeleteCommit(r) \/ ActionCommit(r)
  BY <1>1, <1>5 DEF DeleteCommit, ActionCommit, Drop, Restrict
<1> QED
  BY <1>0, <1>2, <1>3, <1>4, <1>5 DEF Effect, Stores

LEMMA FlagRows ==
    ASSUME TypeInv, NEW r \in Request, Acts(r)
    PROVE  \/ flags' = flags
           \/ /\ FlagCommit(r) /\ req[r].photo \in DOMAIN photos
              /\ UNCHANGED photos
              /\ DOMAIN flags' = DOMAIN flags \cup {<<req[r].photo, call[r].user>>}
              /\ \A f \in DOMAIN flags : flags'[f] = flags[f]
           \/ /\ DismissCommit(r) /\ DOMAIN flags' = DOMAIN flags
              /\ UNCHANGED photos
              /\ \A f \in DOMAIN flags : flags'[f] \in {flags[f], "dismissed"}
           \/ /\ DeleteCommit(r) \/ ActionCommit(r)
              /\ DOMAIN photos' = DOMAIN photos \ {req[r].photo}
              /\ DOMAIN flags' = {f \in DOMAIN flags : f[1] # req[r].photo}
              /\ \A f \in DOMAIN flags' : flags'[f] = flags[f]
<1>0. Effect(r)
  BY StepEffect
<1>1. CASE flags' = flags
  BY <1>1
<1>2. CASE FlagCommit(r) /\ flags' # flags
  BY <1>2 DEF FlagCommit, Put
<1>3. CASE DismissCommit(r) /\ flags' # flags
  BY <1>3 DEF DismissCommit
<1>4. CASE DeleteCommit(r) \/ ActionCommit(r)
  BY <1>4 DEF DeleteCommit, ActionCommit, Drop, Restrict, FlagsOf
<1> QED
  BY <1>0, <1>1, <1>2, <1>3, <1>4 DEF Effect, Stores

---------------------------------------------------------------------------
(* An id in use stays in use or is gone for good.                          *)

LEMMA KnownGiven ==
    ASSUME TypeInv, LockInv, NEW r \in Request,
           req[r].pc \notin Unbound \cup FreshSteps
    PROVE  Given(req[r].photo)
<1>1. req[r].photo \in 1..lastId
  BY Facts DEF Knows
<1>2. ASSUME NEW o \in Request, req[o].pc \in FreshSteps
      PROVE  req[o].photo # req[r].photo
  <2>1. o # r
    BY <1>2
  <2>2. Apart(req[o], req[r])
    BY <2>1 DEF LockInv
  <2> QED
    BY <1>2, <2>2 DEF Apart
<1> QED
  BY <1>1, <1>2 DEF Given

LEMMA VisibleGiven ==
    ASSUME TypeInv, LockInv, NEW p \in DOMAIN photos
    PROVE  Given(p)
  BY Facts DEF Given, Knows, TypeInv, TypeOK, TablesOK

LEMMA GivenKept ==
    ASSUME TypeInv, LockInv, [Next]_vars, NEW p, Given(p)
    PROVE  Given(p)'
<1>1. CASE \E r \in Request : Acts(r)
  <2>1. PICK r \in Request : Acts(r)
    BY <1>1
  <2>2. Effect(r) /\ lastId' >= lastId /\ lastId \in Nat /\ lastId' \in Nat
    BY <2>1, StepEffect, PhotoRows, RequestFacts DEF Effect, Stores, UploadFlush
  <2>3. p \in 1..lastId'
    BY <2>2 DEF Given
  <2>4. req'[r].pc \in FreshSteps => req'[r].photo # p
    <3>1. CASE req'[r].pc = "upload_write"
      <4>1. UploadFlush(r)
        BY <2>2, <3>1 DEF Effect, Arrives
      <4>2. req'[r].photo = lastId + 1
        BY <4>1 DEF UploadFlush, TypeInv, TypeOK, ActorsOK, ReqState
      <4> QED
        BY <2>2, <4>2 DEF Given
    <3>2. CASE req'[r].pc = "upload_commit"
      <4>1. UploadWrite(r)
        BY <2>2, <3>2 DEF Effect, Arrives
      <4>2. req[r].pc = "upload_write" /\ req'[r].photo = req[r].photo
        BY <4>1 DEF UploadWrite, Goto, TypeInv, TypeOK, ActorsOK, ReqState
      <4> QED
        BY <4>2 DEF Given, FreshSteps
    <3> QED
      BY <3>1, <3>2 DEF FreshSteps
  <2>5. \A o \in Request \ {r} : req'[o].pc \in FreshSteps => req'[o].photo # p
    BY <2>2 DEF Effect, Stores, Given
  <2> QED
    BY <2>3, <2>4, <2>5 DEF Given
<1>2. CASE \E w \in Worker : WorkerActs(w)
  <2>1. UNCHANGED <<lastId, req>>
    BY <1>2, WorkerStepEffect DEF WorkerEffect, WorkerStores
  <2> QED
    BY <2>1 DEF Given
<1>3. CASE Quiet
  BY <1>3 DEF Quiet, Given
<1> QED
  BY <1>1, <1>2, <1>3, StepCases

LEMMA GoneKept ==
    ASSUME TypeInv, LockInv, [Next]_vars, NEW p, Gone(p)
    PROVE  Gone(p)'
<1>1. Given(p) /\ Given(p)' /\ p \notin DOMAIN photos
  BY GivenKept DEF Gone
<1>2. CASE \E r \in Request : Acts(r)
  <2>1. PICK r \in Request : Acts(r)
    BY <1>2
  <2>2. UploadCommit(r) => req[r].photo # p
    BY <1>1 DEF UploadCommit, Given, FreshSteps
  <2> QED
    BY <1>1, <2>1, <2>2, PhotoRows DEF Gone
<1>3. CASE \E w \in Worker : WorkerActs(w)
  BY <1>1, <1>3, WorkerStepEffect DEF WorkerEffect, WorkerStores, Gone
<1>4. CASE Quiet
  BY <1>1, <1>4 DEF Quiet, Gone
<1> QED
  BY <1>2, <1>3, <1>4, StepCases

---------------------------------------------------------------------------
(* Decisions stay on record.                                               *)

(* A request that knows its photo sees it come into being by no one else's *)
(* step, and never change hands.                                           *)
LEMMA Bystander ==
    ASSUME TypeInv, LockInv, NEW a \in Request, Acts(a),
           NEW r \in Request, r # a, req[r].pc \notin Unbound,
           req[r].photo \in DOMAIN photos'
    PROVE  /\ req[r].photo \in DOMAIN photos
           /\ photos'[req[r].photo].owner = photos[req[r].photo].owner
<1>1. Apart(req[a], req[r])
  BY DEF LockInv
<1>2. UploadCommit(a) => req[r].photo # req[a].photo
  BY <1>1 DEF UploadCommit, Apart, FreshSteps
<1> QED
  BY <1>2, PhotoRows

(* How an action proceeds up to its commit, moving no row.                 *)
LEMMA ActingMoves ==
    ASSUME TypeInv, LockInv, RecordInv, NEW r \in Request, Acts(r), Acting(r)'
    PROVE  /\ UNCHANGED <<call, photos, flags, audit, outbox>>
           /\ req'[r].photo = req[r].photo
           /\ \/ /\ req'[r].pc = "action_siblings"
                 /\ call[r].flag \in DOMAIN flags
              \/ /\ req'[r].pc = "action_resolve" /\ Acting(r)
                 /\ req'[r].flags = {f \in FlagsOf(req[r].photo) :
                                        flags[f] = "pending"}
              \/ /\ req[r].pc = "action_resolve" /\ req'[r].pc = "action_photo"
                 /\ Acting(r) /\ req'[r].notes = req[r].flags
                 /\ req'[r].heldFlags = req[r].flags
              \/ /\ req[r].pc \notin {"action_siblings", "action_resolve"}
                 /\ req'[r].pc \notin {"action_siblings", "action_resolve"}
                 /\ Acting(r) /\ req'[r].notes = req[r].notes
                 /\ req[r].heldFlags \subseteq req'[r].heldFlags
<1>0. /\ Effect(r) /\ req[r] \in ReqState /\ req \in [Request -> ReqState]
      /\ Fits(req[r], call[r], lastId)
  BY StepEffect, RequestFacts DEF ActorsOK
<1>1. call'[r].op = "action" /\ req'[r].pc \in RulingSteps /\ call' = call
  BY <1>0 DEF Acting, Effect, Stores
<1>2. \/ DecideLoad(r) \/ ActionSiblings(r) \/ ActionResolve(r) \/ ActionPhoto(r)
      \/ LockFlags(r) \/ LockPhoto(r) \/ ActionCascade(r) \/ ActionFiles(r)
      \/ ActionInvalidate(r)
  BY <1>0, <1>1 DEF Effect, Arrives, RulingSteps, RemovedSteps, DeleteFlags, Fits,
     CallFits
<1> USE <1>0, <1>1 DEF Acting, RulingSteps, RemovedSteps, Goto, shared, database,
        Answer, AnswerWith
<1>3. CASE DecideLoad(r)
  <2>1. /\ UNCHANGED <<shared, call, wk>>
        /\ \/ Answer(r, 404) \/ Answer(r, 409) \/ Goto(r, "dismiss_commit")
           \/ Goto(r, "action_siblings") /\ call[r].flag \in DOMAIN flags
    BY <1>3 DEF DecideLoad
  <2>2. Goto(r, "action_siblings") /\ call[r].flag \in DOMAIN flags
    BY <2>1 DEF ReqState
  <2> QED
    BY <2>1, <2>2 DEF ReqState
<1>4. CASE ActionSiblings(r)
  BY <1>4 DEF ActionSiblings, ReqState
<1>5. CASE ActionResolve(r)
  <2>1. req' = [req EXCEPT ![r] = [@ EXCEPT !.pc = "action_photo",
                                            !.notes = req[r].flags,
                                            !.heldFlags = req[r].flags]]
    BY <1>5 DEF ActionResolve
  <2>2. req[r].pc = "action_resolve" /\ UNCHANGED <<shared, call, wk>>
    BY <1>5 DEF ActionResolve
  <2> QED
    BY <2>1, <2>2 DEF ReqState
<1>6. CASE ActionPhoto(r)
  BY <1>6 DEF ActionPhoto, ReqState
<1>7. CASE LockFlags(r)
  BY <1>7 DEF LockFlags, ReqState
<1>8. CASE LockPhoto(r)
  BY <1>8 DEF LockPhoto, ReqState
<1>9. CASE ActionCascade(r)
  BY <1>9 DEF ActionCascade, ReqState
<1>10. CASE ActionFiles(r) \/ ActionInvalidate(r)
  BY <1>10 DEF ActionFiles, ActionInvalidate, ReqState
<1> QED
  BY <1>2, <1>3, <1>4, <1>5, <1>6, <1>7, <1>8, <1>9, <1>10

LEMMA OwnersFlagKept ==
    ASSUME TypeInv, LockInv, RecordInv, NEW r \in Request, Acts(r)
    PROVE  OwnersFlag'
<1>0. /\ OwnersFlag /\ OwnsLoaded(r) /\ FlagsHavePhotos
      /\ Knows(req[r], DOMAIN photos, lastId)
  BY Facts DEF RecordInv, LockInv
<1>1. \A f \in DOMAIN flags :
         f[1] \in DOMAIN photos' => photos'[f[1]].owner = photos[f[1]].owner
  BY <1>0, PhotoRows DEF FlagsHavePhotos, UploadCommit, Knows, FreshSteps
<1>2. CASE /\ FlagCommit(r) /\ req[r].photo \in DOMAIN photos /\ UNCHANGED photos
           /\ DOMAIN flags' = DOMAIN flags \cup {<<req[r].photo, call[r].user>>}
  BY <1>0, <1>2 DEF OwnersFlag, OwnsLoaded, FlagCommit
<1>3. CASE DOMAIN flags' = {f \in DOMAIN flags : f[1] # req[r].photo}
           /\ DOMAIN photos' = DOMAIN photos \ {req[r].photo}
  BY <1>0, <1>1, <1>3 DEF OwnersFlag, FlagsHavePhotos
<1>4. CASE flags' = flags
  <2>1. \A f \in DOMAIN flags : f[1] \in DOMAIN photos'
    <3>1. CASE DeleteCommit(r) \/ ActionCommit(r)
      BY <1>4, <3>1, <1>0 DEF DeleteCommit, ActionCommit, FlagsHavePhotos, FlagsOf,
         Drop, Restrict
    <3>2. CASE PatchCommit(r) \/ photos' = photos \/ UploadCommit(r)
      BY <1>0, <3>2 DEF PatchCommit, UploadCommit, Put, FlagsHavePhotos
    <3> QED
      BY <3>1, <3>2, StepEffect DEF Effect, Stores
  <2> QED
    BY <1>0, <1>1, <1>4, <2>1 DEF OwnersFlag
<1>5. CASE DismissCommit(r) /\ DOMAIN flags' = DOMAIN flags
  BY <1>0, <1>5 DEF OwnersFlag, DismissCommit
<1> QED
  BY <1>2, <1>3, <1>4, <1>5, FlagRows

LEMMA BranchKept ==
    ASSUME TypeInv, LockInv, RecordInv, NEW a \in Request, Acts(a), NEW r \in Request
    PROVE  TakesBranch(r)'
<1>0. Effect(a) /\ TakesBranch(r)
  BY StepEffect DEF RecordInv
<1>1. CASE r # a
  BY <1>0, <1>1 DEF Effect, Stores, TakesBranch
<1>2. CASE r = a
  <2>0. /\ Effect(r) /\ req[r] \in ReqState /\ req \in [Request -> ReqState]
        /\ Fits(req[r], call[r], lastId) /\ call' = call
    BY <1>0, <1>2, RequestFacts DEF ActorsOK, Effect, Stores
  <2>1. CASE DecideLoad(r)
    <3>1. /\ call[r].op \in {"dismiss", "action"}
          /\ \/ Answer(r, 404) \/ Answer(r, 409)
             \/ Goto(r, "dismiss_commit") /\ call[r].op = "dismiss"
             \/ Goto(r, "action_siblings") /\ call[r].op # "dismiss"
      BY <2>0, <2>1 DEF DecideLoad, Fits, CallFits, DecideSteps, Decision
    <3> QED
      BY <2>0, <3>1 DEF TakesBranch, Goto, Answer, AnswerWith, RulingSteps,
         RemovedSteps, ReqState
  <2>2. CASE DeleteFlags(r)
    BY <2>0, <2>2 DEF DeleteFlags, Fits, CallFits, TakesBranch
  <2>3. CASE /\ req'[r].pc \in RulingSteps \cup {"dismiss_commit"}
             /\ ~DecideLoad(r) /\ ~DeleteFlags(r)
    <3>1. req[r].pc \in RulingSteps /\ req'[r].pc # "dismiss_commit"
      BY <2>0, <2>3 DEF Effect, Arrives, RulingSteps, RemovedSteps, ActionSiblings,
         ActionResolve, ActionPhoto, LockFlags, LockPhoto, ActionCascade,
         ActionFiles, ActionInvalidate
    <3> QED
      BY <1>0, <2>0, <3>1 DEF TakesBranch
  <2> QED
    BY <2>1, <2>2, <2>3 DEF TakesBranch
<1> QED
  BY <1>1, <1>2

LEMMA LoadedKept ==
    ASSUME TypeInv, LockInv, RecordInv, NEW a \in Request, Acts(a), NEW r \in Request
    PROVE  OwnsLoaded(r)'
<1>0. Effect(a) /\ OwnsLoaded(r)
  BY StepEffect DEF RecordInv
<1>1. CASE r # a
  BY <1>0, <1>1, Bystander DEF Effect, Stores, OwnsLoaded, Unbound
<1>2. CASE r = a
  <2>0. /\ Effect(r) /\ req[r] \in ReqState /\ req \in [Request -> ReqState]
    BY <1>0, <1>2, RequestFacts DEF ActorsOK
  <2>1. CASE req'[r].pc = "load_thumb"
    <3>1. LoadPhoto(r)
      BY <2>0, <2>1 DEF Effect, Arrives
    <3> QED
      BY <2>0, <2>1, <3>1 DEF LoadPhoto, OwnsLoaded, Answer, AnswerWith, shared,
         database, ReqState
  <2>2. CASE req'[r].pc = "flag_commit"
    <3>1. LoadThumb(r)
      BY <2>0, <2>2 DEF Effect, Arrives, ServeSteps
    <3>2. /\ req[r].pc = "load_thumb" /\ req'[r].photo = req[r].photo
          /\ UNCHANGED <<photos, call>>
      BY <2>0, <3>1 DEF LoadThumb, Goto, shared, database, ReqState
    <3> QED
      BY <1>0, <3>2 DEF OwnsLoaded
  <2> QED
    BY <2>1, <2>2 DEF OwnsLoaded
<1> QED
  BY <1>1, <1>2

LEMMA FindsKept ==
    ASSUME TypeInv, LockInv, RecordInv, NEW a \in Request, Acts(a), NEW r \in Request
    PROVE  FindsFlag(r)'
<1>0. Effect(a) /\ FindsFlag(r) /\ Places(req[r], call[r])
  BY StepEffect, Facts DEF RecordInv
<1>1. CASE r # a
  <2>1. SUFFICES ASSUME Acting(r), req[r].photo \in DOMAIN photos'
                 PROVE  call[r].flag \in DOMAIN flags'
    BY <1>0, <1>1 DEF Effect, Stores, FindsFlag, Acting
  <2>2. req[r].photo \in DOMAIN photos /\ call[r].flag[1] = req[r].photo
    BY <1>0, <1>1, <2>1, Bystander
       DEF Acting, RulingSteps, RemovedSteps, Unbound, Places, Decision
  <2>3. call[r].flag \in DOMAIN flags
    BY <1>0, <2>1, <2>2 DEF FindsFlag
  <2> QED
    BY <2>1, <2>2, <2>3, FlagRows
<1>2. CASE r = a
  BY <1>0, <1>2, ActingMoves DEF FindsFlag, Acting
<1> QED
  BY <1>1, <1>2

(* No flag is added to a photo an action is about to remove. *)
LEMMA NoNewFlag ==
    ASSUME TypeInv, LockInv, RecordInv, NEW a \in Request, Acts(a), NEW r \in Request,
           Acting(r), NEW f \in DOMAIN flags', f[1] = req[r].photo
    PROVE  f \in DOMAIN flags /\ flags'[f] \in {flags[f], "dismissed"}
<1>1. CASE FlagCommit(a) /\ f = <<req[a].photo, call[a].user>> /\ f \notin DOMAIN flags
           /\ req[a].photo \in DOMAIN photos
  <2>1. /\ OwnsLoaded(a) /\ FindsFlag(r) /\ OwnersFlag
        /\ Places(req[r], call[r])
    BY Facts DEF RecordInv
  <2>2. call[r].flag \in DOMAIN flags /\ call[r].flag[1] = req[r].photo
    BY <1>1, <2>1 DEF FindsFlag, Places, Acting, Decision
  <2>3. photos[req[a].photo].owner = call[a].user
    BY <1>1, <2>1 DEF OwnsLoaded, FlagCommit
  <2>4. call[r].flag[2] = f[2]
    BY <1>1, <2>1, <2>2, <2>3 DEF OwnersFlag
  <2>5. call[r].flag \in PhotoId \X User
    BY <2>2 DEF TypeInv, TypeOK, TablesOK, FlagId
  <2>6. call[r].flag = f
    BY <1>1, <2>2, <2>4, <2>5
  <2> QED
    BY <1>1, <2>2, <2>6
<1>2. CASE f \in DOMAIN flags
  BY <1>2, FlagRows
<1>3. CASE f \notin DOMAIN flags
  <2>1. CASE DismissCommit(a) /\ DOMAIN flags' = DOMAIN flags
    BY <1>3, <2>1
  <2>2. CASE /\ DeleteCommit(a) \/ ActionCommit(a)
             /\ DOMAIN flags' = {g \in DOMAIN flags : g[1] # req[a].photo}
    BY <1>3, <2>2
  <2>3. CASE /\ FlagCommit(a) /\ req[a].photo \in DOMAIN photos
             /\ DOMAIN flags' = DOMAIN flags \cup {<<req[a].photo, call[a].user>>}
    BY <1>1, <1>3, <2>3
  <2>4. CASE flags' = flags
    BY <1>3, <2>4
  <2> QED
    BY <2>1, <2>2, <2>3, <2>4, FlagRows
<1> QED
  BY <1>2, <1>3

LEMMA TellsKept ==
    ASSUME TypeInv, LockInv, RecordInv, NEW a \in Request, Acts(a), NEW r \in Request
    PROVE  TellsAll(r)'
<1>0. Effect(a) /\ TellsAll(r)
  BY StepEffect DEF RecordInv
<1>1. CASE r # a
  <2>1. SUFFICES ASSUME Acting(r), req[r].pc # "action_siblings",
                        NEW f \in DOMAIN flags', f[1] = req[r].photo,
                        flags'[f] = "pending"
                 PROVE  f \in IF req[r].pc = "action_resolve" THEN req[r].flags
                                                              ELSE req[r].notes
    BY <1>0, <1>1 DEF Effect, Stores, TellsAll, Acting
  <2>2. f \in DOMAIN flags /\ flags[f] = "pending"
    BY <2>1, NoNewFlag
  <2> QED
    BY <1>0, <2>1, <2>2 DEF TellsAll
<1>2. CASE r = a
  <2>1. SUFFICES ASSUME Acting(r)', req'[r].pc # "action_siblings",
                        NEW f \in DOMAIN flags', f[1] = req'[r].photo,
                        flags'[f] = "pending"
                 PROVE  f \in IF req'[r].pc = "action_resolve" THEN req'[r].flags
                                                               ELSE req'[r].notes
    BY DEF TellsAll
  <2> QED
    BY <1>0, <1>2, <2>1, ActingMoves DEF TellsAll, FlagsOf
<1> QED
  BY <1>1, <1>2

LEMMA HoldsKept ==
    ASSUME TypeInv, LockInv, RecordInv, NEW a \in Request, Acts(a), NEW r \in Request
    PROVE  HoldsTold(r)'
<1>0. Effect(a) /\ HoldsTold(r)
  BY StepEffect DEF RecordInv
<1>1. CASE r # a
  BY <1>0, <1>1 DEF Effect, Stores, HoldsTold, Acting
<1>2. CASE r = a
  <2>1. SUFFICES ASSUME Acting(r)',
                        req'[r].pc \notin {"action_siblings", "action_resolve"}
                 PROVE  req'[r].notes \subseteq req'[r].heldFlags
    BY DEF HoldsTold
  <2> QED
    BY <1>0, <1>2, <2>1, ActingMoves DEF HoldsTold
<1> QED
  BY <1>1, <1>2

(* The audit log and the outbox only grow, and by one decision's entries.  *)
LEMMA LogGrows ==
    ASSUME TypeInv, NEW a \in Request, Acts(a)
    PROVE  /\ audit \subseteq audit' /\ DOMAIN outbox \subseteq DOMAIN outbox'
           /\ audit' \subseteq audit \cup {AuditRow(a)}
           /\ audit' # audit => DismissCommit(a) \/ ActionCommit(a)
<1>1. CASE UNCHANGED <<audit, outbox>>
  BY <1>1
<1>2. CASE DismissCommit(a)
  BY <1>2 DEF DismissCommit, WithNotes
<1>3. CASE ActionCommit(a)
  BY <1>3 DEF ActionCommit, WithNotes
<1> QED
  BY <1>1, <1>2, <1>3, StepEffect DEF Effect, Stores

LEMMA ToldKept ==
    ASSUME TypeInv, NEW a \in Request, Acts(a), NEW f, Told(f)
    PROVE  Told(f)'
  BY LogGrows DEF Told

(* An action that finds the photo finds its flag as well: pending, hence   *)
(* among those it tells, or dismissed, hence told.                         *)
LEMMA InformsKept ==
    ASSUME TypeInv, LockInv, RecordInv, NEW a \in Request, Acts(a), NEW r \in Request
    PROVE  InformsReporter(r)'
<1>0. Effect(a) /\ InformsReporter(r) /\ call' = call
  BY StepEffect DEF RecordInv, Effect, Stores
<1>1. PICK f : f = call[r].flag
  OBVIOUS
<1>2. Told(f) => Told(f)'
  BY ToldKept
<1>3. CASE r # a
  BY <1>0, <1>1, <1>2, <1>3 DEF Effect, Stores, InformsReporter, Acting
<1>4. CASE r = a
  <2>0. /\ Effect(r) /\ FindsFlag(r) /\ TellsAll(r) /\ DismissedTold
        /\ Places(req[r], call[r]) /\ TablesOK
    BY <1>0, <1>4, Facts DEF RecordInv, TypeInv, TypeOK
  <2>1. SUFFICES ASSUME Acting(r)',
                        req'[r].pc \notin {"action_siblings", "action_resolve",
                                           "action_photo"}
                 PROVE  f \in req'[r].notes \/ Told(f)'
    BY <1>0, <1>1 DEF InformsReporter
  <2>2. /\ Acting(r) /\ req'[r].notes = req[r].notes
        /\ req[r].pc \notin {"action_siblings", "action_resolve"}
    BY <1>4, <2>1, ActingMoves
  <2>3. CASE req[r].pc # "action_photo"
    BY <1>0, <1>1, <1>2, <2>2, <2>3 DEF InformsReporter
  <2>4. CASE req[r].pc = "action_photo"
    <3>1. ActionPhoto(r)
      BY <2>0, <2>1, <2>4 DEF Effect, Arrives, Acting, RulingSteps, RemovedSteps,
         DeleteFlags, LockFlags, LockPhoto, ActionCascade, ActionFiles, ActionInvalidate
    <3>2. req[r].photo \in DOMAIN photos
      BY <2>1, <3>1 DEF ActionPhoto, Answer, AnswerWith, Acting, RulingSteps,
         RemovedSteps, TypeInv, TypeOK, ActorsOK, ReqState
    <3>3. f \in DOMAIN flags /\ f[1] = req[r].photo
      BY <1>1, <2>0, <2>2, <3>2 DEF FindsFlag, Places, Acting, Decision
    <3>4. flags[f] = "pending" => f \in req[r].notes
      BY <2>0, <2>2, <2>4, <3>3 DEF TellsAll
    <3>5. flags[f] \in {"pending", "dismissed"}
      BY <2>0, <3>3 DEF TablesOK
    <3> QED
      BY <1>2, <2>0, <2>2, <3>3, <3>4, <3>5 DEF DismissedTold
  <2> QED
    BY <2>3, <2>4
<1> QED
  BY <1>3, <1>4

LEMMA DismissedToldKept ==
    ASSUME TypeInv, LockInv, RecordInv, NEW a \in Request, Acts(a)
    PROVE  DismissedTold'
<1>1. SUFFICES ASSUME NEW f \in DOMAIN flags', flags'[f] = "dismissed"
               PROVE  Told(f)'
  BY DEF DismissedTold
<1>2. CASE f \in DOMAIN flags /\ flags[f] = "dismissed"
  BY <1>2, ToldKept DEF RecordInv, DismissedTold
<1>3. CASE ~(f \in DOMAIN flags /\ flags[f] = "dismissed")
  <2>1. ~FlagCommit(a)
    BY <1>1, <1>3 DEF FlagCommit, Put
  <2>2. DismissCommit(a)
    BY <1>1, <1>3, <2>1, FlagRows
  <2>3. f = call[a].flag /\ outbox' = WithNotes(a, {f})
    BY <1>1, <1>3, <2>2 DEF DismissCommit
  <2>4. <<a, f>> \in DOMAIN outbox'
    BY <2>3 DEF WithNotes
  <2> QED
    BY <2>4 DEF Told
<1> QED
  BY <1>2, <1>3

(* A decision is answered 200 only from the last step of decide. *)
LEMMA DecisionAnswered ==
    ASSUME TypeInv, NEW r \in Request, Acts(r), call[r].op \in Decision,
           req'[r].reply = 200, req[r].reply # 200
    PROVE  req[r].pc = "dispatch" /\ UNCHANGED audit
<1>0. /\ Fits(req[r], call[r], lastId) /\ req[r] \in ReqState
      /\ req \in [Request -> ReqState] /\ Effect(r)
  BY RequestFacts, StepEffect DEF ActorsOK
<1>1. Decided(r)
  BY <1>0 DEF Effect, Memory, GetCached, GetFill, PatchInvalidate, ThumbSend,
     FileSend, ThumbFileSend, Fits, CallFits, Decision, PhotoOps, LoadSteps,
     ServeSteps, PatchSteps
<1> QED
  BY <1>1 DEF Decided, shared, database

LEMMA RecordedKept ==
    ASSUME TypeInv, LockInv, RecordInv, NEW a \in Request, Acts(a), NEW r \in Request
    PROVE  Recorded(r)'
<1>0. Effect(a) /\ Recorded(r) /\ call' = call
  BY StepEffect DEF RecordInv, Effect, Stores
<1>1. AuditRow(r)' = AuditRow(r) /\ AuditRow(a).by = a
  BY <1>0 DEF AuditRow
<1>2. CASE r # a
  <2>1. req'[r] = req[r]
    BY <1>0, <1>2 DEF Effect, Stores
  <2>2. \A e \in audit' : e.by = r => e \in audit
    BY <1>1, <1>2, LogGrows
  <2> QED
    BY <1>0, <1>1, <2>1, <2>2, LogGrows DEF Recorded
<1>3. CASE r = a
  <2>0. /\ Effect(r) /\ req[r] \in ReqState /\ req \in [Request -> ReqState]
        /\ Acts(r)
    BY <1>0, <1>3, RequestFacts DEF ActorsOK
  <2>1. /\ req'[r].pc \in RuledSteps => AuditRow(r) \in audit'
        /\ req'[r].pc \in RuledSteps =>
              \A f \in req'[r].notes : <<r, f>> \in DOMAIN outbox'
    <3>1. CASE DismissCommit(r)
      <4>1. CASE Answer(r, 500)
        BY <2>0, <4>1 DEF Answer, AnswerWith, RuledSteps
      <4>2. CASE ~Answer(r, 500)
        BY <2>0, <3>1, <4>2 DEF DismissCommit, WithNotes, ReqState
      <4> QED
        BY <4>1, <4>2
    <3>2. CASE ActionCommit(r)
      <4>1. req'[r].notes = req[r].notes
        BY <2>0, <3>2 DEF ActionCommit, ReqState
      <4> QED
        BY <3>2, <4>1 DEF ActionCommit, WithNotes
    <3>3. CASE DecideRefresh(r)
      BY <1>0, <2>0, <3>3 DEF DecideRefresh, Goto, Answer, AnswerWith, Recorded,
         RuledSteps, shared, database, ReqState
    <3>4. CASE Dispatch(r)
      <4>1. PICK f \in req[r].notes : req' = [req EXCEPT ![r].notes = @ \ {f}]
        BY <3>4 DEF Dispatch
      <4>2. req[r].pc = "dispatch" /\ UNCHANGED database
        BY <3>4 DEF Dispatch
      <4> QED
        BY <1>0, <2>0, <4>1, <4>2 DEF Recorded, RuledSteps, database, ReqState
    <3> QED
      BY <2>0, <3>1, <3>2, <3>3, <3>4 DEF Effect, Arrives, RuledSteps
  <2>2. call[r].op \in Decision /\ req'[r].reply = 200 => AuditRow(r) \in audit'
    BY <1>0, <2>0, DecisionAnswered, LogGrows DEF Recorded, RuledSteps
  <2>3. req'[r].pc \notin RuledSteps \cup {"done", "crashed"} =>
           \A e \in audit' : e.by # r
    <3>1. SUFFICES ASSUME req'[r].pc \notin RuledSteps \cup {"done", "crashed"}
                   PROVE  \A e \in audit' : e.by # r
      OBVIOUS
    <3>3. audit' = audit
      BY <2>0, <3>1 DEF Effect, Stores, RuledSteps
    <3>4. req[r].pc \notin RuledSteps \cup {"done", "crashed"}
      <4>1. req[r].pc \notin Over
        BY <2>0 DEF Effect, Memory
      <4>2. req[r].pc \notin RuledSteps
        BY <2>0, <3>1 DEF Effect, Memory, Over
      <4> QED
        BY <4>1, <4>2 DEF Over
    <3> QED
      BY <1>0, <3>3, <3>4 DEF Recorded
  <2> QED
    BY <1>0, <1>1, <2>1, <2>2, <2>3 DEF Recorded
<1> QED
  BY <1>2, <1>3

LEMMA RemovedKept ==
    ASSUME TypeInv, LockInv, RecordInv, NEW a \in Request, Acts(a), Next
    PROVE  RemovedForGood'
<1>1. SUFFICES ASSUME NEW e \in audit', e.decision = "action"
               PROVE  Gone(e.flag[1])'
  BY DEF RemovedForGood
<1>2. CASE e \in audit
  BY <1>1, <1>2, GoneKept DEF RecordInv, RemovedForGood
<1>3. CASE e \notin audit
  <2>1. e = AuditRow(a) /\ call[a].op = "action" /\ e.flag = call[a].flag
    BY <1>1, <1>3, LogGrows DEF AuditRow
  <2>2. DismissCommit(a) \/ ActionCommit(a)
    BY <1>3, LogGrows
  <2>3. ActionCommit(a)
    BY <2>1, <2>2 DEF DismissCommit, RecordInv, TakesBranch
  <2>4. e.flag[1] = req[a].photo
    BY <2>1, Facts DEF Places, Decision
  <2>5. Given(req[a].photo)
    BY <2>3, KnownGiven DEF ActionCommit, Unbound, FreshSteps
  <2>6. PICK p : p = req[a].photo
    OBVIOUS
  <2>7. Given(p)'
    BY <2>5, <2>6, GivenKept
  <2> QED
    BY <2>3, <2>4, <2>6, <2>7 DEF Gone, ActionCommit, Drop, Restrict
<1> QED
  BY <1>2, <1>3

(* A flag decided on is deleted with its photo at most, an action's is. *)
LEMMA ResolvedKept ==
    ASSUME TypeInv, LockInv, RecordInv, NEW a \in Request, Acts(a), Next,
           NEW f, Resolved(f)
    PROVE  Resolved(f)'
<1>0. FlagsHavePhotos /\ FlagsHavePhotos'
  BY LockStep DEF LockInv
<1>1. PICK p : p = f[1]
  OBVIOUS
<1>2. CASE f \in DOMAIN flags
  <2>1. flags[f] = "dismissed" /\ p \in DOMAIN photos
    BY <1>0, <1>1, <1>2 DEF Resolved, FlagsHavePhotos
  <2>2. Given(p)'
    BY <2>1, VisibleGiven, GivenKept
  <2>3. \/ f \in DOMAIN flags' /\ flags'[f] = "dismissed"
        \/ f \notin DOMAIN flags' /\ p \notin DOMAIN photos'
    BY <1>1, <1>2, <2>1, FlagRows
  <2> QED
    BY <1>1, <2>2, <2>3 DEF Resolved, Gone
<1>3. CASE f \notin DOMAIN flags
  <2>1. Gone(p)'
    BY <1>1, <1>3, GoneKept DEF Resolved
  <2>2. f \notin DOMAIN flags'
    BY <1>0, <1>1, <2>1 DEF FlagsHavePhotos, Gone
  <2> QED
    BY <1>1, <2>1, <2>2 DEF Resolved
<1> QED
  BY <1>2, <1>3

LEMMA DecidedKept ==
    ASSUME TypeInv, LockInv, RecordInv, NEW a \in Request, Acts(a), Next
    PROVE  DecidedForGood'
<1>1. SUFFICES ASSUME NEW e \in audit'
               PROVE  /\ Resolved(e.flag)' /\ Told(e.flag)'
                      /\ e.decision = "dismiss" => <<e.by, e.flag>> \in DOMAIN outbox'
  BY DEF DecidedForGood
<1>2. PICK f : f = e.flag
  OBVIOUS
<1>3. CASE e \in audit
  <2>1. /\ Resolved(f) /\ Told(f)
        /\ e.decision = "dismiss" => <<e.by, f>> \in DOMAIN outbox
    BY <1>2, <1>3 DEF RecordInv, DecidedForGood
  <2> QED
    BY <1>2, <2>1, ResolvedKept, ToldKept, LogGrows
<1>4. CASE e \notin audit
  <2>1. /\ e.by = a /\ f = call[a].flag /\ e.decision = call[a].op
        /\ DismissCommit(a) \/ ActionCommit(a)
    BY <1>2, <1>4, LogGrows DEF AuditRow
  <2>2. CASE DismissCommit(a)
    <3>1. f \in DOMAIN flags
      BY <1>4, <2>1, <2>2 DEF DismissCommit
    <3>2. f \in DOMAIN flags' /\ flags'[f] = "dismissed" /\ outbox' = WithNotes(a, {f})
      BY <2>1, <2>2, <3>1 DEF DismissCommit
    <3>3. <<a, f>> \in DOMAIN outbox'
      BY <3>2 DEF WithNotes
    <3> QED
      BY <1>2, <2>1, <3>2, <3>3 DEF Resolved, Told
  <2>3. CASE ActionCommit(a)
    <3>1. call[a].op = "action" /\ Acting(a)
      BY <2>3, RequestFacts DEF ActionCommit, RecordInv, TakesBranch, Acting,
         RulingSteps, RemovedSteps, Fits, CallFits, DecideSteps, Decision
    <3>2. Gone(f[1])'
      BY <1>2, <2>1, <3>1, RemovedKept DEF RemovedForGood
    <3>3. Resolved(f)'
      BY <3>2, LockStep DEF Resolved, LockInv, FlagsHavePhotos, Gone
    <3>4. f \in req[a].notes \/ Told(f)
      BY <2>1, <2>3, <3>1 DEF ActionCommit, RecordInv, InformsReporter
    <3>5. f \in req[a].notes => <<a, f>> \in DOMAIN outbox'
      BY <2>3 DEF ActionCommit, WithNotes
    <3>6. Told(f)'
      BY <3>4, <3>5, ToldKept DEF Told
    <3> QED
      BY <1>2, <2>1, <3>1, <3>3, <3>6
  <2> QED
    BY <2>1, <2>2, <2>3
<1> QED
  BY <1>3, <1>4

(* The job of a notification carries the key of a row that is there. *)
LEMMA JobRowKept ==
    ASSUME TypeInv, LockInv, RecordInv, NEW a \in Request, Acts(a)
    PROVE  NoteJobHasRow'
<1>0. Effect(a) /\ DOMAIN outbox \subseteq DOMAIN outbox' /\ NoteJobHasRow /\ IsABag(queue)
  BY StepEffect, LogGrows DEF RecordInv, TypeInv, TypeOK, StoresOK
<1>1. \A m \in DOMAIN queue' \cap NoteMessage : m.note \in DOMAIN outbox'
  <2>1. CASE queue' = queue
    BY <1>0, <2>1 DEF NoteJobHasRow
  <2>2. CASE UploadEnqueue(a)
    <3> DEFINE m == [photo |-> req[a].photo, retries |-> 0]
    <3>1. m \notin NoteMessage
      BY DEF NoteMessage
    <3>2. queue' = BagAdd(queue, m)
      BY <2>2 DEF UploadEnqueue, Publish
    <3> HIDE DEF m
    <3>3. DOMAIN queue' = DOMAIN queue \cup {m}
      BY <1>0, <3>2, BagAddType
    <3> QED
      BY <1>0, <3>1, <3>3 DEF NoteJobHasRow
  <2>3. CASE Dispatch(a)
    <3>1. PICK f \in req[a].notes : queue' = BagAdd(queue, [note |-> <<a, f>>, retries |-> 0])
      BY <2>3 DEF Dispatch, Publish
    <3>2. <<a, f>> \in DOMAIN outbox
      BY <2>3, <3>1 DEF Dispatch, RecordInv, Recorded, RuledSteps
    <3>3. DOMAIN queue' = DOMAIN queue \cup {[note |-> <<a, f>>, retries |-> 0]}
      BY <1>0, <3>1, BagAddType
    <3> QED
      BY <1>0, <3>2, <3>3 DEF NoteJobHasRow
  <2> QED
    BY <1>0, <2>1, <2>2, <2>3 DEF Effect, Stores
<1>2. wk' = wk
  BY <1>0 DEF Effect, Stores
<1> QED
  BY <1>0, <1>1, <1>2 DEF NoteJobHasRow

LEMMA WorkerJobRowKept ==
    ASSUME TypeInv, RecordInv, NEW w \in Worker, WorkerActs(w)
    PROVE  NoteJobHasRow'
<1>0. /\ WorkerEffect(w) /\ NoteJobHasRow /\ IsABag(queue)
      /\ wk \in [Worker -> WorkerState]
      /\ wk[w].pc # "idle" => wk[w].msg \in Message
      /\ None \notin Message
  BY WorkerStepEffect, WorkerFacts, NoneAssumption
     DEF RecordInv, TypeInv, TypeOK, StoresOK, ActorsOK, MessageFits
<1>1. DOMAIN outbox' = DOMAIN outbox
  BY <1>0 DEF WorkerEffect, WorkerStores
<1>2. /\ \A m \in DOMAIN queue' \cap NoteMessage : m.note \in DOMAIN outbox
      /\ wk'[w].msg \in NoteMessage => wk'[w].msg.note \in DOMAIN outbox
  <2>1. CASE TakeThumb(w) \/ TakeNote(w)
    <3>1. PICK m \in DOMAIN queue :
             /\ queue' = BagRemove(queue, m)
             /\ wk'[w].msg = m
      <4>1. CASE TakeThumb(w)
        BY <1>0, <4>1 DEF TakeThumb, IdleWorker
      <4>2. CASE TakeNote(w)
        BY <1>0, <4>2 DEF TakeNote, IdleWorker
      <4> QED
        BY <2>1, <4>1, <4>2
    <3>2. DOMAIN queue' \subseteq DOMAIN queue
      BY <1>0, <3>1, BagRemoveType
    <3> QED
      BY <1>0, <3>1, <3>2 DEF NoteJobHasRow
  <2>2. CASE ~TakeThumb(w) /\ ~TakeNote(w)
    <3>1. wk'[w].msg \in NoteMessage => wk'[w].msg.note \in DOMAIN outbox
      BY <1>0, <2>2 DEF WorkerEffect, WorkerMemory, IdleWorker, NoteJobHasRow,
         Message
    <3>2. CASE Retry(w)
      <4>1. CASE queue' = queue
        BY <1>0, <3>1, <4>1 DEF NoteJobHasRow
      <4>2. CASE queue' = BagAdd(queue, [wk[w].msg EXCEPT !.retries = @ + 1])
        <5>1. wk[w].msg \in ThumbMessage \cup NoteMessage
          BY <1>0, <3>2 DEF Retry, Message
        <5>2. [wk[w].msg EXCEPT !.retries = @ + 1] \in NoteMessage =>
                 /\ wk[w].msg \in NoteMessage
                 /\ [wk[w].msg EXCEPT !.retries = @ + 1].note = wk[w].msg.note
          BY <5>1 DEF ThumbMessage, NoteMessage
        <5>3. DOMAIN queue' =
                 DOMAIN queue \cup {[wk[w].msg EXCEPT !.retries = @ + 1]}
          BY <1>0, <4>2, BagAddType
        <5> QED
          BY <1>0, <3>1, <4>2, <5>2, <5>3 DEF NoteJobHasRow
      <4> QED
        BY <3>2, <4>1, <4>2 DEF Retry, Publish
    <3>3. CASE WorkerCrash(w) \/ Redeliver(w)
      <4>1. queue' = BagAdd(queue, wk[w].msg)
        BY <3>3 DEF WorkerCrash, Redeliver, Publish
      <4>2. DOMAIN queue' = DOMAIN queue \cup {wk[w].msg}
        BY <1>0, <4>1, BagAddType
      <4> QED
        BY <1>0, <3>1, <4>2 DEF NoteJobHasRow
    <3>4. CASE queue' = queue
      BY <1>0, <3>1, <3>4 DEF NoteJobHasRow
    <3> QED
      BY <1>0, <2>2, <3>2, <3>3, <3>4 DEF WorkerEffect, WorkerStores
  <2> QED
    BY <2>1, <2>2
<1>3. \A v \in Worker \ {w} : wk'[v] = wk[v]
  BY <1>0 DEF WorkerEffect, WorkerStores
<1> QED
  BY <1>0, <1>1, <1>2, <1>3 DEF NoteJobHasRow

LEMMA RecordStep == TypeInv /\ LockInv /\ RecordInv /\ [Next]_vars => RecordInv'
<1> SUFFICES ASSUME TypeInv, LockInv, RecordInv, [Next]_vars PROVE RecordInv'
  OBVIOUS
<1>1. CASE \E a \in Request : Acts(a)
  <2>1. PICK a \in Request : Acts(a)
    BY <1>1
  <2>2. Next
    BY <2>1 DEF Next, Acts
  <2> QED
    BY <2>1, <2>2, OwnersFlagKept, BranchKept, LoadedKept, FindsKept, TellsKept,
       HoldsKept, InformsKept, RecordedKept, RemovedKept, DecidedKept,
       DismissedToldKept, JobRowKept DEF RecordInv
<1>2. CASE \E w \in Worker : WorkerActs(w)
  <2>1. PICK w \in Worker : WorkerActs(w)
    BY <1>2
  <2>2. /\ UNCHANGED <<lastId, flags, audit, call, req>>
        /\ DOMAIN photos' = DOMAIN photos /\ DOMAIN outbox' = DOMAIN outbox
        /\ \A p \in DOMAIN photos : photos'[p].owner = photos[p].owner
    BY <2>1, WorkerStepEffect DEF WorkerEffect, WorkerStores
  <2>3. OwnersFlag' /\ RemovedForGood' /\ DecidedForGood' /\ DismissedTold'
    BY <2>2 DEF RecordInv, LockInv, FlagsHavePhotos, OwnersFlag, RemovedForGood,
       DecidedForGood, DismissedTold, Resolved, Told, Gone, Given
  <2>4. ASSUME NEW r \in Request
        PROVE  /\ TakesBranch(r)' /\ OwnsLoaded(r)' /\ FindsFlag(r)'
               /\ TellsAll(r)' /\ HoldsTold(r)' /\ InformsReporter(r)'
               /\ Recorded(r)'
    BY <2>2 DEF RecordInv, TakesBranch, OwnsLoaded, FindsFlag, TellsAll, HoldsTold,
       InformsReporter, Told, Recorded, Acting, AuditRow
  <2> QED
    BY <2>1, <2>3, <2>4, WorkerJobRowKept DEF RecordInv
<1>3. CASE Quiet
  BY <1>3 DEF Quiet, RecordInv, TakesBranch, OwnsLoaded, FindsFlag, TellsAll,
     HoldsTold, InformsReporter, Recorded, Acting, AuditRow, OwnersFlag,
     RemovedForGood, DecidedForGood, DismissedTold, Resolved, Told, Gone, Given,
     NoteJobHasRow
<1> QED
  BY <1>1, <1>2, <1>3, StepCases

LEMMA RecordInit == Init => RecordInv
<1> SUFFICES ASSUME Init PROVE RecordInv
  OBVIOUS
<1>1. OwnersFlag
  BY SeedAssumption DEF Init, OwnersFlag
<1>2. RemovedForGood /\ DecidedForGood /\ DismissedTold
  BY DEF Init, RemovedForGood, DecidedForGood, DismissedTold
<1>3. NoteJobHasRow
  <2>1. \A m \in DOMAIN queue : m \notin NoteMessage
    <3>1. \A m \in DOMAIN queue : \E p : m = [photo |-> p, retries |-> 0]
      BY DEF Init
    <3>2. \A p : [photo |-> p, retries |-> 0] \notin NoteMessage
      BY DEF NoteMessage
    <3> QED
      BY <3>1, <3>2
  <2>2. \A w \in Worker : wk[w].msg \notin NoteMessage
    BY NoneAssumption DEF Init, IdleWorker, Message
  <2> QED
    BY <2>1, <2>2 DEF NoteJobHasRow
<1>4. ASSUME NEW r \in Request
      PROVE  /\ TakesBranch(r) /\ OwnsLoaded(r) /\ FindsFlag(r)
             /\ TellsAll(r) /\ HoldsTold(r) /\ InformsReporter(r) /\ Recorded(r)
  <2>1. req[r].pc \in {"upload", "get", "decide", "load_photo"} /\ req[r].reply = 0
    BY DEF Init, Fresh, FirstStep
  <2> QED
    BY <2>1 DEF Init, TakesBranch, OwnsLoaded, FindsFlag, TellsAll, HoldsTold,
       InformsReporter, Recorded, Acting, RulingSteps, RemovedSteps, RuledSteps
<1> QED
  BY <1>1, <1>2, <1>3, <1>4 DEF RecordInv

(* A photo has its owner's flag at most, an action tells everyone who is   *)
(* waiting, and what was decided is on record.                             *)
THEOREM RecordInvCorrect == Spec => []RecordInv
  BY TypeInvCorrect, LockInvCorrect, RecordInit, RecordStep, PTL DEF Spec

(* A decision answered 200 has its audit row; its flag is dismissed or     *)
(* gone; a dismissal's notice is in the outbox, as is a notice to the      *)
(* reporter after an action; and the photo an action was answered 200 for  *)
(* never comes back.                                                       *)
THEOREM DecisionStands == Spec => []AnsweredDecisionStands
<1>1. TypeInv /\ LockInv /\ RecordInv => AnsweredDecisionStands
  <2>1. SUFFICES ASSUME TypeInv, LockInv, RecordInv, NEW r \in Request,
                        call[r].op \in Decision, req[r].reply = 200
                 PROVE  /\ AuditRow(r) \in audit
                        /\ call[r].flag \in DOMAIN flags =>
                              flags[call[r].flag] = "dismissed"
                        /\ Told(call[r].flag)
                        /\ call[r].op = "dismiss" => <<r, call[r].flag>> \in DOMAIN outbox
                        /\ call[r].op = "action" => req[r].photo \notin DOMAIN photos
    BY DEF AnsweredDecisionStands, Decision
  <2>2. AuditRow(r) \in audit
    BY <2>1 DEF RecordInv, Recorded
  <2>3. req[r].photo = call[r].flag[1]
    BY <2>1, Facts DEF Places
  <2>4. /\ AuditRow(r).decision = call[r].op /\ AuditRow(r).by = r
        /\ AuditRow(r).flag = call[r].flag
    BY DEF AuditRow
  <2>5. call[r].op = "action" => Gone(call[r].flag[1])
    BY <2>1, <2>2, <2>4 DEF RecordInv, RemovedForGood
  <2>6. /\ Resolved(call[r].flag) /\ Told(call[r].flag)
        /\ call[r].op = "dismiss" => <<r, call[r].flag>> \in DOMAIN outbox
    BY <2>1, <2>2, <2>4 DEF RecordInv, DecidedForGood
  <2> QED
    BY <2>2, <2>3, <2>5, <2>6 DEF Gone, Resolved
<1> QED
  BY <1>1, TypeInvCorrect, LockInvCorrect, RecordInvCorrect, PTL

(* deliver never finds the row of its notification missing: jobs are       *)
(* enqueued after the commit that creates the row.                         *)
THEOREM NoteRowFound == Spec => []NoteJobHasRow
<1>1. RecordInv => NoteJobHasRow
  BY DEF RecordInv
<1> QED
  BY <1>1, RecordInvCorrect, PTL

---------------------------------------------------------------------------
(* The requests implement the Ledger.                                      *)

\* What the Ledger sees of the state.
SameLedger ==
    /\ lastId' = lastId /\ UploadIds' = UploadIds /\ DOMAIN photos' = DOMAIN photos
    /\ UNCHANGED <<flags, audit>> /\ DOMAIN outbox' = DOMAIN outbox

LEMMA UnseenStep ==
    ASSUME SameLedger
    PROVE  [L!Next]_L!ledger
  BY DEF SameLedger, L!ledger

LEMMA SameUploads ==
    ASSUME TypeInv, NEW r \in Request, Acts(r),
           req[r].pc \notin FreshSteps, req'[r].pc \notin FreshSteps
    PROVE  UploadIds' = UploadIds
<1>1. \A o \in Request \ {r} : req'[o] = req[o]
  BY StepEffect DEF Effect, Stores
<1> QED
  BY <1>1 DEF UploadIds, FreshSteps

(* An upload ends: its id is no upload's any more. *)
LEMMA UploadEnds ==
    ASSUME TypeInv, LockInv, NEW r \in Request, Acts(r),
           req[r].pc \in FreshSteps, req'[r].pc \notin FreshSteps
    PROVE  /\ req[r].photo \in UploadIds
           /\ UploadIds' = UploadIds \ {req[r].photo}
<1>1. \A o \in Request \ {r} : req'[o] = req[o]
  BY StepEffect DEF Effect, Stores
<1>2. \A o \in Request \ {r} :
         req[o].pc \in FreshSteps => req[o].photo # req[r].photo
  BY DEF LockInv, Apart, FreshSteps, Unbound
<1> QED
  BY <1>1, <1>2 DEF UploadIds, FreshSteps

LEMMA ReserveStep ==
    ASSUME TypeInv, LockInv, NEW r \in Request, Acts(r), UploadFlush(r)
    PROVE  [L!Next]_L!ledger
<1>0. /\ Effect(r) /\ req[r] \in ReqState /\ req \in [Request -> ReqState]
      /\ lastId \in Nat /\ MaxPhotos \in Nat
  BY StepEffect, RequestFacts DEF ActorsOK
<1>1. /\ lastId' = lastId + 1 /\ lastId < MaxPhotos
      /\ req[r].pc = "upload"
      /\ req'[r].pc = "upload_write" /\ req'[r].photo = lastId + 1
      /\ UNCHANGED <<photos, flags, audit, outbox>>
  BY <1>0 DEF UploadFlush, ReqState
<1>2. \A o \in Request \ {r} : req'[o] = req[o]
  BY <1>0 DEF Effect, Stores
<1>3. UploadIds' = UploadIds \cup {lastId + 1}
  BY <1>1, <1>2 DEF UploadIds
<1>4. lastId + 1 \in PhotoId /\ lastId + 1 \in PhotoId \ (1..lastId)
  BY <1>0, <1>1 DEF PhotoId
<1>5. PhotoId \ (1..lastId') = (PhotoId \ (1..lastId)) \ {lastId + 1}
  BY <1>0, <1>1 DEF PhotoId
<1>6. L!Reserve(lastId + 1)
  BY <1>1, <1>3, <1>4, <1>5 DEF L!Reserve
<1> QED
  BY <1>4, <1>6 DEF L!Next

LEMMA PublishStep ==
    ASSUME TypeInv, LockInv, NEW r \in Request, Acts(r), UploadCommit(r)
    PROVE  [L!Next]_L!ledger
<1>0. req[r] \in ReqState /\ req \in [Request -> ReqState] /\ 1..lastId \subseteq PhotoId
  BY RequestFacts DEF ActorsOK
<1>1. /\ req[r].pc \in FreshSteps /\ req'[r].pc \notin FreshSteps
      /\ DOMAIN photos' = DOMAIN photos \cup {req[r].photo}
      /\ UNCHANGED <<lastId, flags, audit, outbox>>
  BY <1>0 DEF UploadCommit, Put, Goto, FreshSteps, ReqState
<1>2. req[r].photo \in PhotoId
  BY <1>0, <1>1, Facts DEF Knows, FreshSteps, Unbound
<1>3. L!Publish(req[r].photo)
  BY <1>1, UploadEnds DEF L!Publish
<1> QED
  BY <1>2, <1>3 DEF L!Next

(* The row of an upload that fails or dies never becomes visible.          *)
LEMMA GiveUpStep ==
    ASSUME TypeInv, LockInv, NEW r \in Request, Acts(r),
           req[r].pc \in FreshSteps, req'[r].pc \notin FreshSteps, ~UploadCommit(r)
    PROVE  [L!Next]_L!ledger
<1>0. /\ Effect(r) /\ 1..lastId \subseteq PhotoId
  BY StepEffect, RequestFacts
<1>1. UNCHANGED <<lastId, photos, flags, audit, outbox>>
  BY <1>0 DEF Effect, Stores, FreshSteps, UploadFlush, PatchCommit, DeleteCommit,
     ActionCommit, FlagCommit, DismissCommit
<1>2. req[r].photo \in PhotoId
  BY <1>0, Facts DEF Knows, FreshSteps, Unbound
<1>3. L!GiveUp(req[r].photo)
  BY <1>1, UploadEnds DEF L!GiveUp
<1> QED
  BY <1>2, <1>3 DEF L!Next

LEMMA FileStep ==
    ASSUME TypeInv, LockInv, NEW r \in Request, Acts(r), FlagCommit(r)
    PROVE  [L!Next]_L!ledger
<1>0. /\ Effect(r) /\ req[r] \in ReqState /\ req \in [Request -> ReqState]
      /\ Fits(req[r], call[r], lastId) /\ call[r] \in Call
      /\ 1..lastId \subseteq PhotoId
  BY StepEffect, RequestFacts DEF ActorsOK
<1>1. req[r].pc = "flag_commit" /\ UNCHANGED <<photos, lastId, audit, outbox>>
  BY DEF FlagCommit
<1>2. req'[r].pc \notin FreshSteps
  BY <1>0, <1>1 DEF Effect, Arrives, FreshSteps, UploadFlush, UploadWrite
<1>3. UploadIds' = UploadIds
  BY <1>1, <1>2, SameUploads DEF FreshSteps
<1>4. CASE flags' = flags
  BY <1>1, <1>3, <1>4, UnseenStep DEF SameLedger
<1>5. CASE flags' # flags
  <2> DEFINE f == <<req[r].photo, call[r].user>>
  <2>1. /\ req[r].photo \in DOMAIN photos /\ f \notin DOMAIN flags
        /\ flags' = [g \in DOMAIN flags \cup {f} |-> IF g = f THEN "pending" ELSE flags[g]]
    BY <1>5 DEF FlagCommit, Put
  <2>2. call[r].user \in User /\ req[r].photo \in PhotoId
    BY <1>0, <1>1, <2>1, CallFields, Facts
       DEF Fits, CallFits, ServeSteps, PhotoOps, PhotoCall, Knows, Unbound
  <2>3. f \in PhotoId \X User /\ f[1] = req[r].photo
    BY <2>2
  <2> HIDE DEF f
  <2>4. L!File(f)
    BY <1>1, <1>3, <2>1, <2>3 DEF L!File
  <2> QED
    BY <2>3, <2>4 DEF L!Next
<1> QED
  BY <1>4, <1>5

LEMMA WithdrawStep ==
    ASSUME TypeInv, LockInv, NEW r \in Request, Acts(r), DeleteCommit(r)
    PROVE  [L!Next]_L!ledger
<1>0. /\ req[r] \in ReqState /\ req \in [Request -> ReqState]
      /\ 1..lastId \subseteq PhotoId
      /\ flags \in [DOMAIN flags -> {"pending", "dismissed"}]
  BY RequestFacts DEF ActorsOK, TablesOK
<1>1. /\ req[r].pc = "cascade" /\ req'[r].pc = "delete_files"
      /\ UNCHANGED <<lastId, audit, outbox>>
      /\ photos' = Drop(photos, {req[r].photo})
      /\ flags' = Drop(flags, FlagsOf(req[r].photo))
  BY <1>0 DEF DeleteCommit, ReqState
<1>2. UploadIds' = UploadIds
  BY <1>1, SameUploads DEF FreshSteps
<1>3. DOMAIN photos' = DOMAIN photos \ {req[r].photo}
  BY <1>1 DEF Drop, Restrict
<1>4. CASE req[r].photo \in DOMAIN photos
  <2>1. flags' = L!Without(req[r].photo)
    BY <1>1 DEF Drop, FlagsOf, L!Without, L!On, Restrict, L!Restrict
  <2>2. req[r].photo \in PhotoId
    BY <1>0, <1>1, Facts DEF Knows, Unbound
  <2>3. L!Withdraw(req[r].photo)
    BY <1>1, <1>2, <1>3, <1>4, <2>1 DEF L!Withdraw
  <2> QED
    BY <2>2, <2>3 DEF L!Next
<1>5. CASE req[r].photo \notin DOMAIN photos
  <2>1. FlagsOf(req[r].photo) = {}
    BY <1>5 DEF LockInv, FlagsHavePhotos, FlagsOf
  <2>2. flags' = flags
    BY <1>0, <1>1, <2>1 DEF Drop, Restrict
  <2> QED
    BY <1>1, <1>2, <1>3, <1>5, <2>2, UnseenStep DEF SameLedger
<1> QED
  BY <1>4, <1>5

LEMMA DismissStep ==
    ASSUME TypeInv, LockInv, RecordInv, NEW r \in Request, Acts(r), DismissCommit(r)
    PROVE  [L!Next]_L!ledger
<1>0. /\ Effect(r) /\ req[r] \in ReqState /\ req \in [Request -> ReqState]
      /\ DOMAIN flags \subseteq PhotoId \X User
  BY StepEffect, RequestFacts DEF ActorsOK, TablesOK, FlagId
<1>1. /\ req[r].pc = "dismiss_commit" /\ UNCHANGED <<photos, lastId>>
  BY DEF DismissCommit
<1>2. req'[r].pc \notin FreshSteps
  BY <1>0, <1>1 DEF Effect, Arrives, FreshSteps, UploadFlush, UploadWrite
<1>3. UploadIds' = UploadIds
  BY <1>1, <1>2, SameUploads DEF FreshSteps
<1>4. CASE call[r].flag \notin DOMAIN flags
  BY <1>1, <1>3, <1>4, UnseenStep DEF SameLedger, DismissCommit
<1>5. CASE call[r].flag \in DOMAIN flags
  <2>1. /\ flags' = [flags EXCEPT ![call[r].flag] = "dismissed"]
        /\ audit' = audit \cup {AuditRow(r)}
        /\ outbox' = WithNotes(r, {call[r].flag})
    BY <1>5 DEF DismissCommit
  <2>2. AuditRow(r) = [by |-> r, flag |-> call[r].flag, decision |-> "dismiss"]
    BY <1>1 DEF AuditRow, RecordInv, TakesBranch
  <2>3. DOMAIN outbox' = DOMAIN outbox \cup {<<r, call[r].flag>>}
    BY <2>1 DEF WithNotes
  <2>4. L!Unruled(r)
    BY <1>1 DEF L!Unruled, RecordInv, Recorded, RuledSteps
  <2>5. L!Dismiss(r, call[r].flag)
    BY <1>1, <1>3, <1>5, <2>1, <2>2, <2>3, <2>4 DEF L!Dismiss
  <2> QED
    BY <1>0, <1>5, <2>5 DEF L!Next
<1> QED
  BY <1>4, <1>5

(* An action at its commit removes a photo that is there with the flag it  *)
(* is about, telling the flags it resolved, or nothing and tells nobody.   *)
LEMMA RemoveStep ==
    ASSUME TypeInv, LockInv, RecordInv, NEW r \in Request, Acts(r), ActionCommit(r)
    PROVE  [L!Next]_L!ledger
<1> DEFINE p == req[r].photo
           f == call[r].flag
<1>0. /\ Effect(r) /\ req[r] \in ReqState /\ req \in [Request -> ReqState]
      /\ Fits(req[r], call[r], lastId) /\ call[r] \in Call
      /\ Places(req[r], call[r]) /\ Keeps(req[r], DOMAIN photos, DOMAIN flags)
      /\ flags \in [DOMAIN flags -> {"pending", "dismissed"}]
  BY StepEffect, RequestFacts, Facts DEF ActorsOK, TablesOK
<1>1. /\ req[r].pc = "action_commit" /\ req'[r].pc = "decide_refresh"
      /\ photos' = Drop(photos, {p}) /\ flags' = Drop(flags, FlagsOf(p))
      /\ audit' = audit \cup {AuditRow(r)} /\ outbox' = WithNotes(r, req[r].notes)
      /\ UNCHANGED lastId
  BY <1>0 DEF ActionCommit, ReqState
<1>2. call[r].op = "action" /\ Acting(r) /\ f[1] = p
  BY <1>0, <1>1 DEF RecordInv, TakesBranch, Fits, CallFits, DecideSteps, Decision,
     RulingSteps, RemovedSteps, Acting, Places
<1>3. UploadIds' = UploadIds
  BY <1>1, SameUploads DEF FreshSteps
<1>4. AuditRow(r) = [by |-> r, flag |-> f, decision |-> "action"]
  BY <1>2 DEF AuditRow
<1>5. L!Unruled(r)
  BY <1>1 DEF L!Unruled, RecordInv, Recorded, RuledSteps
<1>6. DOMAIN photos' = DOMAIN photos \ {p}
  BY <1>1 DEF Drop, Restrict
<1>7. DOMAIN outbox' = DOMAIN outbox \cup {<<r, g>> : g \in req[r].notes}
  BY <1>1 DEF WithNotes
<1>8. /\ req[r].notes \subseteq DOMAIN flags
      /\ \A g \in req[r].notes : g[1] = p
  BY <1>0, <1>1, <1>2 DEF RecordInv, HoldsTold, Places, Keeps
<1>9. f \in PhotoId \X User /\ Given(p)
  BY <1>0, <1>1, <1>2, CallFields, KnownGiven
     DEF Decision, DecideCall, FlagId, Unbound, FreshSteps
<1>10. CASE p \in DOMAIN photos
  <2>1. f \in DOMAIN flags
    BY <1>2, <1>10 DEF RecordInv, FindsFlag
  <2>2. flags' = L!Without(f[1])
    BY <1>1, <1>2 DEF Drop, FlagsOf, L!Without, L!On, Restrict, L!Restrict
  <2>3. L!Waiting(f[1]) \subseteq req[r].notes
    BY <1>1, <1>2 DEF L!Waiting, L!On, RecordInv, TellsAll
  <2>4. req[r].notes \in SUBSET L!On(f[1])
    BY <1>2, <1>8 DEF L!On
  <2>5. DOMAIN outbox' = DOMAIN outbox \cup ({r} \X req[r].notes)
    BY <1>7
  <2> HIDE DEF p, f
  <2>6. L!Remove(r, f)
    BY <1>1, <1>2, <1>3, <1>4, <1>5, <1>6, <1>10, <2>1, <2>2, <2>3, <2>4, <2>5
       DEF L!Remove
  <2> QED
    BY <1>9, <2>6 DEF L!Next
<1>11. CASE p \notin DOMAIN photos
  <2>1. req[r].notes = {} /\ FlagsOf(p) = {}
    BY <1>8, <1>11 DEF LockInv, FlagsHavePhotos, FlagsOf
  <2>2. flags' = flags
    BY <1>0, <1>1, <2>1 DEF Drop, Restrict
  <2>3. DOMAIN outbox' = DOMAIN outbox
    BY <1>7, <2>1
  <2>4. DOMAIN photos' = DOMAIN photos
    BY <1>6, <1>11
  <2>5. f[1] \notin DOMAIN photos \cup (PhotoId \ (1..lastId)) \cup UploadIds
    BY <1>2, <1>9, <1>11 DEF Given, UploadIds, FreshSteps
  <2> HIDE DEF p, f
  <2>6. L!RemoveInVain(r, f)
    BY <1>1, <1>3, <1>4, <1>5, <2>2, <2>3, <2>4, <2>5 DEF L!RemoveInVain
  <2> QED
    BY <1>9, <2>6 DEF L!Next
<1> QED
  BY <1>10, <1>11

LEMMA LedgerStep ==
    ASSUME TypeInv, LockInv, RecordInv, [Next]_vars
    PROVE  [L!Next]_L!ledger
<1>1. CASE \E r \in Request : Acts(r)
  <2>1. PICK r \in Request : Acts(r)
    BY <1>1
  <2>2. Effect(r)
    BY <2>1, StepEffect
  <2>3. CASE \/ UploadFlush(r) \/ UploadCommit(r) \/ FlagCommit(r) \/ DeleteCommit(r)
             \/ DismissCommit(r) \/ ActionCommit(r)
    BY <2>1, <2>3, ReserveStep, PublishStep, FileStep, WithdrawStep, DismissStep,
       RemoveStep
  <2>4. CASE ~(\/ UploadFlush(r) \/ UploadCommit(r) \/ FlagCommit(r) \/ DeleteCommit(r)
               \/ DismissCommit(r) \/ ActionCommit(r))
    <3>1. /\ UNCHANGED <<lastId, flags, audit, outbox>>
          /\ photos' = photos \/ PatchCommit(r)
      BY <2>2, <2>4 DEF Effect, Stores
    <3>2. DOMAIN photos' = DOMAIN photos
      BY <3>1 DEF PatchCommit
    <3>3. CASE req[r].pc \in FreshSteps /\ req'[r].pc \notin FreshSteps
      BY <2>1, <2>4, <3>3, GiveUpStep
    <3>4. CASE ~(req[r].pc \in FreshSteps /\ req'[r].pc \notin FreshSteps)
      <4>1. req'[r].pc \in FreshSteps => UploadWrite(r)
        BY <2>2, <2>4 DEF Effect, Arrives, FreshSteps
      <4>2. UploadIds' = UploadIds
        <5>1. CASE req'[r].pc \notin FreshSteps
          BY <2>1, <3>4, <5>1, SameUploads
        <5>2. CASE req'[r].pc \in FreshSteps
          <6>1. req[r].pc \in FreshSteps /\ req'[r].photo = req[r].photo
            BY <2>2, <2>4, <4>1, <5>2 DEF UploadWrite, FreshSteps, Effect, Memory
          <6>2. \A o \in Request \ {r} : req'[o] = req[o]
            BY <2>2 DEF Effect, Stores
          <6> QED
            BY <5>2, <6>1, <6>2 DEF UploadIds, FreshSteps
        <5> QED
          BY <5>1, <5>2
      <4> QED
        BY <3>1, <3>2, <4>2, UnseenStep DEF SameLedger
    <3> QED
      BY <3>3, <3>4
  <2> QED
    BY <2>3, <2>4
<1>2. CASE \E w \in Worker : WorkerActs(w)
  <2>1. SameLedger
    BY <1>2, WorkerStepEffect
       DEF WorkerEffect, WorkerStores, SameLedger, UploadIds
  <2> QED
    BY <2>1, UnseenStep
<1>3. CASE Quiet
  <2>1. SameLedger
    BY <1>3 DEF Quiet, SameLedger, UploadIds
  <2> QED
    BY <2>1, UnseenStep
<1> QED
  BY <1>1, <1>2, <1>3, StepCases

LEMMA LedgerInit == Init => L!Init
<1> SUFFICES ASSUME Init PROVE L!Init
  OBVIOUS
<1>1. UploadIds = {}
  <2>1. \A r \in Request : req[r].pc \notin {"upload_write", "upload_commit"}
    BY DEF Init, Fresh, FirstStep
  <2> QED
    BY <2>1 DEF UploadIds
<1>2. Len(Seeds) \in Nat /\ Len(Seeds) <= MaxPhotos /\ MaxPhotos \in Nat
  BY SeedAssumption, ConstantAssumption
<1>3. DOMAIN photos = 1..lastId /\ lastId = Len(Seeds)
  BY DEF Init
<1>4. DOMAIN photos \subseteq PhotoId
  BY <1>2, <1>3 DEF PhotoId
<1>5. DOMAIN flags = SeedFlags /\ \A f \in DOMAIN flags : flags[f] = "pending"
  BY DEF Init
<1>6. DOMAIN flags \subseteq PhotoId \X User /\ FlagsHavePhotos
  BY TypeInit, LockInit DEF TypeInv, TypeOK, TablesOK, FlagId, LockInv
<1>7. DOMAIN flags \subseteq (DOMAIN photos) \X User
  <2>1. SUFFICES ASSUME NEW f \in DOMAIN flags PROVE f \in (DOMAIN photos) \X User
    OBVIOUS
  <2>2. PICK p \in PhotoId, u \in User : f = <<p, u>>
    BY <1>6
  <2>3. p \in DOMAIN photos
    BY <1>6, <2>2 DEF FlagsHavePhotos
  <2> QED
    BY <2>2, <2>3
<1>8. audit = {} /\ DOMAIN outbox = {}
  BY DEF Init
<1>9. PhotoId \ (1..lastId) = PhotoId \ DOMAIN photos
  BY <1>3
<1> QED
  <2>1. \A f \in DOMAIN flags : flags[f] = "pending"
    BY <1>5
  <2> QED
    BY <1>1, <1>4, <1>7, <1>8, <1>9, <2>1 DEF L!Init

(* The requests implement the Ledger: each of their steps is one whole     *)
(* operation on photos, flags, audit log and outbox, or changes none.      *)
THEOREM LedgerImplemented == Spec => ImplementsLedger
  BY TypeInvCorrect, LockInvCorrect, RecordInvCorrect, LedgerInit, LedgerStep, PTL
     DEF Spec, ImplementsLedger, L!Spec
============================================================================
