-------------------------- MODULE TurnParamsProofs --------------------------
(***************************************************************************)
(* Proofs about TurnParams, for any number of chats, models, questions and *)
(* edits and any size of the contexts.                                     *)
(***************************************************************************)
EXTENDS TurnParams, FiniteSetTheorems, TLAPS

USE TurnParamsAssumption

\* A model has the parameters of its own chat, or none, and may save to and resume from the
\* session file of its own chat only.
OwnRecord ==
    {r \in ModelRecord : /\ r.params.of \in {NoChat, r.chat} /\ r.params.path \in {NoChat, r.chat}
                         /\ r.load # "idle" => r.onLoad # 0
                         /\ r.intent # 0 => r.chat # NoChat /\ r.context /\ r.load = "idle"}

Saved(r) == [exists |-> TRUE, nPast |-> r.nPast, cache |-> r.cache]

------------------------------------------------------------------------------
(* Records *)

\* The default parameters are no chat's.
LEMMA DefaultFacts ==
  /\ DefaultParams \in Params /\ DefaultParams.of = NoChat /\ DefaultParams.path = NoChat
  /\ DefaultParams.save = TRUE
  BY DEF DefaultParams, Params

\* Parameters read from a configuration are that chat's, of that version, without a path.
LEMMA ConfigFacts ==
  ASSUME NEW c \in Chats, NEW cfg \in [Chats -> Configuration]
  PROVE  /\ ConfigParams(c, cfg) \in Params /\ ConfigParams(c, cfg).of = c
         /\ ConfigParams(c, cfg).path = NoChat /\ ConfigParams(c, cfg).version = cfg[c].version
         /\ ConfigParams(c, cfg).small = cfg[c].small /\ ConfigParams(c, cfg).save = cfg[c].save
<1>1. cfg[c] \in Configuration
  OBVIOUS
<1> QED
  BY <1>1 DEF ConfigParams, Params, Configuration

\* A model that is made has its parameters and has read nothing.
LEMMA MadeFacts ==
  ASSUME NEW c \in Chats \cup {NoChat}, NEW p \in Params
  PROVE  LET r == MadeModel(c, p) IN
         /\ r \in ModelRecord /\ r.chat = c /\ r.params = p /\ r.load = "idle" /\ r.context = FALSE
         /\ r.small = FALSE /\ r.nPast = 0 /\ r.cache = {} /\ r.onLoad = 0 /\ r.turn = 0
         /\ r.intent = 0 /\ r.transcript = {}
<1>1. 0 \in 0..MaxExchanges
  OBVIOUS
<1> QED
  BY <1>1 DEF MadeModel, ModelRecord

\* An object that is gone has nothing.
LEMMA UnusedFacts ==
  /\ Unused \in OwnRecord /\ Unused.chat = NoChat /\ Unused.params = DefaultParams
  /\ Unused.load = "idle" /\ Unused.turn = 0 /\ Unused.nPast = 0 /\ Unused.cache = {}
  /\ Unused.context = FALSE /\ Unused.small = FALSE /\ Unused.intent = 0 /\ Unused.transcript = {}
<1>0. DefaultParams \in Params /\ 0 \in 0..MaxExchanges
  BY DefaultFacts
<1>1. /\ Unused \in ModelRecord /\ Unused.chat = NoChat /\ Unused.params = DefaultParams
      /\ Unused.load = "idle" /\ Unused.turn = 0 /\ Unused.nPast = 0 /\ Unused.cache = {}
      /\ Unused.context = FALSE /\ Unused.small = FALSE /\ Unused.intent = 0 /\ Unused.transcript = {}
  BY <1>0 DEF Unused, MadeModel, ModelRecord
<1> QED
  BY <1>1, DefaultFacts DEF OwnRecord

\* A saved session holds what the model counts and has in its cache.
LEMMA SavedFacts ==
  ASSUME NEW r \in ModelRecord
  PROVE  /\ Saved(r) \in Sessions /\ Saved(r).exists = TRUE /\ Saved(r).nPast = r.nPast
         /\ Saved(r).cache = r.cache
  BY DEF Saved, Sessions, ModelRecord

\* A missing session holds nothing.
LEMMA NoSessionFacts ==
  /\ NoSession \in Sessions /\ NoSession.exists = FALSE /\ NoSession.nPast = 0 /\ NoSession.cache = {}
  BY DEF NoSession, Sessions

\* A model saves to the file its parameters name, or not at all.
LEMMA SaveStateFacts ==
  ASSUME NEW s \in [Chats -> Sessions], NEW r \in ModelRecord
  PROVE  /\ SaveState(s, r) \in [Chats -> Sessions]
         /\ Saves(r) => r.params.path \in Chats
         /\ \A x \in Chats : SaveState(s, r)[x] =
               IF Saves(r) /\ r.params.path = x THEN Saved(r) ELSE s[x]
<1>1. r.params \in Params
  BY DEF ModelRecord
<1>2. Saves(r) => r.params.path \in Chats
  BY <1>1 DEF Saves, Params
<1>3. SaveState(s, r) = IF Saves(r) THEN [s EXCEPT ![r.params.path] = Saved(r)] ELSE s
  BY DEF SaveState, Saved
<1> QED
  BY <1>2, <1>3, SavedFacts

\* Loading a session gives the model the past that is saved under its path, or none.
LEMMA RestoredFacts ==
  ASSUME NEW s \in [Chats -> Sessions], NEW r \in ModelRecord
  PROVE  LET q == Restored(r, s) IN
         /\ q \in ModelRecord /\ q.chat = r.chat /\ q.params = r.params /\ q.load = r.load
         /\ q.context = r.context /\ q.small = r.small /\ q.onLoad = r.onLoad /\ q.turn = r.turn
         /\ q.intent = r.intent /\ q.transcript = r.transcript
         /\ \/ q.nPast = r.nPast /\ q.cache = r.cache
            \/ /\ r.params.save /\ r.params.path \in Chats /\ s[r.params.path].exists
               /\ q.nPast = s[r.params.path].nPast
               /\ q.cache = IF Cardinality(s[r.params.path].cache) <= Room[r.small]
                            THEN s[r.params.path].cache ELSE {}
<1> DEFINE q == Restored(r, s)
           f == s[r.params.path]
           cells == IF Cardinality(f.cache) <= Room[r.small] THEN f.cache ELSE {}
<1>1. r.params \in Params
  BY DEF ModelRecord
<1>2. CASE r.params.save /\ r.params.path # NoChat /\ s[r.params.path].exists
  <2>1. r.params.path \in Chats
    BY <1>1, <1>2 DEF Params
  <2>2. f \in Sessions
    BY <2>1
  <2>3. f.nPast \in Nat /\ cells \in SUBSET Exchanges
    BY <2>2 DEF Sessions
  <2>4. q = [r EXCEPT !.nPast = f.nPast, !.cache = cells]
    BY <1>2 DEF Restored
  <2> HIDE DEF q, cells
  <2>5. /\ q \in ModelRecord /\ q.chat = r.chat /\ q.params = r.params /\ q.load = r.load
        /\ q.context = r.context /\ q.small = r.small /\ q.onLoad = r.onLoad /\ q.turn = r.turn
        /\ q.intent = r.intent /\ q.transcript = r.transcript
        /\ q.nPast = f.nPast /\ q.cache = cells
    BY <2>3, <2>4 DEF ModelRecord
  <2> QED
    BY <1>2, <2>1, <2>5 DEF q, cells
<1>3. CASE ~(r.params.save /\ r.params.path # NoChat /\ s[r.params.path].exists)
  BY <1>3 DEF Restored
<1> QED
  BY <1>2, <1>3

\* A turn adds its exchange to the past, or shifts a full context.
LEMMA EvaluatedFacts ==
  ASSUME NEW r \in ModelRecord, NEW e \in Exchanges, NEW q \in Evaluated(r, e)
  PROVE  /\ q \in ModelRecord /\ q.chat = r.chat /\ q.params = r.params /\ q.load = r.load
         /\ q.context = r.context /\ q.small = r.small /\ q.onLoad = r.onLoad /\ q.turn = r.turn
         /\ q.intent = r.intent /\ q.transcript = r.transcript
         /\ \/ r.nPast < Room[r.small] /\ q.nPast = r.nPast + 1 /\ q.cache = r.cache \cup {e}
            \/ /\ ~(r.nPast < Room[r.small]) /\ q.nPast = Room[r.small]
               /\ \E d \in IF r.cache = {} THEN {e} ELSE r.cache : q.cache = (r.cache \ {d}) \cup {e}
<1>1. r.nPast \in Nat /\ r.cache \in SUBSET Exchanges /\ r.small \in BOOLEAN /\ Room[r.small] \in Nat
  BY DEF ModelRecord
<1>2. CASE r.nPast < Room[r.small]
  <2> DEFINE n == r.nPast + 1
             cells == r.cache \cup {e}
  <2>1. n \in Nat /\ cells \in SUBSET Exchanges
    BY <1>1
  <2>2. q = [r EXCEPT !.nPast = n, !.cache = cells]
    BY <1>2 DEF Evaluated
  <2> HIDE DEF n, cells
  <2>3. /\ q \in ModelRecord /\ q.chat = r.chat /\ q.params = r.params /\ q.load = r.load
        /\ q.context = r.context /\ q.small = r.small /\ q.onLoad = r.onLoad /\ q.turn = r.turn
        /\ q.intent = r.intent /\ q.transcript = r.transcript
        /\ q.nPast = n /\ q.cache = cells
    BY <2>1, <2>2 DEF ModelRecord
  <2> QED
    BY <1>2, <2>3 DEF n, cells
<1>3. CASE ~(r.nPast < Room[r.small])
  <2>1. PICK d \in IF r.cache = {} THEN {e} ELSE r.cache :
           q = [r EXCEPT !.nPast = Room[r.small], !.cache = (@ \ {d}) \cup {e}]
    BY <1>3 DEF Evaluated
  <2> DEFINE cells == (r.cache \ {d}) \cup {e}
  <2>2. cells \in SUBSET Exchanges
    BY <1>1
  <2>3. q = [r EXCEPT !.nPast = Room[r.small], !.cache = cells]
    BY <2>1
  <2> HIDE DEF cells
  <2>4. /\ q \in ModelRecord /\ q.chat = r.chat /\ q.params = r.params /\ q.load = r.load
        /\ q.context = r.context /\ q.small = r.small /\ q.onLoad = r.onLoad /\ q.turn = r.turn
        /\ q.intent = r.intent /\ q.transcript = r.transcript
        /\ q.nPast = Room[r.small] /\ q.cache = cells
    BY <1>1, <2>2, <2>3 DEF ModelRecord
  <2> QED
    BY <1>3, <2>1, <2>4 DEF cells
<1> QED
  BY <1>2, <1>3

------------------------------------------------------------------------------
(* Giving objects up *)

\* An object nothing holds is gone, and has saved its session if it saves.
LEMMA ReleaseFacts ==
  ASSUME NEW ms \in [Models -> ModelRecord], NEW c \in Models \cup {NoModel},
         NEW s \in [Chats -> Sessions], NEW k \in Models \cup {NoModel}, Release(ms, c, s, k)
  PROVE  /\ chat' = c /\ retained' = k
         /\ model' \in [Models -> ModelRecord]
         /\ \A m \in Models : IF ms[m].chat # NoChat /\ ~Held(ms, c, m) /\ m # k
                              THEN model'[m] = Unused ELSE model'[m] = ms[m]
         /\ session' \in [Chats -> Sessions]
         /\ \A x \in Chats :
               \/ session'[x] = s[x]
               \/ \E m \in Models : /\ ms[m].chat # NoChat /\ ~Held(ms, c, m) /\ m # k /\ Saves(ms[m])
                                    /\ ms[m].params.path = x /\ session'[x] = Saved(ms[m])
<1> DEFINE gone == {m \in Models : ms[m].chat # NoChat /\ ~Held(ms, c, m) /\ m # k}
           Savers(x) == {m \in gone : Saves(ms[m]) /\ ms[m].params.path = x}
<1>1. chat' = c /\ retained' = k /\ model' = [m \in Models |-> IF m \in gone THEN Unused ELSE ms[m]]
  BY DEF Release
<1>2. PICK last \in [Chats -> Models \cup {NoModel}] :
        /\ \A x \in Chats : IF Savers(x) = {} THEN last[x] = NoModel ELSE last[x] \in Savers(x)
        /\ session' = [x \in Chats |->
              IF last[x] = NoModel THEN s[x] ELSE SaveState(s, ms[last[x]])[x]]
  BY DEF Release
<1>3. ASSUME NEW x \in Chats, last[x] # NoModel
      PROVE  LET m == last[x] IN
             /\ m \in gone /\ Saves(ms[m]) /\ ms[m].params.path = x /\ session'[x] = Saved(ms[m])
             /\ Saved(ms[m]) \in Sessions
  <2>1. last[x] \in Savers(x)
    BY <1>2, <1>3
  <2>2. ms[last[x]] \in ModelRecord
    BY <2>1
  <2>3. SaveState(s, ms[last[x]])[x] = Saved(ms[last[x]])
    BY <2>1, <2>2, SaveStateFacts
  <2> QED
    BY <1>2, <1>3, <2>1, <2>2, <2>3, SavedFacts
<1>4. \A m \in Models : IF ms[m].chat # NoChat /\ ~Held(ms, c, m) /\ m # k
                        THEN model'[m] = Unused ELSE model'[m] = ms[m]
  BY <1>1
<1>5. model' \in [Models -> ModelRecord]
  BY <1>1, UnusedFacts DEF OwnRecord
<1>6. ASSUME NEW x \in Chats
      PROVE  /\ session'[x] \in Sessions
             /\ \/ session'[x] = s[x]
                \/ \E m \in Models : /\ ms[m].chat # NoChat /\ ~Held(ms, c, m) /\ m # k /\ Saves(ms[m])
                                     /\ ms[m].params.path = x /\ session'[x] = Saved(ms[m])
  <2>1. CASE last[x] = NoModel
    BY <1>2, <2>1
  <2>2. CASE last[x] # NoModel
    BY <1>3, <2>2
  <2> QED
    BY <2>1, <2>2
<1>7. session' \in [Chats -> Sessions]
  BY <1>2, <1>6
<1> QED
  BY <1>1, <1>4, <1>5, <1>6, <1>7

\* What holds of every object and of a new one holds of every object after a release.
LEMMA ReleaseKeeps ==
  ASSUME NEW ms \in [Models -> ModelRecord], NEW c \in Models \cup {NoModel},
         NEW s \in [Chats -> Sessions], NEW k \in Models \cup {NoModel}, Release(ms, c, s, k),
         NEW R, Unused \in R, \A m \in Models : ms[m] \in R,
         NEW F, \A x \in Chats : s[x] \in F[x],
         \A m \in Models : Saves(ms[m]) /\ ~Held(ms, c, m) /\ m # k /\ ms[m].chat # NoChat
                              => Saved(ms[m]) \in F[ms[m].params.path]
  PROVE  (\A m \in Models : model'[m] \in R) /\ (\A x \in Chats : session'[x] \in F[x])
<1>1. \A m \in Models : model'[m] \in R
  BY ReleaseFacts
<1>2. ASSUME NEW x \in Chats
      PROVE  session'[x] \in F[x]
  <2>1. CASE session'[x] = s[x]
    BY <2>1
  <2>2. ASSUME NEW m \in Models, ms[m].chat # NoChat, ~Held(ms, c, m), m # k, Saves(ms[m]),
               ms[m].params.path = x, session'[x] = Saved(ms[m])
        PROVE  session'[x] \in F[x]
    BY <2>2
  <2> QED
    BY <2>1, <2>2, ReleaseFacts
<1> QED
  BY <1>1, <1>2

------------------------------------------------------------------------------
(* What the steps do to the objects: the records ms they leave before a release. *)

Made == model \in [Models -> OwnRecord] /\ (chat # NoModel => model[chat].chat \in Chats)

\* All of a record but its parameters and where its load stands.
Same(q, r) ==
  /\ q.chat = r.chat /\ q.context = r.context /\ q.small = r.small
  /\ q.nPast = r.nPast /\ q.cache = r.cache /\ q.onLoad = r.onLoad /\ q.turn = r.turn
  /\ q.intent = r.intent /\ q.transcript = r.transcript

\* An object predicts e, or starts its load with e to send again; it was r.
PredictsFrom(q, r, e) ==
  /\ r.turn = 0 /\ r.context /\ q.chat = r.chat /\ q.context = r.context /\ q.small = r.small
  /\ q.nPast = r.nPast /\ q.cache = r.cache /\ q.onLoad = r.onLoad /\ q.turn = e
  /\ q.intent = r.intent /\ q.transcript = r.transcript /\ q.params = r.params /\ q.load = r.load

LoadsFrom(q, r, e) ==
  /\ r.load = "idle" /\ ~r.context /\ q.chat = r.chat /\ q.context = r.context /\ q.small = r.small
  /\ q.nPast = r.nPast /\ q.cache = r.cache /\ q.onLoad = e /\ q.turn = r.turn
  /\ q.intent = r.intent /\ q.transcript = r.transcript /\ q.load = "queued" /\ q.params.of = r.params.of /\ q.params.version = r.params.version
  /\ q.params.small = r.params.small /\ q.params.save = r.params.save

NewObject == MadeModel(chatName, ConfigParams(chatName, config))

SendEffect(ms, c, e) ==
  \/ c = NoModel /\ ms = model /\ Kept = NoModel
  \/ /\ c \in Models /\ ms[c].chat = chatName /\ \A n \in Models \ {c} : ms[n] = model[n]
     /\ \/ Kept = c /\ (PredictsFrom(ms[c], model[c], e) \/ LoadsFrom(ms[c], model[c], e))
        \/ Kept = NoModel /\ model[c].chat = NoChat /\ LoadsFrom(ms[c], NewObject, e)

IdleEffect(ms, m) ==
  \A n \in Models : /\ Same(ms[n], model[n]) /\ ms[n].params = model[n].params
                    /\ ms[n].load = IF n = m THEN "idle" ELSE model[n].load

\* Parameters change, of one object: to p, whatever else.
ParamsEffect(ms, m, p) ==
  \A n \in Models : /\ Same(ms[n], model[n]) /\ ms[n].load = model[n].load
                    /\ ms[n].params = IF n = m THEN p ELSE model[n].params

\* A new object has the current parameters of the chat on screen.
LEMMA NewObjectFacts ==
  ASSUME TypeOK
  PROVE  /\ NewObject \in OwnRecord /\ NewObject.chat = chatName
         /\ NewObject.params = ConfigParams(chatName, config) /\ NewObject.load = "idle"
         /\ NewObject.context = FALSE /\ NewObject.small = FALSE /\ NewObject.nPast = 0
         /\ NewObject.cache = {} /\ NewObject.onLoad = 0 /\ NewObject.turn = 0
         /\ NewObject.intent = 0 /\ NewObject.transcript = {}
<1> DEFINE p == ConfigParams(chatName, config)
<1>1. p \in Params /\ p.of = chatName /\ p.path = NoChat
  BY ConfigFacts DEF TypeOK
<1> HIDE DEF p
<1>2. /\ MadeModel(chatName, p) \in ModelRecord /\ MadeModel(chatName, p).chat = chatName
      /\ MadeModel(chatName, p).params = p /\ MadeModel(chatName, p).load = "idle"
      /\ MadeModel(chatName, p).context = FALSE /\ MadeModel(chatName, p).small = FALSE
      /\ MadeModel(chatName, p).nPast = 0 /\ MadeModel(chatName, p).cache = {}
      /\ MadeModel(chatName, p).onLoad = 0 /\ MadeModel(chatName, p).turn = 0
      /\ MadeModel(chatName, p).intent = 0 /\ MadeModel(chatName, p).transcript = {}
  BY <1>1 DEF MadeModel, ModelRecord, TypeOK
<1>3. NewObject = MadeModel(chatName, p)
  BY DEF NewObject, p
<1> QED
  BY <1>1, <1>2, <1>3 DEF OwnRecord, p

\* A load that starts takes the path of the chat's session and its question.
LEMMA StartedFacts ==
  ASSUME NEW r \in OwnRecord, r.chat \in Chats, NEW e \in Exchanges, r.load = "idle", ~r.context,
         NEW q, q = [r EXCEPT !.params.path = IF r.params.save THEN r.chat ELSE @,
                              !.load = "queued", !.onLoad = e]
  PROVE  q \in OwnRecord /\ LoadsFrom(q, r, e)
<1> DEFINE path == IF r.params.save THEN r.chat ELSE r.params.path
           p == [r.params EXCEPT !.path = path]
<1>0. e \in 0..MaxExchanges /\ e # 0
  BY DEF Exchanges
<1>1. r \in ModelRecord /\ r.params \in Params /\ path \in Chats \cup {NoChat} /\ path \in {NoChat, r.chat}
  BY DEF OwnRecord, ModelRecord, Params
<1>2. q = [r EXCEPT !.params = p, !.load = "queued", !.onLoad = e]
  BY <1>1 DEF ModelRecord
<1> HIDE DEF path
<1>3. /\ p \in Params /\ p.of = r.params.of /\ p.version = r.params.version /\ p.path = path
      /\ p.small = r.params.small /\ p.save = r.params.save
  BY <1>1 DEF Params
<1> HIDE DEF p
<1>4. /\ q \in ModelRecord /\ q.params = p /\ q.chat = r.chat /\ q.context = r.context
      /\ q.small = r.small /\ q.nPast = r.nPast /\ q.cache = r.cache /\ q.onLoad = e
      /\ q.turn = r.turn /\ q.load = "queued" /\ q.intent = r.intent /\ q.transcript = r.transcript
  BY <1>0, <1>1, <1>2, <1>3 DEF ModelRecord
<1>5. q \in OwnRecord
  BY <1>0, <1>1, <1>3, <1>4 DEF OwnRecord
<1> QED
  BY <1>3, <1>4, <1>5 DEF LoadsFrom

\* Send leaves an object of the chat on screen, loading or predicting, or none.
LEMMA SendCases ==
  ASSUME TypeOK, Made, NEW e \in Exchanges, Send(e)
  PROVE  \E ms \in [Models -> OwnRecord], c \in Models \cup {NoModel} :
            Release(ms, c, session, retained) /\ SendEffect(ms, c, e)
<1>1. CASE Kept = NoModel /\ Release(model, NoModel, session, retained)
  BY <1>1 DEF SendEffect, Made
<1>2. ASSUME NEW m \in Usable,
             LET ms == Prepared(m)
             IN  IF ms[m].context
                 THEN ms[m].turn = 0 /\ Release([ms EXCEPT ![m].turn = e], m, session, retained)
                 ELSE ms[m].load = "idle" /\ Release(LoadStarted(ms, m, e), m, session, retained)
      PROVE  \E ms \in [Models -> OwnRecord], c \in Models \cup {NoModel} :
                Release(ms, c, session, retained) /\ SendEffect(ms, c, e)
  <2> DEFINE r == IF Kept # NoModel THEN model[m] ELSE NewObject
             ms0 == Prepared(m)
  <2>1. /\ m \in Models /\ (Kept # NoModel => m = Kept /\ model[m].chat = chatName /\ m # NoModel)
        /\ Kept = NoModel => model[m].chat = NoChat
    BY <1>2 DEF Usable, Free, Kept, TypeOK
  <2>2. r \in OwnRecord /\ r.chat = chatName /\ chatName \in Chats
    BY <2>1, NewObjectFacts DEF Made, TypeOK
  <2>3. ms0 \in [Models -> OwnRecord] /\ ms0[m] = r /\ \A n \in Models \ {m} : ms0[n] = model[n]
    BY <2>1, <2>2 DEF Prepared, NewObject, Made
  <2> HIDE DEF ms0
  <2>4. CASE r.context
    <3> DEFINE q == [r EXCEPT !.turn = e]
               ms == [ms0 EXCEPT ![m] = q]
    <3>1. r.turn = 0 /\ Release(ms, m, session, retained)
      BY <1>2, <2>1, <2>3, <2>4 DEF ms0
    <3>2. q \in OwnRecord /\ PredictsFrom(q, r, e)
      <4>1. e \in 0..MaxExchanges /\ r \in ModelRecord
        BY <2>2 DEF Exchanges, OwnRecord
      <4> QED
        BY <2>2, <2>4, <3>1, <4>1 DEF OwnRecord, ModelRecord, PredictsFrom
    <3>3. q.chat = chatName
      BY <2>2, <3>2 DEF PredictsFrom
    <3> HIDE DEF q
    <3>4. ms \in [Models -> OwnRecord] /\ ms[m] = q /\ \A n \in Models \ {m} : ms[n] = model[n]
      BY <2>1, <2>3, <3>2
    <3>5. Kept # NoModel /\ r = model[m]
      BY <2>4, NewObjectFacts
    <3> HIDE DEF ms
    <3>6. SendEffect(ms, m, e)
      BY <2>1, <3>2, <3>3, <3>4, <3>5 DEF SendEffect
    <3> QED
      BY <2>1, <3>1, <3>4, <3>6
  <2>5. CASE ~r.context
    <3> DEFINE q == [r EXCEPT !.params.path = IF r.params.save THEN r.chat ELSE @,
                              !.load = "queued", !.onLoad = e]
               ms == LoadStarted(ms0, m, e)
    <3>1. r.load = "idle" /\ Release(ms, m, session, retained)
      BY <1>2, <2>1, <2>3, <2>5 DEF ms0
    <3>2. q \in OwnRecord /\ LoadsFrom(q, r, e)
      BY <2>2, <2>5, <3>1, StartedFacts
    <3>3. q.chat = chatName
      BY <2>2, <3>2 DEF LoadsFrom
    <3>4. ms = [ms0 EXCEPT ![m] = q]
      BY <2>1, <2>2, <2>3 DEF LoadStarted
    <3> HIDE DEF q, ms
    <3>5. ms \in [Models -> OwnRecord] /\ ms[m] = q /\ \A n \in Models \ {m} : ms[n] = model[n]
      BY <2>1, <2>3, <3>2, <3>4
    <3>6. SendEffect(ms, m, e)
      BY <2>1, <3>2, <3>3, <3>5 DEF SendEffect
    <3> QED
      BY <2>1, <3>1, <3>5, <3>6
  <2> QED
    BY <2>4, <2>5
<1> QED
  BY <1>1, <1>2 DEF Send

\* The end of a load leaves the object otherwise as it was.
LEMMA IdledFacts ==
  ASSUME Made, NEW m \in Models, NEW ms, ms = [model EXCEPT ![m].load = "idle"]
  PROVE  ms \in [Models -> OwnRecord] /\ IdleEffect(ms, m)
<1> DEFINE q == [model[m] EXCEPT !.load = "idle"]
<1>1. model[m] \in OwnRecord /\ model[m] \in ModelRecord
  BY DEF Made, OwnRecord
<1>2. q \in OwnRecord /\ Same(q, model[m]) /\ q.params = model[m].params /\ q.load = "idle"
  BY <1>1 DEF OwnRecord, ModelRecord, Same
<1>3. ms = [model EXCEPT ![m] = q]
  BY DEF Made
<1> HIDE DEF q
<1>4. ms \in [Models -> OwnRecord] /\ ms[m] = q /\ \A n \in Models \ {m} : ms[n] = model[n]
  BY <1>2, <1>3 DEF Made
<1>5. \A n \in Models \ {m} : Same(ms[n], model[n])
  BY <1>4 DEF Same
<1> QED
  BY <1>2, <1>4, <1>5 DEF IdleEffect

\* Installing parameters changes those of one object.
LEMMA InstalledFacts ==
  ASSUME NEW ms0 \in [Models -> OwnRecord], NEW m \in Models,
         NEW p \in Params, p.of \in {NoChat, ms0[m].chat}, p.path \in {NoChat, ms0[m].chat},
         NEW ms, ms = [ms0 EXCEPT ![m].params = p]
  PROVE  /\ ms \in [Models -> OwnRecord]
         /\ \A n \in Models : /\ Same(ms[n], ms0[n]) /\ ms[n].load = ms0[n].load
                              /\ ms[n].params = IF n = m THEN p ELSE ms0[n].params
<1> DEFINE q == [ms0[m] EXCEPT !.params = p]
<1>1. ms0[m] \in OwnRecord /\ ms0[m] \in ModelRecord
  BY DEF OwnRecord
<1>2. q \in OwnRecord /\ Same(q, ms0[m]) /\ q.params = p /\ q.load = ms0[m].load
  BY <1>1 DEF OwnRecord, ModelRecord, Same
<1>3. ms = [ms0 EXCEPT ![m] = q]
  OBVIOUS
<1> HIDE DEF q
<1>4. ms \in [Models -> OwnRecord] /\ ms[m] = q /\ \A n \in Models \ {m} : ms[n] = ms0[n]
  BY <1>2, <1>3
<1>5. \A n \in Models \ {m} : Same(ms[n], ms0[n])
  BY <1>4 DEF Same
<1> QED
  BY <1>2, <1>4, <1>5

\* The parameters of a chat's configuration, where update_chat_params puts them.
LEMMA UpdateFacts ==
  ASSUME TypeOK, Made, NEW cfg \in [Chats -> Configuration]
  PROVE  LET ms == UpdateChatParams(model, cfg) IN
         /\ ms \in [Models -> OwnRecord]
         /\ IF chat # NoModel /\ cfg[model[chat].chat].exists
            THEN ParamsEffect(ms, chat, ConfigParams(model[chat].chat, cfg)) ELSE ms = model
<1>1. CASE chat # NoModel /\ cfg[model[chat].chat].exists
  <2> DEFINE p == ConfigParams(model[chat].chat, cfg)
  <2>1. chat \in Models /\ model[chat].chat \in Chats
    BY <1>1 DEF Made, TypeOK
  <2>2. p \in Params /\ p.of = model[chat].chat /\ p.path = NoChat
    BY <2>1, ConfigFacts
  <2>3. UpdateChatParams(model, cfg) = [model EXCEPT ![chat].params = p]
    BY <1>1 DEF UpdateChatParams
  <2> HIDE DEF p
  <2>4. /\ UpdateChatParams(model, cfg) \in [Models -> OwnRecord]
        /\ ParamsEffect(UpdateChatParams(model, cfg), chat, p)
    BY <2>1, <2>2, <2>3, InstalledFacts DEF ParamsEffect, Made
  <2> QED
    BY <1>1, <2>4 DEF p
<1>2. CASE ~(chat # NoModel /\ cfg[model[chat].chat].exists)
  BY <1>2 DEF UpdateChatParams, Made
<1> QED
  BY <1>1, <1>2

\* after_model_load resends to the object in use, or gives up.
LEMMA LoadDoneCases ==
  ASSUME TypeOK, Made, NEW m \in Models, LoadDone(m)
  PROVE  \E ms \in [Models -> OwnRecord] :
         \/ /\ chat \in Models /\ model[chat].context
            /\ resend' = resend \cup {model[m].onLoad} /\ history' = history
            /\ Release(ms, chat, session, retained)
            /\ \A n \in Models : /\ Same(ms[n], model[n])
                                 /\ ms[n].load = IF n = m THEN "idle" ELSE model[n].load
                                 /\ ms[n].params = IF n = chat THEN DefaultParams ELSE model[n].params
         \/ /\ chat # NoModel => ~model[chat].context
            /\ IdleEffect(ms, m) /\ GiveUp(ms) /\ resend' = resend
<1> DEFINE ms0 == [model EXCEPT ![m].load = "idle"]
<1>1. ms0 \in [Models -> OwnRecord] /\ IdleEffect(ms0, m)
  BY IdledFacts
<1>2. CASE /\ chat # NoModel /\ model[chat].context
           /\ resend' = resend \cup {model[m].onLoad}
           /\ Release([ms0 EXCEPT ![chat].params = DefaultParams], chat, session, retained)
           /\ UNCHANGED history
  <2> DEFINE ms == [ms0 EXCEPT ![chat].params = DefaultParams]
  <2>1. chat \in Models
    BY <1>2 DEF TypeOK
  <2> HIDE DEF ms0
  <2>0. /\ DefaultParams \in Params /\ DefaultParams.of \in {NoChat, ms0[chat].chat}
        /\ DefaultParams.path \in {NoChat, ms0[chat].chat}
    BY DefaultFacts
  <2>2. ms = [ms0 EXCEPT ![chat].params = DefaultParams]
    OBVIOUS
  <2>3. Release(ms, chat, session, retained)
    BY <1>2 DEF ms0
  <2> HIDE DEF ms
  <2>5. /\ ms \in [Models -> OwnRecord]
        /\ \A n \in Models : /\ Same(ms[n], ms0[n]) /\ ms[n].load = ms0[n].load
                             /\ ms[n].params = IF n = chat THEN DefaultParams ELSE ms0[n].params
    BY <1>1, <2>0, <2>1, <2>2, InstalledFacts
  <2>4. \A n \in Models : /\ Same(ms[n], model[n])
                          /\ ms[n].load = IF n = m THEN "idle" ELSE model[n].load
                          /\ ms[n].params = IF n = chat THEN DefaultParams ELSE model[n].params
    BY <1>1, <2>5 DEF IdleEffect, Same
  <2> QED
    BY <1>2, <2>1, <2>3, <2>4, <2>5
<1>3. CASE (chat # NoModel => ~model[chat].context) /\ GiveUp(ms0) /\ UNCHANGED resend
  BY <1>1, <1>3
<1> QED
  BY <1>2, <1>3 DEF LoadDone

\* q has read e where r had not.
ReadBy(q, r, e) ==
  /\ q.chat = r.chat /\ q.context = r.context /\ q.small = r.small /\ q.onLoad = r.onLoad
  /\ q.params = r.params /\ q.load = r.load
  /\ \/ r.nPast < Room[r.small] /\ q.nPast = r.nPast + 1 /\ q.cache = r.cache \cup {e}
     \/ /\ ~(r.nPast < Room[r.small]) /\ q.nPast = Room[r.small]
        /\ \E d \in IF r.cache = {} THEN {e} ELSE r.cache : q.cache = (r.cache \ {d}) \cup {e}

EvaluatedFrom(q, r) ==
  ReadBy(q, r, r.turn) /\ q.turn = 0 /\ q.intent = r.intent /\ q.transcript = r.transcript

AnsweredFrom(q, r) ==
  ReadBy(q, r, r.intent) /\ q.turn = r.turn /\ q.intent = 0 /\ q.transcript = {}

\* The end of a turn adds it to its model's past and saves the object in use.
LEMMA FinishTurnCases ==
  ASSUME TypeOK, Made, NEW m \in Models, FinishTurn(m)
  PROVE  \E ms \in [Models -> OwnRecord] :
            /\ \A n \in Models \ {m} : ms[n] = model[n]
            /\ EvaluatedFrom(ms[m], model[m])
            /\ Release(ms, chat, IF chat = NoModel THEN session ELSE SaveState(session, ms[chat]), retained)
<1>1. PICK r \in Evaluated(model[m], model[m].turn) :
        LET ms == [model EXCEPT ![m] = [r EXCEPT !.turn = 0]]
        IN  Release(ms, chat, IF chat = NoModel THEN session ELSE SaveState(session, ms[chat]), retained)
  BY DEF FinishTurn
<1> DEFINE q == [r EXCEPT !.turn = 0]
           ms == [model EXCEPT ![m] = q]
<1>2. model[m] \in OwnRecord /\ model[m] \in ModelRecord /\ model[m].turn \in Exchanges
  BY DEF FinishTurn, Made, OwnRecord, ModelRecord, Exchanges
<1>3. /\ r \in ModelRecord /\ r.chat = model[m].chat /\ r.params = model[m].params
      /\ r.load = model[m].load /\ r.context = model[m].context /\ r.small = model[m].small
      /\ r.onLoad = model[m].onLoad
      /\ r.intent = model[m].intent /\ r.transcript = model[m].transcript
      /\ \/ /\ model[m].nPast < Room[model[m].small] /\ r.nPast = model[m].nPast + 1
            /\ r.cache = model[m].cache \cup {model[m].turn}
         \/ /\ ~(model[m].nPast < Room[model[m].small]) /\ r.nPast = Room[model[m].small]
            /\ \E d \in IF model[m].cache = {} THEN {model[m].turn} ELSE model[m].cache :
                  r.cache = (model[m].cache \ {d}) \cup {model[m].turn}
  BY <1>1, <1>2, EvaluatedFacts
<1>4. /\ q \in ModelRecord /\ q.chat = r.chat /\ q.context = r.context /\ q.small = r.small
      /\ q.onLoad = r.onLoad /\ q.params = r.params /\ q.load = r.load /\ q.turn = 0
      /\ q.nPast = r.nPast /\ q.cache = r.cache /\ q.intent = r.intent /\ q.transcript = r.transcript
  <2>1. 0 \in 0..MaxExchanges
    OBVIOUS
  <2> QED
    BY <1>3, <2>1 DEF ModelRecord
<1> HIDE DEF q
<1>5. EvaluatedFrom(q, model[m])
  BY <1>3, <1>4 DEF EvaluatedFrom, ReadBy
<1>6. q \in OwnRecord
  BY <1>2, <1>3, <1>4 DEF OwnRecord
<1>7. ms \in [Models -> OwnRecord] /\ ms[m] = q /\ \A n \in Models \ {m} : ms[n] = model[n]
  BY <1>6 DEF Made
<1>8. Release(ms, chat, IF chat = NoModel THEN session ELSE SaveState(session, ms[chat]), retained)
  BY <1>1 DEF q
<1> QED
  BY <1>5, <1>7, <1>8

\* An intent's answer adds its question to its model's past and saves that model.
LEMMA AnswerCases ==
  ASSUME TypeOK, Made, NEW m \in Models, IntentAnswer(m)
  PROVE  \E ms \in [Models -> OwnRecord] :
            /\ \A n \in Models \ {m} : ms[n] = model[n]
            /\ AnsweredFrom(ms[m], model[m])
            /\ Release(ms, chat, SaveState(session, ms[m]), retained)
<1>1. PICK r \in Evaluated(model[m], model[m].intent) :
        LET ms == [model EXCEPT ![m] = [r EXCEPT !.intent = 0, !.transcript = {}]]
        IN  Release(ms, chat, SaveState(session, ms[m]), retained)
  BY DEF IntentAnswer
<1> DEFINE q == [r EXCEPT !.intent = 0, !.transcript = {}]
           ms == [model EXCEPT ![m] = q]
<1>2. model[m] \in OwnRecord /\ model[m] \in ModelRecord /\ model[m].intent \in Exchanges
  BY DEF IntentAnswer, Made, OwnRecord, ModelRecord, Exchanges
<1>3. /\ r \in ModelRecord /\ r.chat = model[m].chat /\ r.params = model[m].params
      /\ r.load = model[m].load /\ r.context = model[m].context /\ r.small = model[m].small
      /\ r.onLoad = model[m].onLoad
      /\ r.turn = model[m].turn /\ r.intent = model[m].intent /\ r.transcript = model[m].transcript
      /\ \/ /\ model[m].nPast < Room[model[m].small] /\ r.nPast = model[m].nPast + 1
            /\ r.cache = model[m].cache \cup {model[m].intent}
         \/ /\ ~(model[m].nPast < Room[model[m].small]) /\ r.nPast = Room[model[m].small]
            /\ \E d \in IF model[m].cache = {} THEN {model[m].intent} ELSE model[m].cache :
                  r.cache = (model[m].cache \ {d}) \cup {model[m].intent}
  BY <1>1, <1>2, EvaluatedFacts
<1>4. /\ q \in ModelRecord /\ q.chat = r.chat /\ q.context = r.context /\ q.small = r.small
      /\ q.onLoad = r.onLoad /\ q.params = r.params /\ q.load = r.load /\ q.turn = r.turn
      /\ q.nPast = r.nPast /\ q.cache = r.cache /\ q.intent = 0 /\ q.transcript = {}
  <2>1. 0 \in 0..MaxExchanges
    OBVIOUS
  <2> QED
    BY <1>3, <2>1 DEF ModelRecord
<1> HIDE DEF q
<1>5. AnsweredFrom(q, model[m])
  BY <1>3, <1>4 DEF AnsweredFrom, ReadBy
<1>6. q \in OwnRecord
  BY <1>2, <1>3, <1>4 DEF OwnRecord
<1>7. ms \in [Models -> OwnRecord] /\ ms[m] = q /\ \A n \in Models \ {m} : ms[n] = model[n]
  BY <1>6 DEF Made
<1>8. Release(ms, chat, SaveState(session, ms[m]), retained)
  BY <1>1 DEF q
<1> QED
  BY <1>5, <1>7, <1>8

\* Saving from the screen writes the session of the object in use, or none.
LEMMA ScreenSaveFacts ==
  ASSUME TypeOK, Made
  PROVE  /\ SavedByScreen \in [Chats -> Sessions]
         /\ \A x \in Chats : \/ SavedByScreen[x] = session[x]
                             \/ /\ chat \in Models /\ Saves(model[chat]) /\ model[chat].params.path = x
                                /\ SavedByScreen[x] = Saved(model[chat])
<1>1. CASE chat = NoModel
  BY <1>1 DEF SavedByScreen, TypeOK
<1>2. CASE chat # NoModel
  <2>1. chat \in Models /\ model[chat] \in ModelRecord /\ session \in [Chats -> Sessions]
    BY <1>2 DEF TypeOK
  <2> QED
    BY <1>2, <2>1, SaveStateFacts DEF SavedByScreen
<1> QED
  BY <1>1, <1>2

------------------------------------------------------------------------------
(* Types, and whose parameters a model has *)

\* A model runs with parameters p of a chat only as they are in the files cfg.
UpToDate(p, cfg) == p.of # NoChat /\ cfg[p.of].exists => p.version = cfg[p.of].version

Typed == TypeOK /\ Made /\ SettingsReachModel

\* The objects, their chats and the session files.
ObjectsTyped ==
  /\ session \in [Chats -> Sessions] /\ chat \in Models \cup {NoModel}
  /\ retained \in Models \cup {NoModel}
  /\ Made /\ SettingsReachModel

RestTyped ==
  /\ setup \in Setups /\ config \in [Chats -> Configuration]
  /\ history \in [Chats -> SUBSET Exchanges]
  /\ chatName \in Chats /\ messages \in SUBSET Exchanges
  /\ resend \in SUBSET Exchanges
  /\ asked \in [Exchanges -> Chats \cup {NoChat}]
  /\ cleared \in SUBSET Exchanges

\* The invariant about parameters in two parts.
LEMMA TypedParts ==
  /\ Typed <=> RestTyped /\ ObjectsTyped
  /\ Typed' <=> RestTyped' /\ ObjectsTyped'
<1>1. Made => model \in [Models -> ModelRecord]
  BY DEF Made, OwnRecord
<1>2. Made' => model' \in [Models -> ModelRecord]
  BY DEF Made, OwnRecord
<1> QED
  BY <1>1, <1>2 DEF Typed, TypeOK, RestTyped, ObjectsTyped

\* What is left after a release has the parameters it had.
LEMMA ReleaseTyped ==
  ASSUME NEW ms \in [Models -> OwnRecord], NEW c \in Models \cup {NoModel},
         NEW s \in [Chats -> Sessions], NEW k \in Models \cup {NoModel}, Release(ms, c, s, k),
         c # NoModel => ms[c].chat \in Chats /\ UpToDate(ms[c].params, config')
  PROVE  ObjectsTyped'
<1>0. ms \in [Models -> ModelRecord]
  BY DEF OwnRecord
<1>1. /\ chat' = c /\ retained' = k
      /\ session' \in [Chats -> Sessions] /\ model' \in [Models -> ModelRecord]
      /\ \A m \in Models : IF ms[m].chat # NoChat /\ ~Held(ms, c, m) /\ m # k
                           THEN model'[m] = Unused ELSE model'[m] = ms[m]
  BY <1>0, ReleaseFacts
<1>2. \A m \in Models : model'[m] \in OwnRecord
  BY <1>1, UnusedFacts
<1>3. model' \in [Models -> OwnRecord]
  BY <1>1, <1>2
<1>4. c # NoModel => model'[c] = ms[c]
  BY <1>1 DEF Held
<1>5. Made'
  BY <1>1, <1>3, <1>4 DEF Made
<1>6. SettingsReachModel'
  BY <1>1, <1>4 DEF SettingsReachModel, UpToDate
<1> QED
  BY <1>1, <1>5, <1>6 DEF ObjectsTyped

\* Send leaves the object in use with the current parameters of its chat.
LEMMA SendTyped ==
  ASSUME Typed, NEW e \in Exchanges, Send(e), UNCHANGED config
  PROVE  ObjectsTyped'
<1>1. TypeOK /\ Made /\ SettingsReachModel
  BY DEF Typed
<1>2. PICK ms \in [Models -> OwnRecord], c \in Models \cup {NoModel} :
        Release(ms, c, session, retained) /\ SendEffect(ms, c, e)
  BY <1>1, SendCases
<1>3. ASSUME c # NoModel
      PROVE  ms[c].chat \in Chats /\ UpToDate(ms[c].params, config')
  <2>1. ms[c].chat = chatName /\ chatName \in Chats
    BY <1>1, <1>2, <1>3 DEF SendEffect, TypeOK
  <2>2. CASE Kept = c
    <3>1. chat = c /\ UpToDate(model[c].params, config)
      BY <1>1, <1>3, <2>2 DEF Kept, SettingsReachModel, UpToDate
    <3>2. ms[c].params.of = model[c].params.of /\ ms[c].params.version = model[c].params.version
      BY <1>2, <1>3, <2>2 DEF SendEffect, PredictsFrom, LoadsFrom
    <3> QED
      BY <2>1, <3>1, <3>2 DEF UpToDate
  <2>3. CASE Kept = NoModel
    <3>1. LoadsFrom(ms[c], NewObject, e)
      BY <1>2, <1>3, <2>3 DEF SendEffect
    <3>2. NewObject.params.of = chatName /\ NewObject.params.version = config[chatName].version
      <4>1. NewObject.params = ConfigParams(chatName, config) /\ config \in [Chats -> Configuration]
        BY <1>1, NewObjectFacts DEF TypeOK
      <4>2. /\ ConfigParams(chatName, config).of = chatName
            /\ ConfigParams(chatName, config).version = config[chatName].version
        BY <2>1, <4>1, ConfigFacts
      <4> QED
        BY <4>1, <4>2
    <3> QED
      BY <2>1, <3>1, <3>2 DEF LoadsFrom, UpToDate
  <2> QED
    BY <1>2, <1>3, <2>2, <2>3 DEF SendEffect
<1> QED
  BY <1>1, <1>2, <1>3, ReleaseTyped DEF TypeOK

\* A question is a new exchange of its chat.
LEMMA AskTyped ==
  ASSUME Typed, NEW c \in Chats, Ask(NextExchange, c)
  PROVE  NextExchange \in Exchanges /\ asked' = [asked EXCEPT ![NextExchange] = c]
<1>1. IsFiniteSet(Asked)
  <2>1. IsFiniteSet(Exchanges)
    BY FS_Interval DEF Exchanges
  <2>2. Asked \subseteq Exchanges
    BY DEF Asked
  <2> QED
    BY <2>1, <2>2, FS_Subset
<1>2. NextExchange \in Nat \ {0}
  BY <1>1, FS_CardinalityType DEF NextExchange
<1>3. setup.exchanges \in 0..MaxExchanges
  BY DEF Typed, TypeOK
<1> QED
  BY <1>2, <1>3 DEF Ask, Exchanges

\* Giving up a load leaves parameters and histories in their types.
LEMMA GiveUpTyped ==
  ASSUME Typed, NEW ms \in [Models -> OwnRecord], GiveUp(ms)
  PROVE  ObjectsTyped' /\ history' \in [Chats -> SUBSET Exchanges]
<1>1. SavedByScreen \in [Chats -> Sessions]
  BY ScreenSaveFacts DEF Typed
<1>0. retained \in Models \cup {NoModel}
  BY DEF Typed, TypeOK
<1>2. ObjectsTyped'
  BY <1>0, <1>1, ReleaseTyped DEF GiveUp
<1> QED
  BY <1>2 DEF GiveUp, Typed, TypeOK

\* Clear forbids the object in use to save.
LEMMA ClearedFacts ==
  ASSUME TypeOK, Made
  PROVE  LET ms == IF chat = NoModel THEN model ELSE [model EXCEPT ![chat].params.save = FALSE]
         IN  /\ ms \in [Models -> OwnRecord]
             /\ \A n \in Models : /\ Same(ms[n], model[n]) /\ ms[n].load = model[n].load
                                  /\ IF n = chat THEN ~ms[n].params.save
                                     ELSE ms[n].params = model[n].params
<1>1. CASE chat = NoModel
  <2>1. \A n \in Models : Same(model[n], model[n]) /\ n # chat
    BY <1>1 DEF Same
  <2> QED
    BY <1>1, <2>1 DEF Made
<1>2. CASE chat # NoModel
  <2> DEFINE p == [model[chat].params EXCEPT !.save = FALSE]
  <2>1. chat \in Models /\ model[chat] \in OwnRecord /\ model[chat] \in ModelRecord
    BY <1>2 DEF Made, TypeOK, OwnRecord
  <2>2. model[chat].params \in Params
    BY <2>1 DEF ModelRecord
  <2>3. /\ p \in Params /\ p.of = model[chat].params.of /\ p.path = model[chat].params.path
        /\ p.save = FALSE
    BY <2>2 DEF Params
  <2>4. p.of \in {NoChat, model[chat].chat} /\ p.path \in {NoChat, model[chat].chat}
    BY <2>1, <2>3 DEF OwnRecord
  <2> DEFINE ms == [model EXCEPT ![chat].params = p]
  <2>5. ms = [model EXCEPT ![chat].params.save = FALSE]
    BY <2>1 DEF Made
  <2>6. ms = [model EXCEPT ![chat].params = p]
    OBVIOUS
  <2> HIDE DEF p, ms
  <2>7. /\ ms \in [Models -> OwnRecord]
        /\ \A n \in Models : /\ Same(ms[n], model[n]) /\ ms[n].load = model[n].load
                             /\ ms[n].params = IF n = chat THEN p ELSE model[n].params
    BY <2>1, <2>3, <2>4, <2>6, InstalledFacts DEF Made
  <2> QED
    BY <1>2, <2>3, <2>5, <2>7
<1> QED
  BY <1>1, <1>2

\* Editing, refreshing and deleting leave configurations.
LEMMA ConfigsTyped ==
  ASSUME TypeOK,
         \/ \E save, small \in BOOLEAN : EditSettings(save, small)
         \/ RefreshChatList
         \/ \E c \in Chats : DeleteChat(c)
  PROVE  config' \in [Chats -> Configuration]
<1>0. config \in [Chats -> Configuration] /\ chatName \in Chats /\ setup.edits \in 0..MaxEdits
  BY DEF TypeOK
<1>1. ASSUME NEW save \in BOOLEAN, NEW small \in BOOLEAN, EditSettings(save, small)
      PROVE  config' \in [Chats -> Configuration]
  <2>1. config[chatName] \in Configuration
    BY <1>0
  <2>2. config[chatName].version + 1 \in 0..MaxEdits
    BY <1>0, <1>1, <2>1 DEF EditSettings, Configuration
  <2> DEFINE f == [exists |-> TRUE, version |-> config[chatName].version + 1,
                   save |-> save, small |-> small]
  <2>3. f \in Configuration
    BY <2>2 DEF Configuration
  <2>4. config' = [config EXCEPT ![chatName] = f]
    BY <1>1 DEF EditSettings
  <2> HIDE DEF f
  <2> QED
    BY <1>0, <2>3, <2>4
<1>2. ASSUME NEW c \in Chats, DeleteChat(c)
      PROVE  config' \in [Chats -> Configuration]
  <2> DEFINE f == [config[c] EXCEPT !.exists = FALSE]
  <2>1. f \in Configuration
    BY <1>0 DEF Configuration
  <2>2. config' = [config EXCEPT ![c] = f]
    BY <1>0, <1>2 DEF DeleteChat
  <2> HIDE DEF f
  <2> QED
    BY <1>0, <2>1, <2>2
<1> QED
  BY <1>0, <1>1, <1>2 DEF RefreshChatList, files

\* A load makes the context, then reads the session file of the parameters' path.
LEMMA LoadingFacts ==
  ASSUME TypeOK, Made, NEW m \in Models, LoadContext(m) \/ LoadState(m)
  PROVE  /\ model' \in [Models -> OwnRecord] /\ \A n \in Models \ {m} : model'[n] = model[n]
         /\ model'[m].params = model[m].params /\ model'[m].chat = model[m].chat
         /\ model'[m].onLoad = model[m].onLoad /\ model'[m].turn = model[m].turn
         /\ model'[m].intent = model[m].intent /\ model'[m].transcript = model[m].transcript
         /\ model[m].load # "idle" /\ model'[m].load # "idle"
         /\ \/ LoadContext(m) /\ model'[m].load = "opened" /\ model'[m].context
                /\ model'[m].small = model[m].small
                /\ model'[m].nPast = model[m].nPast /\ model'[m].cache = model[m].cache
            \/ LoadState(m) /\ model'[m].load = "restored" /\ model'[m].small = model[m].small
                /\ model'[m].context = model[m].context
                /\ model'[m].nPast = Restored(model[m], session).nPast
                /\ model'[m].cache = Restored(model[m], session).cache
<1>0. model[m] \in OwnRecord /\ model[m] \in ModelRecord /\ model[m].params \in Params
  BY DEF Made, OwnRecord, ModelRecord
<1>1. CASE LoadContext(m)
  <2> DEFINE q == [model[m] EXCEPT !.load = "opened", !.context = TRUE]
  <2>1. /\ q \in OwnRecord /\ q.params = model[m].params /\ q.chat = model[m].chat
        /\ q.onLoad = model[m].onLoad /\ q.turn = model[m].turn /\ q.load = "opened" /\ q.context
        /\ q.small = model[m].small /\ q.nPast = model[m].nPast /\ q.cache = model[m].cache
        /\ q.intent = model[m].intent /\ q.transcript = model[m].transcript
    <3>1. model[m].load # "idle"
      BY <1>0, <1>1 DEF LoadContext
    <3> QED
      BY <1>0, <3>1 DEF OwnRecord, ModelRecord
  <2>2. model' = [model EXCEPT ![m] = q]
    BY <1>0, <1>1 DEF LoadContext, Made
  <2> HIDE DEF q
  <2>3. /\ model' \in [Models -> OwnRecord] /\ model'[m] = q
        /\ \A n \in Models \ {m} : model'[n] = model[n]
    BY <2>1, <2>2 DEF Made
  <2> QED
    BY <1>1, <2>1, <2>3 DEF LoadContext
<1>2. CASE LoadState(m)
  <2> DEFINE r == Restored(model[m], session)
             q == [r EXCEPT !.load = "restored"]
  <2>1. /\ r \in ModelRecord /\ r.chat = model[m].chat /\ r.params = model[m].params
        /\ r.context = model[m].context /\ r.small = model[m].small
        /\ r.onLoad = model[m].onLoad /\ r.turn = model[m].turn
        /\ r.intent = model[m].intent /\ r.transcript = model[m].transcript
    BY <1>0, RestoredFacts DEF TypeOK
  <2>2. model' = [model EXCEPT ![m] = q]
    BY <1>2 DEF LoadState, Made
  <2> HIDE DEF r
  <2>3. /\ q \in ModelRecord /\ q.params = model[m].params /\ q.chat = model[m].chat
        /\ q.onLoad = model[m].onLoad /\ q.turn = model[m].turn /\ q.load = "restored"
        /\ q.context = model[m].context /\ q.small = model[m].small
        /\ q.nPast = r.nPast /\ q.cache = r.cache
        /\ q.intent = model[m].intent /\ q.transcript = model[m].transcript
    BY <2>1 DEF ModelRecord
  <2>4. q \in OwnRecord
    BY <1>0, <1>2, <2>3 DEF OwnRecord, LoadState
  <2> HIDE DEF q
  <2>5. /\ model' \in [Models -> OwnRecord] /\ model'[m] = q
        /\ \A n \in Models \ {m} : model'[n] = model[n]
    BY <2>2, <2>4 DEF Made
  <2> QED
    BY <1>2, <2>3, <2>5 DEF LoadState, r
<1> QED
  BY <1>1, <1>2

\* An object begins to load: it is otherwise as it was.
Begun(q, r) ==
  /\ r.load = "queued" /\ q.load = "opening" /\ q.small = r.params.small /\ q.chat = r.chat
  /\ q.params = r.params /\ q.context = r.context /\ q.nPast = r.nPast /\ q.cache = r.cache
  /\ q.onLoad = r.onLoad /\ q.turn = r.turn /\ q.intent = r.intent /\ q.transcript = r.transcript

\* A load that begins takes LLaMa_obj over.
LEMMA LoadBeginCases ==
  ASSUME TypeOK, Made, NEW m \in Models, LoadBegin(m)
  PROVE  \E ms \in [Models -> OwnRecord] :
            /\ \A n \in Models \ {m} : ms[n] = model[n]
            /\ Begun(ms[m], model[m])
            /\ Release(ms, chat, session, m)
<1> DEFINE q == [model[m] EXCEPT !.load = "opening", !.small = model[m].params.small]
           ms == [model EXCEPT ![m] = q]
<1>1. /\ model[m] \in OwnRecord /\ model[m] \in ModelRecord /\ model[m].params.small \in BOOLEAN
      /\ model[m].load = "queued"
  BY DEF Made, OwnRecord, ModelRecord, Params, LoadBegin
<1>2. q \in OwnRecord /\ Begun(q, model[m])
  BY <1>1 DEF OwnRecord, ModelRecord, Begun
<1>3. ms = [model EXCEPT ![m].load = "opening", ![m].small = model[m].params.small]
  BY <1>1 DEF Made
<1>4. Release(ms, chat, session, m)
  BY <1>3 DEF LoadBegin
<1> HIDE DEF q
<1>5. ms \in [Models -> OwnRecord] /\ ms[m] = q /\ \A n \in Models \ {m} : ms[n] = model[n]
  BY <1>2 DEF Made
<1> QED
  BY <1>2, <1>4, <1>5

\* What the model LLaMa_obj gives up leaves behind.
LEMMA AfterRetainedFacts ==
  ASSUME Made, session \in [Chats -> Sessions], retained \in Models \cup {NoModel}
  PROVE  /\ AfterRetained \in [Chats -> Sessions]
         /\ \A x \in Chats :
               AfterRetained[x] =
                  IF /\ retained \in Models /\ ~Held(model, chat, retained) /\ Saves(model[retained])
                     /\ model[retained].params.path = x
                  THEN Saved(model[retained]) ELSE session[x]
<1>1. CASE retained # NoModel /\ ~Held(model, chat, retained)
  <2>1. retained \in Models /\ model[retained] \in ModelRecord
    BY <1>1 DEF Made, OwnRecord
  <2> QED
    BY <1>1, <2>1, SaveStateFacts DEF AfterRetained
<1>2. CASE ~(retained # NoModel /\ ~Held(model, chat, retained))
  BY <1>2 DEF AfterRetained
<1> QED
  BY <1>1, <1>2

\* The object of an intent in chat c that asks e: its chat's, with the session it may resume.
IntentObject(r, c, useHistory, e) ==
  /\ r \in OwnRecord /\ r.chat = c /\ r.params.of = c /\ r.load = "idle" /\ r.context
  /\ r.params.path = (IF useHistory THEN c ELSE NoChat)
  /\ r.params.small = config[c].small /\ r.small = config[c].small
  /\ r.onLoad = 0 /\ r.turn = 0 /\ r.intent = e
  /\ r.transcript = (IF useHistory THEN history[c] \cup {e} ELSE {})
  /\ \/ /\ r.nPast = 0 /\ r.cache = {}
        /\ ~(r.params.save /\ r.params.path = c /\ AfterRetained[c].exists)
     \/ /\ r.params.path = c /\ AfterRetained[c].exists /\ r.nPast = AfterRetained[c].nPast
        /\ r.cache = IF Cardinality(AfterRetained[c].cache) <= Room[r.small]
                     THEN AfterRetained[c].cache ELSE {}

LEMMA LoadedFacts ==
  ASSUME TypeOK, Made, NEW c \in Chats, NEW useHistory \in BOOLEAN, NEW e \in Exchanges
  PROVE  IntentObject(Loaded(c, useHistory, e, AfterRetained), c, useHistory, e)
<1>0. config[c] \in Configuration /\ config[c].small \in BOOLEAN /\ config[c].version \in 0..MaxEdits
      /\ config[c].save \in BOOLEAN /\ history[c] \in SUBSET Exchanges
      /\ e \in 0..MaxExchanges /\ e # 0
  BY DEF TypeOK, Configuration, Exchanges
<1> DEFINE p == [ConfigParams(c, config) EXCEPT !.save = @ /\ useHistory,
                                                !.path = IF useHistory THEN c ELSE NoChat]
           t == IF useHistory THEN history[c] \cup {e} ELSE {}
           r == [MadeModel(c, p) EXCEPT !.context = TRUE, !.small = config[c].small, !.intent = e,
                                        !.transcript = t]
           s == AfterRetained
           q == Restored(r, s)
<1>1. /\ p \in Params /\ p.of = c /\ p.path = (IF useHistory THEN c ELSE NoChat)
      /\ p.small = config[c].small
  <2>1. (config[c].save /\ useHistory) \in BOOLEAN
    BY <1>0
  <2> QED
    BY <1>0, <2>1 DEF ConfigParams, Params
<1>2. Loaded(c, useHistory, e, AfterRetained) = q
  BY DEF Loaded
<1> HIDE DEF p
<1>3. 0 \in 0..MaxExchanges /\ t \in SUBSET Exchanges
  BY <1>0
<1> HIDE DEF t
<1>4. /\ r \in ModelRecord /\ r.chat = c /\ r.params = p /\ r.small = config[c].small
      /\ r.nPast = 0 /\ r.cache = {} /\ r.turn = 0 /\ r.load = "idle" /\ r.context
      /\ r.onLoad = 0 /\ r.intent = e /\ r.transcript = t
  BY <1>0, <1>1, <1>3 DEF MadeModel, ModelRecord
<1>5. s \in [Chats -> Sessions]
  BY AfterRetainedFacts DEF TypeOK
<1>8. p.save \in BOOLEAN
  BY <1>1 DEF Params
<1> HIDE DEF r, s
<1>6. /\ q \in ModelRecord /\ q.chat = c /\ q.params = p /\ q.load = "idle"
      /\ q.context /\ q.small = config[c].small /\ q.onLoad = 0 /\ q.turn = 0
      /\ q.intent = e /\ q.transcript = t
  BY <1>4, <1>5, RestoredFacts
<1>7. \/ /\ q.nPast = 0 /\ q.cache = {} /\ ~(p.save /\ p.path = c /\ s[c].exists)
      \/ /\ p.path = c /\ s[c].exists /\ q.nPast = s[c].nPast
         /\ q.cache = IF Cardinality(s[c].cache) <= Room[q.small] THEN s[c].cache ELSE {}
  <2>1. CASE p.save /\ p.path # NoChat /\ s[p.path].exists
    <3>0. p.path = c
      BY <1>1, <2>1
    <3>1. /\ s[c] \in Sessions /\ s[c].nPast \in Nat /\ s[c].cache \in SUBSET Exchanges
      BY <1>5 DEF Sessions
    <3>2. q = [r EXCEPT !.nPast = s[c].nPast,
                        !.cache = IF Cardinality(s[c].cache) <= Room[r.small] THEN s[c].cache ELSE {}]
      BY <1>4, <2>1, <3>0 DEF Restored
    <3> QED
      BY <1>4, <1>6, <2>1, <3>0, <3>1, <3>2 DEF ModelRecord
  <2>2. CASE ~(p.save /\ p.path # NoChat /\ s[p.path].exists)
    <3>1. q = r
      BY <1>4, <2>2 DEF Restored
    <3> QED
      BY <1>4, <2>2, <3>1
  <2> QED
    BY <2>1, <2>2
<1>9. q \in OwnRecord
  BY <1>1, <1>6 DEF OwnRecord
<1> HIDE DEF q
<1> QED
  BY <1>1, <1>2, <1>6, <1>7, <1>9 DEF IntentObject, s, t

\* An intent's object is a new one; the one LLaMa_obj held may go.
LEMMA IntentBeginCases ==
  ASSUME TypeOK, Made, NEW c \in Chats, NEW useHistory \in BOOLEAN, IntentBegin(c, useHistory),
         NextExchange \in Exchanges
  PROVE  \E m \in Models, ms \in [Models -> OwnRecord] :
            /\ model[m].chat = NoChat /\ \A n \in Models \ {m} : ms[n] = model[n]
            /\ IntentObject(ms[m], c, useHistory, NextExchange)
            /\ Release(ms, chat, session, m)
<1> DEFINE q == Loaded(c, useHistory, NextExchange, AfterRetained)
<1>1. PICK m \in Free : Release([model EXCEPT ![m] = q], chat, session, m)
  BY DEF IntentBegin
<1>2. IntentObject(q, c, useHistory, NextExchange)
  BY LoadedFacts
<1> HIDE DEF q
<1>3. q \in OwnRecord
  BY <1>2 DEF IntentObject
<1> DEFINE ms == [model EXCEPT ![m] = q]
<1>4. ms \in [Models -> OwnRecord] /\ ms[m] = q /\ \A n \in Models \ {m} : ms[n] = model[n]
  BY <1>1, <1>3 DEF Made, Free
<1>5. m \in Models /\ model[m].chat = NoChat
  BY <1>1 DEF Free
<1> QED
  BY <1>1, <1>2, <1>4, <1>5

\* Parameters are right at the start.
LEMMA TypedInit ==
  ASSUME Init
  PROVE  Typed
<1>1. config \in [Chats -> Configuration]
  <2>1. PICK save \in [Chats -> BOOLEAN] :
          config = [c \in Chats |->
                      [exists |-> TRUE, version |-> 0, save |-> save[c], small |-> FALSE]]
    BY DEF Init
  <2>2. 0 \in 0..MaxEdits
    OBVIOUS
  <2> QED
    BY <2>1, <2>2 DEF Configuration
<1>2. model \in [Models -> OwnRecord]
  BY UnusedFacts DEF Init
<1>3. session \in [Chats -> Sessions]
  BY NoSessionFacts DEF Init
<1>4. ObjectsTyped
  BY <1>2, <1>3 DEF Init, ObjectsTyped, Made, SettingsReachModel
<1>5. RestTyped
  BY <1>1 DEF Init, RestTyped
<1> QED
  BY <1>4, <1>5, TypedParts

\* Every step keeps parameters up to date and of the right chat.
LEMMA TypedStep ==
  ASSUME Typed, [Next]_vars
  PROVE  Typed'
<1> USE DEF files, screen, ghosts
<1>0. /\ TypeOK /\ Made /\ SettingsReachModel /\ RestTyped /\ ObjectsTyped
      /\ session \in [Chats -> Sessions] /\ model \in [Models -> ModelRecord]
      /\ config \in [Chats -> Configuration] /\ retained \in Models \cup {NoModel}
  BY TypedParts DEF Typed, TypeOK
<1>1. CASE UserSend
  <2>1. NextExchange \in Exchanges /\ asked' = [asked EXCEPT ![NextExchange] = chatName]
    BY <1>0, <1>1, AskTyped DEF UserSend, TypeOK
  <2>2. ObjectsTyped'
    BY <1>1, <2>1, SendTyped DEF UserSend
  <2>3. RestTyped'
    BY <1>0, <1>1, <2>1 DEF UserSend, RestTyped
  <2> QED
    BY <2>2, <2>3, TypedParts
<1>2. ASSUME NEW e \in Exchanges, SendAgain(e)
      PROVE  Typed'
  <2>1. ObjectsTyped'
    BY <1>2, SendTyped DEF SendAgain
  <2>2. RestTyped'
    BY <1>0, <1>2 DEF SendAgain, RestTyped
  <2> QED
    BY <2>1, <2>2, TypedParts
<1>3. ASSUME StopPredict \/ \E c \in Chats : SelectChat(c)
      PROVE  Typed'
  <2>1. session' = SavedByScreen /\ SavedByScreen \in [Chats -> Sessions]
    BY <1>0, <1>3, ScreenSaveFacts DEF StopPredict, SelectChat
  <2>2. UNCHANGED <<config, chat, model, retained>>
    BY <1>3 DEF StopPredict, SelectChat
  <2>3. ObjectsTyped'
    BY <1>0, <2>1, <2>2 DEF ObjectsTyped, Made, SettingsReachModel
  <2>4. history' \in [Chats -> SUBSET Exchanges]
    BY <1>0, <1>3 DEF StopPredict, SelectChat, RestTyped
  <2>5. chatName' \in Chats /\ messages' \in SUBSET Exchanges
    BY <1>0, <1>3, <2>4 DEF StopPredict, SelectChat, RestTyped
  <2>6. UNCHANGED <<setup, resend, asked, cleared>>
    BY <1>3 DEF StopPredict, SelectChat
  <2>7. RestTyped'
    BY <1>0, <2>2, <2>4, <2>5, <2>6 DEF RestTyped
  <2> QED
    BY <2>3, <2>7, TypedParts
<1>4. CASE ClearChat
  <2> DEFINE ms == IF chat = NoModel THEN model ELSE [model EXCEPT ![chat].params.save = FALSE]
             s == [session EXCEPT ![chatName] = NoSession]
  <2>1. ms \in [Models -> OwnRecord]
    BY <1>0, ClearedFacts
  <2>2. s \in [Chats -> Sessions]
    BY <1>0, NoSessionFacts DEF TypeOK
  <2>3. Release(ms, NoModel, s, retained)
    BY <1>4 DEF ClearChat
  <2> HIDE DEF ms, s
  <2>4. ObjectsTyped'
    BY <1>0, <2>1, <2>2, <2>3, ReleaseTyped
  <2>5. Remembered(chatName) \subseteq Exchanges
    <3>1. session[chatName] \in Sessions /\ \A n \in Models : model[n] \in ModelRecord
      BY <1>0 DEF RestTyped
    <3> QED
      BY <3>1 DEF Remembered, Sessions, ModelRecord
  <2>6. history' \in [Chats -> SUBSET Exchanges]
    BY <1>0, <1>4 DEF ClearChat, RestTyped
  <2>7. RestTyped'
    BY <1>0, <1>4, <2>5, <2>6 DEF ClearChat, RestTyped
  <2> QED
    BY <2>4, <2>7, TypedParts
<1>5. ASSUME \/ \E save, small \in BOOLEAN : EditSettings(save, small)
             \/ RefreshChatList
             \/ \E c \in Chats : DeleteChat(c)
      PROVE  Typed'
  <2>1. config' \in [Chats -> Configuration]
    BY <1>0, <1>5, ConfigsTyped
  <2>2. model' = UpdateChatParams(model, config')
    BY <1>5 DEF EditSettings, RefreshChatList, DeleteChat
  <2>3. UNCHANGED <<setup, history, session, chatName, messages, chat, retained, resend, asked, cleared>>
    BY <1>5 DEF EditSettings, RefreshChatList, DeleteChat
  <2>4. /\ model' \in [Models -> OwnRecord]
        /\ IF chat # NoModel /\ config'[model[chat].chat].exists
           THEN ParamsEffect(model', chat, ConfigParams(model[chat].chat, config'))
           ELSE model' = model
    BY <1>0, <2>1, <2>2, UpdateFacts
  <2>5. ASSUME chat # NoModel
        PROVE  model'[chat].chat \in Chats /\ UpToDate(model'[chat].params, config')
    <3>1. chat \in Models /\ model[chat].chat \in Chats
      BY <1>0, <2>5 DEF Made, TypeOK
    <3>2. CASE config'[model[chat].chat].exists
      <4>1. ParamsEffect(model', chat, ConfigParams(model[chat].chat, config'))
        BY <2>4, <2>5, <3>2
      <4>2. /\ ConfigParams(model[chat].chat, config').of = model[chat].chat
            /\ ConfigParams(model[chat].chat, config').version = config'[model[chat].chat].version
        BY <2>1, <3>1, ConfigFacts
      <4>3. /\ model'[chat].params = ConfigParams(model[chat].chat, config')
            /\ model'[chat].chat = model[chat].chat
        BY <3>1, <4>1 DEF ParamsEffect, Same
      <4> QED
        BY <3>1, <4>2, <4>3 DEF UpToDate
    <3>3. CASE ~config'[model[chat].chat].exists
      <4>1. model' = model
        BY <2>4, <3>3
      <4>2. model[chat].params.of \in {NoChat, model[chat].chat}
        BY <1>0, <3>1 DEF Made, OwnRecord
      <4> QED
        BY <3>1, <3>3, <4>1, <4>2 DEF UpToDate
    <3> QED
      BY <3>2, <3>3
  <2>6. ObjectsTyped'
    BY <1>0, <2>3, <2>4, <2>5 DEF ObjectsTyped, Made, SettingsReachModel, UpToDate
  <2>7. RestTyped'
    BY <1>0, <2>1, <2>3 DEF RestTyped
  <2> QED
    BY <2>6, <2>7, TypedParts
<1>6. ASSUME NEW m \in Models, LoadContext(m) \/ LoadState(m)
      PROVE  Typed'
  <2>1. /\ model' \in [Models -> OwnRecord] /\ \A n \in Models \ {m} : model'[n] = model[n]
        /\ model'[m].params = model[m].params /\ model'[m].chat = model[m].chat
    BY <1>0, <1>6, LoadingFacts
  <2>2. UNCHANGED <<files, screen, retained, ghosts>>
    BY <1>6 DEF LoadContext, LoadState
  <2>3. ObjectsTyped'
    BY <1>0, <2>1, <2>2 DEF ObjectsTyped, Made, SettingsReachModel
  <2>4. RestTyped'
    BY <1>0, <2>2 DEF RestTyped
  <2> QED
    BY <2>3, <2>4, TypedParts
<1>7. ASSUME NEW m \in Models, LoadDone(m)
      PROVE  Typed'
  <2>1. PICK ms \in [Models -> OwnRecord] :
         \/ /\ chat \in Models /\ model[chat].context
            /\ resend' = resend \cup {model[m].onLoad} /\ history' = history
            /\ Release(ms, chat, session, retained)
            /\ \A n \in Models : /\ Same(ms[n], model[n])
                                 /\ ms[n].load = IF n = m THEN "idle" ELSE model[n].load
                                 /\ ms[n].params = IF n = chat THEN DefaultParams ELSE model[n].params
         \/ /\ chat # NoModel => ~model[chat].context
            /\ IdleEffect(ms, m) /\ GiveUp(ms) /\ resend' = resend
    BY <1>0, <1>7, LoadDoneCases
  <2>2. UNCHANGED <<setup, config, chatName, messages, asked, cleared>>
    BY <1>7 DEF LoadDone
  <2>3. CASE /\ chat \in Models /\ resend' = resend \cup {model[m].onLoad} /\ history' = history
             /\ Release(ms, chat, session, retained)
             /\ \A n \in Models : /\ Same(ms[n], model[n])
                                  /\ ms[n].params = IF n = chat THEN DefaultParams ELSE model[n].params
    <3>1. chat # NoModel /\ ms[chat].chat = model[chat].chat /\ ms[chat].params = DefaultParams
      BY <2>3 DEF Same
    <3>2. ms[chat].chat \in Chats /\ UpToDate(ms[chat].params, config')
      BY <1>0, <3>1, DefaultFacts DEF Made, UpToDate
    <3>3. ObjectsTyped'
      BY <1>0, <2>3, <3>2, ReleaseTyped
    <3>4. model[m].onLoad \in Exchanges
      BY <1>0, <1>7 DEF LoadDone, Made, OwnRecord, ModelRecord, Exchanges
    <3>5. RestTyped'
      BY <1>0, <2>2, <2>3, <3>4 DEF RestTyped
    <3> QED
      BY <3>3, <3>5, TypedParts
  <2>4. CASE IdleEffect(ms, m) /\ GiveUp(ms) /\ resend' = resend
    <3>1. ObjectsTyped' /\ history' \in [Chats -> SUBSET Exchanges]
      BY <2>4, GiveUpTyped
    <3>2. RestTyped'
      BY <1>0, <2>2, <2>4, <3>1 DEF RestTyped
    <3> QED
      BY <3>1, <3>2, TypedParts
  <2> QED
    BY <2>1, <2>3, <2>4
<1>8. ASSUME NEW m \in Models, LoadFail(m)
      PROVE  Typed'
  <2> DEFINE ms == [model EXCEPT ![m].load = "idle"]
  <2>1. ms \in [Models -> OwnRecord]
    BY <1>0, IdledFacts
  <2>2. GiveUp(ms) /\ UNCHANGED <<setup, config, chatName, messages, resend, ghosts>>
    BY <1>8 DEF LoadFail
  <2> HIDE DEF ms
  <2>3. ObjectsTyped' /\ history' \in [Chats -> SUBSET Exchanges]
    BY <2>1, <2>2, GiveUpTyped
  <2>4. RestTyped'
    BY <1>0, <2>2, <2>3 DEF RestTyped
  <2> QED
    BY <2>3, <2>4, TypedParts
<1>9. ASSUME NEW m \in Models, FinishTurn(m)
      PROVE  Typed'
  <2>1. PICK ms \in [Models -> OwnRecord] :
            /\ \A n \in Models \ {m} : ms[n] = model[n]
            /\ EvaluatedFrom(ms[m], model[m])
            /\ Release(ms, chat, IF chat = NoModel THEN session ELSE SaveState(session, ms[chat]), retained)
    BY <1>0, <1>9, FinishTurnCases
  <2> DEFINE s == IF chat = NoModel THEN session ELSE SaveState(session, ms[chat])
  <2>2. s \in [Chats -> Sessions]
    <3>1. chat # NoModel => ms[chat] \in ModelRecord
      BY <1>0 DEF TypeOK, OwnRecord
    <3> QED
      BY <1>0, <3>1, SaveStateFacts
  <2>3. Release(ms, chat, s, retained)
    BY <2>1
  <2>4. \A n \in Models : ms[n].chat = model[n].chat /\ ms[n].params = model[n].params
    BY <2>1 DEF EvaluatedFrom, ReadBy
  <2>5. UNCHANGED <<setup, config, chatName, messages, resend, ghosts>>
    BY <1>9 DEF FinishTurn
  <2>6. chat # NoModel => ms[chat].chat \in Chats /\ UpToDate(ms[chat].params, config')
    BY <1>0, <2>4, <2>5 DEF Made, TypeOK, SettingsReachModel, UpToDate
  <2> HIDE DEF s
  <2>7. ObjectsTyped'
    BY <1>0, <2>2, <2>3, <2>6, ReleaseTyped DEF TypeOK
  <2>8. history' \in [Chats -> SUBSET Exchanges]
    BY <1>0, <1>9 DEF FinishTurn, RestTyped
  <2>9. RestTyped'
    BY <1>0, <2>5, <2>8 DEF RestTyped
  <2> QED
    BY <2>7, <2>9, TypedParts
<1>10. ASSUME NEW c \in Chats, NEW useHistory \in BOOLEAN, IntentBegin(c, useHistory)
       PROVE  Typed'
  <2>1. NextExchange \in Exchanges /\ asked' = [asked EXCEPT ![NextExchange] = c]
    BY <1>10, AskTyped DEF IntentBegin
  <2>2. PICK m \in Models, ms \in [Models -> OwnRecord] :
           /\ model[m].chat = NoChat /\ \A n \in Models \ {m} : ms[n] = model[n]
           /\ Release(ms, chat, session, m)
    BY <1>0, <1>10, <2>1, IntentBeginCases
  <2>3. UNCHANGED <<setup, config, history, chatName, messages, resend, cleared>>
    BY <1>10 DEF IntentBegin
  <2>4. chat # NoModel => ms[chat].chat \in Chats /\ UpToDate(ms[chat].params, config')
    <3>1. chat # NoModel => chat # m
      BY <1>0, <2>2 DEF Made
    <3> QED
      BY <1>0, <2>2, <2>3, <3>1 DEF Made, TypeOK, SettingsReachModel, UpToDate
  <2>5. ObjectsTyped'
    BY <1>0, <2>2, <2>4, ReleaseTyped DEF TypeOK
  <2>6. RestTyped'
    BY <1>0, <2>1, <2>3 DEF RestTyped
  <2> QED
    BY <2>5, <2>6, TypedParts
<1>12. ASSUME NEW m \in Models, IntentAnswer(m)
       PROVE  Typed'
  <2>1. PICK ms \in [Models -> OwnRecord] :
            /\ \A n \in Models \ {m} : ms[n] = model[n]
            /\ AnsweredFrom(ms[m], model[m])
            /\ Release(ms, chat, SaveState(session, ms[m]), retained)
    BY <1>0, <1>12, AnswerCases
  <2> DEFINE s == SaveState(session, ms[m])
  <2>2. s \in [Chats -> Sessions]
    <3>1. ms[m] \in ModelRecord
      BY DEF OwnRecord
    <3> QED
      BY <1>0, <3>1, SaveStateFacts
  <2>3. Release(ms, chat, s, retained)
    BY <2>1
  <2>4. \A n \in Models : ms[n].chat = model[n].chat /\ ms[n].params = model[n].params
    BY <2>1 DEF AnsweredFrom, ReadBy
  <2>5. UNCHANGED <<setup, config, chatName, messages, resend, ghosts>>
    BY <1>12 DEF IntentAnswer
  <2>6. chat # NoModel => ms[chat].chat \in Chats /\ UpToDate(ms[chat].params, config')
    BY <1>0, <2>4, <2>5 DEF Made, TypeOK, SettingsReachModel, UpToDate
  <2> HIDE DEF s
  <2>7. ObjectsTyped'
    BY <1>0, <2>2, <2>3, <2>6, ReleaseTyped DEF TypeOK
  <2>8. history' \in [Chats -> SUBSET Exchanges]
    <3>1. model[m].transcript \in SUBSET Exchanges
      BY <1>0 DEF ModelRecord
    <3> QED
      BY <1>0, <1>12, <3>1 DEF IntentAnswer, RestTyped
  <2>9. RestTyped'
    BY <1>0, <2>5, <2>8 DEF RestTyped
  <2> QED
    BY <2>7, <2>9, TypedParts
<1>13. ASSUME NEW m \in Models, LoadBegin(m)
       PROVE  Typed'
  <2>1. PICK ms \in [Models -> OwnRecord] :
           /\ \A n \in Models \ {m} : ms[n] = model[n]
           /\ Begun(ms[m], model[m])
           /\ Release(ms, chat, session, m)
    BY <1>0, <1>13, LoadBeginCases
  <2>2. \A n \in Models : ms[n].chat = model[n].chat /\ ms[n].params = model[n].params
    BY <2>1 DEF Begun
  <2>3. UNCHANGED <<setup, config, history, chatName, messages, resend, ghosts>>
    BY <1>13 DEF LoadBegin
  <2>4. chat # NoModel => ms[chat].chat \in Chats /\ UpToDate(ms[chat].params, config')
    BY <1>0, <2>2, <2>3 DEF Made, TypeOK, SettingsReachModel, UpToDate
  <2>5. ObjectsTyped'
    BY <1>0, <2>1, <2>4, ReleaseTyped DEF TypeOK
  <2>6. RestTyped'
    BY <1>0, <2>3 DEF RestTyped
  <2> QED
    BY <2>5, <2>6, TypedParts
<1>11. CASE UNCHANGED vars
  BY <1>11 DEF vars, Typed, TypeOK, Made, SettingsReachModel
<1> QED
  BY <1>1, <1>2, <1>3, <1>4, <1>5, <1>6, <1>7, <1>8, <1>9, <1>10, <1>11, <1>12, <1>13 DEF Next

\* Every model runs with its own chat's parameters, as they are on disk, whatever is
\* selected, loaded, edited, deleted or asked in between (update_chat_params,
\* load_model_by_chat_name_prepare, after_model_load).
THEOREM ParamsCorrectHolds == Spec => []ParamsCorrect
<1>1. Init => Typed
  BY TypedInit
<1>2. Typed /\ [Next]_vars => Typed'
  BY TypedStep
<1>3. Typed => ParamsCorrect
  BY DEF Typed, Made, OwnRecord, ParamsCorrect, ParamsOfItsChat
<1> QED
  BY <1>1, <1>2, <1>3, PTL DEF Spec

------------------------------------------------------------------------------
(* The transcript on the screen and its file *)

\* Where intents keep out of the chats in use, the screen has all its file has, and so has an
\* intent that keeps a transcript: what either saves loses nothing.
Elsewhere == "intents anywhere" \notin setup.may

KeepsTranscript(r) == r.intent # 0 /\ r.params.path # NoChat

ScreenHasFile ==
  Elsewhere =>
    /\ history[chatName] \subseteq messages
    /\ \A m \in Models : model[m].intent # 0 =>
          /\ model[m].chat # chatName
          /\ \A n \in Models \ {m} : model[n].intent # 0 => model[n].chat # model[m].chat
    /\ \A m \in Models : KeepsTranscript(model[m]) => history[model[m].chat] \subseteq model[m].transcript

\* As long as the intents are asking what they were asking.
SameIntents(ms) ==
  \A m \in Models : ms[m].intent # 0 =>
      /\ ms[m].intent = model[m].intent /\ ms[m].chat = model[m].chat
      /\ ms[m].transcript = model[m].transcript
      /\ KeepsTranscript(ms[m]) => KeepsTranscript(model[m])

\* A release drops no intent and makes none.
LEMMA ReleaseIntents ==
  ASSUME NEW ms \in [Models -> OwnRecord], NEW c \in Models \cup {NoModel},
         NEW s \in [Chats -> Sessions], NEW k \in Models \cup {NoModel}, Release(ms, c, s, k)
  PROVE  \A m \in Models : model'[m] = ms[m] \/ (model'[m] = Unused /\ model'[m].intent = 0 /\ ms[m].intent = 0)
<1>1. ms \in [Models -> ModelRecord]
  BY DEF OwnRecord
<1> QED
  BY <1>1, ReleaseFacts, UnusedFacts DEF Held

\* Where the intents go on as they were, histories that only grow by what is on the screen
\* stay within what the screen and the intents have.
LEMMA ScreenKept ==
  ASSUME Typed, ScreenHasFile, setup' = setup, SameIntents(model'),
         \/ UNCHANGED <<history, chatName>> /\ messages \subseteq messages'
         \/ history' = [history EXCEPT ![chatName] = messages] /\ UNCHANGED <<chatName, messages>>
         \/ history' = [history EXCEPT ![chatName] = {}] /\ messages' = {} /\ UNCHANGED chatName
  PROVE  ScreenHasFile'
<1>0. history \in [Chats -> SUBSET Exchanges] /\ chatName \in Chats /\ messages \in SUBSET Exchanges
  BY DEF Typed, TypeOK
<1>1. SUFFICES ASSUME Elsewhere, Elsewhere'
               PROVE  /\ history'[chatName'] \subseteq messages'
                      /\ \A m \in Models : model'[m].intent # 0 =>
                            /\ model'[m].chat # chatName'
                            /\ \A n \in Models \ {m} : model'[n].intent # 0 => model'[n].chat # model'[m].chat
                      /\ \A m \in Models : KeepsTranscript(model'[m]) =>
                            history'[model'[m].chat] \subseteq model'[m].transcript
  BY DEF ScreenHasFile, Elsewhere, KeepsTranscript
<1>2. /\ history[chatName] \subseteq messages
      /\ \A m \in Models : model[m].intent # 0 =>
            /\ model[m].chat # chatName
            /\ \A n \in Models \ {m} : model[n].intent # 0 => model[n].chat # model[m].chat
      /\ \A m \in Models : KeepsTranscript(model[m]) => history[model[m].chat] \subseteq model[m].transcript
  BY <1>1 DEF ScreenHasFile
<1>3. history'[chatName'] \subseteq messages'
  BY <1>0, <1>2
<1>4. ASSUME NEW m \in Models, model'[m].intent # 0
      PROVE  /\ model'[m].chat # chatName'
             /\ \A n \in Models \ {m} : model'[n].intent # 0 => model'[n].chat # model'[m].chat
  BY <1>2, <1>4 DEF SameIntents
<1>5. ASSUME NEW m \in Models, KeepsTranscript(model'[m])
      PROVE  history'[model'[m].chat] \subseteq model'[m].transcript
  <2>1. /\ model'[m].intent # 0 /\ model'[m].chat = model[m].chat
        /\ model'[m].transcript = model[m].transcript /\ KeepsTranscript(model[m])
    BY <1>5 DEF SameIntents, KeepsTranscript
  <2>2. model[m].chat # chatName
    BY <1>2, <2>1 DEF SameIntents
  <2>3. model[m].chat \in Chats
    <3>1. model[m] \in OwnRecord
      BY DEF Typed, Made
    <3> QED
      BY <2>1, <3>1 DEF OwnRecord, ModelRecord, KeepsTranscript
  <2>4. history'[model[m].chat] = history[model[m].chat]
    BY <1>0, <2>2, <2>3
  <2> QED
    BY <1>2, <2>1, <2>4
<1> QED
  BY <1>3, <1>4, <1>5

\* No step of the chat window, of a load or of a turn changes what the intents ask.
LEMMA IntentsGoOn ==
  ASSUME Typed,
         \/ UserSend \/ StopPredict \/ ClearChat \/ RefreshChatList
         \/ \E c \in Chats : SelectChat(c) \/ DeleteChat(c)
         \/ \E save, small \in BOOLEAN : EditSettings(save, small)
         \/ \E m \in Models : LoadBegin(m) \/ LoadContext(m) \/ LoadState(m) \/ LoadDone(m) \/ LoadFail(m)
         \/ \E m \in Models : FinishTurn(m)
         \/ \E e \in Exchanges : SendAgain(e)
         \/ UNCHANGED vars
  PROVE  SameIntents(model')
<1>0. /\ TypeOK /\ Made /\ session \in [Chats -> Sessions] /\ retained \in Models \cup {NoModel}
      /\ chat \in Models \cup {NoModel} /\ model \in [Models -> OwnRecord]
  BY DEF Typed, TypeOK, Made
<1>1. ASSUME NEW ms \in [Models -> OwnRecord], SameIntents(ms),
             NEW c \in Models \cup {NoModel}, NEW s \in [Chats -> Sessions],
             NEW k \in Models \cup {NoModel}, Release(ms, c, s, k)
      PROVE  SameIntents(model')
  <2>1. \A m \in Models : model'[m] = ms[m] \/ model'[m].intent = 0
    BY <1>1, ReleaseIntents
  <2> QED
    BY <1>1, <2>1 DEF SameIntents, KeepsTranscript
<1>2. SameIntents(model)
  BY DEF SameIntents
<1>3. ASSUME NEW e \in Exchanges, Send(e)
      PROVE  SameIntents(model')
  <2>1. PICK ms \in [Models -> OwnRecord], c \in Models \cup {NoModel} :
          Release(ms, c, session, retained) /\ SendEffect(ms, c, e)
    BY <1>0, <1>3, SendCases
  <2>2. SameIntents(ms)
    <3>1. ASSUME c \in Models, SendEffect(ms, c, e), c # NoModel
          PROVE  ms[c].intent # 0 => /\ ms[c].intent = model[c].intent /\ ms[c].chat = model[c].chat
                                     /\ ms[c].transcript = model[c].transcript
                                     /\ KeepsTranscript(ms[c]) => KeepsTranscript(model[c])
      <4>1. CASE Kept = NoModel
        BY <1>0, <3>1, <4>1, NewObjectFacts DEF SendEffect, LoadsFrom
      <4>2. CASE Kept # NoModel /\ PredictsFrom(ms[c], model[c], e)
        BY <3>1, <4>2 DEF PredictsFrom, KeepsTranscript
      <4>3. CASE Kept # NoModel /\ LoadsFrom(ms[c], model[c], e)
        BY <1>0, <3>1, <4>3 DEF SendEffect, LoadsFrom, OwnRecord, KeepsTranscript
      <4> QED
        BY <3>1, <4>1, <4>2, <4>3 DEF SendEffect
    <3> QED
      BY <1>2, <2>1, <3>1 DEF SendEffect, SameIntents
  <2> QED
    BY <1>0, <1>1, <2>1, <2>2
<1>4. ASSUME NEW ms \in [Models -> OwnRecord],
             \A n \in Models : /\ Same(ms[n], model[n])
                               /\ ms[n].params.path # NoChat => model[n].params.path # NoChat
      PROVE  SameIntents(ms)
  BY <1>4 DEF Same, SameIntents, KeepsTranscript
<1>5. SavedByScreen \in [Chats -> Sessions]
  BY <1>0, ScreenSaveFacts
<1>6. CASE UserSend
  <2>1. NextExchange \in Exchanges
    BY <1>0, <1>6, AskTyped DEF UserSend, TypeOK
  <2> QED
    BY <1>3, <1>6, <2>1 DEF UserSend
<1>7. CASE ClearChat
  <2> DEFINE ms == IF chat = NoModel THEN model ELSE [model EXCEPT ![chat].params.save = FALSE]
             s == [session EXCEPT ![chatName] = NoSession]
  <2>1. s \in [Chats -> Sessions]
    BY <1>0, NoSessionFacts
  <2>2. /\ ms \in [Models -> OwnRecord]
        /\ \A n \in Models : Same(ms[n], model[n]) /\ ms[n].params.path = model[n].params.path
    <3>1. CASE chat = NoModel
      BY <1>0, <3>1 DEF Same
    <3>2. CASE chat # NoModel
      <4>1. ms = [model EXCEPT ![chat].params.save = FALSE]
        BY <3>2
      <4>2. model[chat] \in ModelRecord /\ model[chat].params \in Params
        BY <1>0, <3>2 DEF TypeOK, ModelRecord
      <4>3. ms[chat].params.path = model[chat].params.path
        BY <1>0, <3>2, <4>1, <4>2 DEF ModelRecord, Params
      <4> QED
        BY <1>0, <4>3, ClearedFacts
    <3> QED
      BY <3>1, <3>2
  <2>3. Release(ms, NoModel, s, retained)
    BY <1>7 DEF ClearChat
  <2> HIDE DEF ms, s
  <2> QED
    BY <1>0, <1>1, <1>4, <2>1, <2>2, <2>3
<1>8. CASE \/ RefreshChatList \/ \E c \in Chats : DeleteChat(c)
           \/ \E save, small \in BOOLEAN : EditSettings(save, small)
  <2>1. config' \in [Chats -> Configuration]
    BY <1>0, <1>8, ConfigsTyped DEF files
  <2>2. model' = UpdateChatParams(model, config')
    BY <1>8 DEF EditSettings, RefreshChatList, DeleteChat, files
  <2>3. /\ model' \in [Models -> OwnRecord]
        /\ IF chat # NoModel /\ config'[model[chat].chat].exists
           THEN ParamsEffect(model', chat, ConfigParams(model[chat].chat, config'))
           ELSE model' = model
    BY <1>0, <2>1, <2>2, UpdateFacts
  <2>4. CASE chat # NoModel /\ ParamsEffect(model', chat, ConfigParams(model[chat].chat, config'))
    <3>1. ConfigParams(model[chat].chat, config').path = NoChat
      BY <1>0, <2>1, <2>4, ConfigFacts DEF Made
    <3> QED
      BY <1>4, <2>3, <2>4, <3>1 DEF ParamsEffect
  <2> QED
    BY <1>2, <2>3, <2>4
<1>9. ASSUME NEW m \in Models, LoadBegin(m)
      PROVE  SameIntents(model')
  <2>1. PICK ms \in [Models -> OwnRecord] :
           /\ \A n \in Models \ {m} : ms[n] = model[n]
           /\ Begun(ms[m], model[m])
           /\ Release(ms, chat, session, m)
    BY <1>0, <1>9, LoadBeginCases
  <2>2. SameIntents(ms)
    BY <2>1 DEF Begun, SameIntents, KeepsTranscript
  <2> QED
    BY <1>0, <1>1, <2>1, <2>2
<1>10. ASSUME NEW m \in Models, LoadContext(m) \/ LoadState(m)
       PROVE  SameIntents(model')
  BY <1>0, <1>10, LoadingFacts DEF SameIntents, KeepsTranscript
<1>11. ASSUME NEW m \in Models, NEW ms \in [Models -> OwnRecord], IdleEffect(ms, m), GiveUp(ms)
       PROVE  SameIntents(model')
  <2>1. SameIntents(ms)
    BY <1>4, <1>11 DEF IdleEffect
  <2> QED
    BY <1>0, <1>1, <1>5, <1>11, <2>1 DEF GiveUp
<1>12. ASSUME NEW m \in Models, LoadDone(m)
       PROVE  SameIntents(model')
  <2>1. PICK ms \in [Models -> OwnRecord] :
         \/ /\ chat \in Models /\ Release(ms, chat, session, retained)
            /\ \A n \in Models : /\ Same(ms[n], model[n])
                                 /\ ms[n].params = IF n = chat THEN DefaultParams ELSE model[n].params
         \/ IdleEffect(ms, m) /\ GiveUp(ms)
    BY <1>0, <1>12, LoadDoneCases
  <2>2. CASE /\ chat \in Models /\ Release(ms, chat, session, retained)
             /\ \A n \in Models : /\ Same(ms[n], model[n])
                                  /\ ms[n].params = IF n = chat THEN DefaultParams ELSE model[n].params
    <3>1. SameIntents(ms)
      BY <1>4, <2>2, DefaultFacts
    <3> QED
      BY <1>0, <1>1, <2>2, <3>1
  <2> QED
    BY <1>11, <2>1, <2>2
<1>13. ASSUME NEW m \in Models, LoadFail(m)
       PROVE  SameIntents(model')
  BY <1>0, <1>11, <1>13, IdledFacts DEF LoadFail
<1>14. ASSUME NEW m \in Models, FinishTurn(m)
       PROVE  SameIntents(model')
  <2>1. PICK ms \in [Models -> OwnRecord] :
            /\ \A n \in Models \ {m} : ms[n] = model[n]
            /\ EvaluatedFrom(ms[m], model[m])
            /\ Release(ms, chat, IF chat = NoModel THEN session ELSE SaveState(session, ms[chat]), retained)
    BY <1>0, <1>14, FinishTurnCases
  <2>2. SameIntents(ms)
    BY <2>1 DEF EvaluatedFrom, ReadBy, SameIntents, KeepsTranscript
  <2> DEFINE s == IF chat = NoModel THEN session ELSE SaveState(session, ms[chat])
  <2>3. s \in [Chats -> Sessions]
    <3>1. \A n \in Models : ms[n] \in ModelRecord
      BY DEF OwnRecord
    <3> QED
      BY <1>0, <3>1, SaveStateFacts
  <2>4. Release(ms, chat, s, retained)
    BY <2>1
  <2> HIDE DEF s
  <2> QED
    BY <1>0, <1>1, <2>2, <2>3, <2>4
<1>15. CASE StopPredict \/ (\E c \in Chats : SelectChat(c)) \/ UNCHANGED vars
  <2>1. model' = model
    BY <1>15 DEF StopPredict, SelectChat, vars, screen, files
  <2> QED
    BY <1>2, <2>1
<1> QED
  BY <1>3, <1>6, <1>7, <1>8, <1>9, <1>10, <1>12, <1>13, <1>14, <1>15 DEF SendAgain

\* No step but Clear takes an exchange out of a history, if screen and intents keep apart.
LEMMA ScreenStep ==
  ASSUME Typed, ScreenHasFile, [Next]_vars
  PROVE  /\ ScreenHasFile'
         /\ ClearChat \/ ~Elsewhere \/ \A c \in Chats : history[c] \subseteq history'[c]
<1> DEFINE Grows == \A c \in Chats : history[c] \subseteq history'[c]
           Goal == ScreenHasFile' /\ (ClearChat \/ ~Elsewhere \/ Grows)
           Saved0 == history' = [history EXCEPT ![chatName] = messages]
<1>0. /\ history \in [Chats -> SUBSET Exchanges] /\ chatName \in Chats /\ messages \in SUBSET Exchanges
      /\ model \in [Models -> OwnRecord] /\ retained \in Models \cup {NoModel}
      /\ chat \in Models \cup {NoModel} /\ session \in [Chats -> Sessions] /\ TypeOK /\ Made
  BY DEF Typed, TypeOK, Made
<1>1. ASSUME SameIntents(model'), UNCHANGED <<setup, history, chatName>>, messages \subseteq messages'
      PROVE  Goal
  BY <1>1, ScreenKept
<1>2. ASSUME SameIntents(model'), Saved0, UNCHANGED <<setup, chatName, messages>>
      PROVE  Goal
  <2>1. ScreenHasFile'
    BY <1>2, ScreenKept
  <2>2. Elsewhere => history[chatName] \subseteq messages
    BY DEF ScreenHasFile
  <2> QED
    BY <1>0, <1>2, <2>1, <2>2
<1>3. CASE UserSend
  BY <1>1, <1>3, IntentsGoOn DEF UserSend
<1>4. CASE StopPredict
  BY <1>2, <1>4, IntentsGoOn DEF StopPredict, screen
<1>5. ASSUME NEW c \in Chats, SelectChat(c)
      PROVE  Goal
  <2>1. /\ Saved0 /\ setup' = setup /\ messages' = history'[c] /\ chatName' = c /\ model' = model
        /\ ~Elsewhere \/ ~AskedByIntent(c)
    BY <1>5 DEF SelectChat, Elsewhere
  <2>2. Elsewhere => Grows
    BY <1>0, <2>1 DEF ScreenHasFile
  <2>3. ASSUME Elsewhere'
        PROVE  /\ history'[chatName'] \subseteq messages'
               /\ \A m \in Models : model'[m].intent # 0 =>
                     /\ model'[m].chat # chatName'
                     /\ \A n \in Models \ {m} : model'[n].intent # 0 => model'[n].chat # model'[m].chat
               /\ \A m \in Models : KeepsTranscript(model'[m]) =>
                     history'[model'[m].chat] \subseteq model'[m].transcript
    <3>1. Elsewhere
      BY <2>1, <2>3 DEF Elsewhere
    <3>2. \A m \in Models : model[m].intent # 0 => model[m].chat # c
      BY <2>1, <3>1 DEF AskedByIntent
    <3>3. \A m \in Models : KeepsTranscript(model[m]) =>
             history'[model[m].chat] \subseteq model[m].transcript
      <4>1. ASSUME NEW m \in Models, KeepsTranscript(model[m])
            PROVE  history'[model[m].chat] = history[model[m].chat]
        <5>1. model[m].chat \in Chats /\ model[m].chat # chatName
          BY <1>0, <3>1, <4>1 DEF ScreenHasFile, KeepsTranscript, OwnRecord, ModelRecord
        <5> QED
          BY <1>0, <2>1, <5>1
      <4> QED
        BY <3>1, <4>1 DEF ScreenHasFile
    <3> QED
      BY <2>1, <3>1, <3>2, <3>3 DEF ScreenHasFile
  <2>4. ScreenHasFile'
    BY <2>3 DEF ScreenHasFile, KeepsTranscript, Elsewhere
  <2> QED
    BY <2>2, <2>4
<1>6. CASE ClearChat
  BY <1>6, IntentsGoOn, ScreenKept DEF ClearChat
<1>7. CASE RefreshChatList \/ \E c \in Chats : DeleteChat(c)
  BY <1>1, <1>7, IntentsGoOn DEF RefreshChatList, DeleteChat, files, screen
<1>8. CASE \E save, small \in BOOLEAN : EditSettings(save, small)
  BY <1>1, <1>8, IntentsGoOn DEF EditSettings, screen
<1>9. ASSUME NEW m \in Models, LoadBegin(m) \/ LoadContext(m) \/ LoadState(m) \/ LoadDone(m) \/ LoadFail(m)
      PROVE  Goal
  <2>0. SameIntents(model')
    BY <1>9, IntentsGoOn
  <2>1. CASE LoadBegin(m) \/ LoadContext(m) \/ LoadState(m)
    BY <1>1, <2>0, <2>1 DEF LoadBegin, LoadContext, LoadState, files, screen
  <2>2. CASE LoadDone(m)
    BY <1>1, <1>2, <2>0, <2>2 DEF LoadDone, GiveUp
  <2>3. CASE LoadFail(m)
    BY <1>2, <2>0, <2>3 DEF LoadFail, GiveUp
  <2> QED
    BY <1>9, <2>1, <2>2, <2>3
<1>10. ASSUME NEW m \in Models, FinishTurn(m)
       PROVE  Goal
  BY <1>2, <1>10, IntentsGoOn DEF FinishTurn
<1>11. ASSUME NEW e \in Exchanges, SendAgain(e)
       PROVE  Goal
  BY <1>1, <1>11, IntentsGoOn DEF SendAgain
<1>12. ASSUME NEW c \in Chats, NEW useHistory \in BOOLEAN, IntentBegin(c, useHistory)
       PROVE  Goal
  <2>1. /\ UNCHANGED <<setup, history, chatName, messages>>
        /\ Elsewhere => c # chatName /\ ~AskedByIntent(c)
    BY <1>12 DEF IntentBegin, MayAsk, Elsewhere
  <2>2. NextExchange \in Exchanges
    BY <1>12, AskTyped DEF IntentBegin
  <2>3. PICK m \in Models, ms \in [Models -> OwnRecord] :
           /\ model[m].chat = NoChat /\ \A n \in Models \ {m} : ms[n] = model[n]
           /\ IntentObject(ms[m], c, useHistory, NextExchange)
           /\ Release(ms, chat, session, m)
    BY <1>0, <1>12, <2>2, IntentBeginCases
  <2>4. \A n \in Models : model'[n] = ms[n] \/ model'[n].intent = 0
    BY <1>0, <2>3, ReleaseIntents
  <2>5. ASSUME Elsewhere
        PROVE  /\ \A n \in Models : ms[n].intent # 0 =>
                     /\ ms[n].chat # chatName
                     /\ \A o \in Models \ {n} : ms[o].intent # 0 => ms[o].chat # ms[n].chat
               /\ \A n \in Models : KeepsTranscript(ms[n]) => history[ms[n].chat] \subseteq ms[n].transcript
    <3>1. /\ ms[m].chat = c
          /\ ms[m].params.path # NoChat => ms[m].transcript = history[c] \cup {NextExchange}
      BY <2>3 DEF IntentObject
    <3>2. \A n \in Models : model[n].intent # 0 => model[n].chat # c
      BY <2>1, <2>5 DEF AskedByIntent
    <3>3. ASSUME NEW n \in Models, ms[n].intent # 0
          PROVE  /\ ms[n].chat # chatName
                 /\ \A o \in Models \ {n} : ms[o].intent # 0 => ms[o].chat # ms[n].chat
      <4>1. CASE n = m
        BY <2>1, <2>3, <2>5, <3>1, <3>2, <4>1
      <4>2. CASE n # m
        <5>1. ms[n] = model[n] /\ model[n].intent # 0
          BY <2>3, <3>3, <4>2
        <5>2. /\ model[n].chat # chatName
              /\ \A o \in Models \ {n} : model[o].intent # 0 => model[o].chat # model[n].chat
          BY <2>5, <5>1 DEF ScreenHasFile
        <5>3. ASSUME NEW o \in Models \ {n}, ms[o].intent # 0
              PROVE  ms[o].chat # ms[n].chat
          <6>1. CASE o = m
            BY <3>1, <3>2, <5>1, <6>1
          <6>2. CASE o # m
            BY <2>3, <5>1, <5>2, <5>3, <6>2
          <6> QED
            BY <6>1, <6>2
        <5> QED
          BY <5>1, <5>2, <5>3
      <4> QED
        BY <4>1, <4>2
    <3>4. ASSUME NEW n \in Models, KeepsTranscript(ms[n])
          PROVE  history[ms[n].chat] \subseteq ms[n].transcript
      <4>1. CASE n = m
        BY <3>1, <3>4, <4>1 DEF KeepsTranscript
      <4>2. CASE n # m
        BY <2>3, <2>5, <3>4, <4>2 DEF ScreenHasFile
      <4> QED
        BY <4>1, <4>2
    <3> QED
      BY <3>3, <3>4
  <2>6. ScreenHasFile'
    BY <2>1, <2>4, <2>5 DEF ScreenHasFile, KeepsTranscript, Elsewhere
  <2> QED
    BY <2>1, <2>6
<1>13. ASSUME NEW m \in Models, IntentAnswer(m)
       PROVE  Goal
  <2>1. /\ UNCHANGED <<setup, chatName, messages>> /\ model[m].intent # 0
        /\ history' = IF model[m].params.path = NoChat THEN history
                      ELSE [history EXCEPT ![model[m].chat] = model[m].transcript]
    BY <1>13 DEF IntentAnswer
  <2>2. PICK ms \in [Models -> OwnRecord] :
            /\ \A n \in Models \ {m} : ms[n] = model[n]
            /\ AnsweredFrom(ms[m], model[m])
            /\ Release(ms, chat, SaveState(session, ms[m]), retained)
    BY <1>0, <1>13, AnswerCases
  <2>3. \A n \in Models : model'[n] = ms[n] \/ model'[n].intent = 0
    <3>1. SaveState(session, ms[m]) \in [Chats -> Sessions]
      <4>1. ms[m] \in ModelRecord
        BY DEF OwnRecord
      <4> QED
        BY <1>0, <4>1, SaveStateFacts
    <3> QED
      BY <1>0, <2>2, <3>1, ReleaseIntents
  <2>4. model[m].chat \in Chats
    BY <1>0, <2>1 DEF OwnRecord, ModelRecord
  <2>5. \A n \in Models : model'[n].intent # 0 => n # m /\ model'[n] = model[n]
    BY <2>2, <2>3 DEF AnsweredFrom
  <2>6. ASSUME Elsewhere
        PROVE  /\ Grows
               /\ \A x \in Chats : x # model[m].chat => history'[x] = history[x]
    <3>1. model[m].params.path # NoChat => history[model[m].chat] \subseteq model[m].transcript
      BY <2>1, <2>6 DEF ScreenHasFile, KeepsTranscript
    <3> QED
      BY <1>0, <2>1, <2>4, <3>1
  <2>7. ASSUME Elsewhere
        PROVE  /\ history'[chatName] \subseteq messages
               /\ \A n \in Models : model'[n].intent # 0 =>
                     /\ model'[n].chat # chatName
                     /\ \A o \in Models \ {n} : model'[o].intent # 0 => model'[o].chat # model'[n].chat
               /\ \A n \in Models : KeepsTranscript(model'[n]) =>
                     history'[model'[n].chat] \subseteq model'[n].transcript
    <3>1. history'[chatName] \subseteq messages
      BY <1>0, <2>1, <2>6, <2>7 DEF ScreenHasFile
    <3>2. ASSUME NEW n \in Models, KeepsTranscript(model'[n])
          PROVE  history'[model'[n].chat] \subseteq model'[n].transcript
      <4>1. n # m /\ model'[n] = model[n] /\ model[n].intent # 0 /\ KeepsTranscript(model[n])
        BY <2>5, <3>2 DEF KeepsTranscript
      <4>2. model[n].chat # model[m].chat
        BY <2>1, <2>7, <4>1 DEF ScreenHasFile
      <4>3. model[n].chat \in Chats
        BY <1>0, <4>1 DEF OwnRecord, ModelRecord
      <4> QED
        BY <2>6, <2>7, <4>1, <4>2, <4>3 DEF ScreenHasFile
    <3>3. \A n \in Models : model'[n].intent # 0 =>
             /\ model'[n].chat # chatName
             /\ \A o \in Models \ {n} : model'[o].intent # 0 => model'[o].chat # model'[n].chat
      BY <2>5, <2>7 DEF ScreenHasFile
    <3> QED
      BY <3>1, <3>2, <3>3
  <2>8. ScreenHasFile'
    BY <2>1, <2>7 DEF ScreenHasFile, KeepsTranscript, Elsewhere
  <2> QED
    BY <2>6, <2>8
<1>14. CASE UNCHANGED vars
  BY <1>1, <1>14, IntentsGoOn DEF vars, files, screen
<1> QED
  BY <1>3, <1>4, <1>5, <1>6, <1>7, <1>8, <1>9, <1>10, <1>11, <1>12, <1>13, <1>14 DEF Next

\* Only the Clear button takes exchanges out of a history file where screen and intents keep
\* out of one another's chats: what an intent writes when it has its answer survives every
\* save of the chat window, and its transcript, read before it suspended, is still all the
\* file has (reload_chat, save_chat_history_and_state, OneShortQuery).
THEOREM HistoryOnlyGrowsCorrect == Spec => HistoryOnlyGrows
<1>1. Init => Typed /\ ScreenHasFile
  BY TypedInit, UnusedFacts DEF Init, ScreenHasFile, KeepsTranscript
<1>2. Typed /\ ScreenHasFile /\ [Next]_vars => Typed' /\ ScreenHasFile'
  BY TypedStep, ScreenStep
<1>3. Typed /\ ScreenHasFile /\ [Next]_vars =>
        [ClearChat \/ "intents anywhere" \in setup.may \/ \A c \in Chats : history[c] \subseteq history'[c]]_vars
  BY ScreenStep DEF Elsewhere
<1> QED
  BY <1>1, <1>2, <1>3, PTL DEF Spec, HistoryOnlyGrows

------------------------------------------------------------------------------
(* Where an exchange is: waiting in one place, or spent *)

\* What some object, some session file or a clear has seen.
Spent ==
  cleared \cup (UNION {model[m].cache : m \in Models}) \cup (UNION {session[c].cache : c \in Chats})

\* With the objects ms, the exchanges rs to send again, K spent and A asked, an exchange
\* waits in one place only (a prediction, a load, a task of after_model_load, an intent) and
\* has not been evaluated yet.
Placed(ms, rs, K, A) ==
  /\ K \subseteq A /\ rs \subseteq A \ K
  /\ \A m \in Models : ms[m].turn # 0 => ms[m].turn \in A \ (K \cup rs)
  /\ \A m \in Models : ms[m].load # "idle" => ms[m].onLoad \in A \ (K \cup rs)
  /\ \A m, n \in Models : m # n /\ ms[m].turn # 0 => ms[m].turn # ms[n].turn
  /\ \A m, n \in Models : m # n /\ ms[m].load # "idle" /\ ms[n].load # "idle"
                             => ms[m].onLoad # ms[n].onLoad
  /\ \A m, n \in Models : ms[m].turn # 0 /\ ms[n].load # "idle" => ms[m].turn # ms[n].onLoad
  /\ \A m \in Models : ms[m].intent # 0 => ms[m].intent \in A \ (K \cup rs)
  /\ \A m, n \in Models : m # n /\ ms[m].intent # 0 => ms[m].intent # ms[n].intent
  /\ \A m, n \in Models : ms[m].intent # 0 =>
        ms[m].intent # ms[n].turn /\ (ms[n].load # "idle" => ms[m].intent # ms[n].onLoad)

InOnePlace == Placed(model, resend, Spent, Asked)

\* The exchanges asked are numbered from 1.
Numbered == \E k \in 0..MaxExchanges : Asked = 1..k

\* A question is a new exchange.
LEMMA NextExchangeIsNew ==
  ASSUME Typed, Numbered, NEW c \in Chats, Ask(NextExchange, c)
  PROVE  /\ NextExchange \in Exchanges \ Asked /\ Asked' = Asked \cup {NextExchange}
         /\ Numbered' /\ asked'[NextExchange] = c
         /\ \A e \in Exchanges \ {NextExchange} : asked'[e] = asked[e]
<1>1. NextExchange \in Exchanges /\ asked' = [asked EXCEPT ![NextExchange] = c]
  BY AskTyped
<1>2. asked \in [Exchanges -> Chats \cup {NoChat}]
  BY DEF Typed, TypeOK
<1>3. PICK k \in 0..MaxExchanges : Asked = 1..k
  BY DEF Numbered
<1>4. NextExchange = k + 1
  <2>1. Cardinality(1..k) = k
    BY FS_Interval
  <2> QED
    BY <1>3, <2>1 DEF NextExchange
<1>5. Asked' = Asked \cup {NextExchange}
  BY <1>1, <1>2 DEF Asked
<1>6. k + 1 \in 0..MaxExchanges /\ Asked' = 1..(k + 1)
  BY <1>1, <1>3, <1>4, <1>5 DEF Exchanges
<1>7. Numbered'
  BY <1>6 DEF Numbered
<1> QED
  BY <1>1, <1>2, <1>3, <1>4, <1>5, <1>7

\* What is spent: in a cache, in a session or cleared.
LEMMA SpentElements ==
  /\ \A e : e \in Spent <=> \/ e \in cleared \/ \E m \in Models : e \in model[m].cache
                            \/ \E c \in Chats : e \in session[c].cache
  /\ \A e : e \in Spent' <=> \/ e \in cleared' \/ \E m \in Models : e \in model'[m].cache
                             \/ \E c \in Chats : e \in session'[c].cache
<1>1. ASSUME NEW e
      PROVE  e \in Spent <=> \/ e \in cleared \/ \E m \in Models : e \in model[m].cache
                             \/ \E c \in Chats : e \in session[c].cache
  <2> DEFINE U == UNION {model[m].cache : m \in Models}
             V == UNION {session[c].cache : c \in Chats}
  <2>1. e \in U <=> \E m \in Models : e \in model[m].cache
    OBVIOUS
  <2>2. e \in V <=> \E c \in Chats : e \in session[c].cache
    OBVIOUS
  <2>3. Spent = cleared \cup U \cup V
    BY Zenon DEF Spent
  <2> HIDE DEF U, V
  <2> QED
    BY <2>1, <2>2, <2>3
<1>2. ASSUME NEW e
      PROVE  e \in Spent' <=> \/ e \in cleared' \/ \E m \in Models : e \in model'[m].cache
                             \/ \E c \in Chats : e \in session'[c].cache
  <2> DEFINE U == UNION {model'[m].cache : m \in Models}
             V == UNION {session'[c].cache : c \in Chats}
  <2>1. e \in U <=> \E m \in Models : e \in model'[m].cache
    OBVIOUS
  <2>2. e \in V <=> \E c \in Chats : e \in session'[c].cache
    OBVIOUS
  <2>3. Spent' = cleared' \cup U \cup V
    BY Zenon DEF Spent
  <2> HIDE DEF U, V
  <2> QED
    BY <2>1, <2>2, <2>3
<1> QED
  BY <1>1, <1>2

\* Every cache, every session and what was cleared is spent.
LEMMA SpentFacts ==
  ASSUME TypeOK
  PROVE  /\ \A m \in Models : model[m].cache \subseteq Spent
         /\ \A c \in Chats : session[c].cache \subseteq Spent
         /\ cleared \subseteq Spent
  BY SpentElements

\* Spent is the least set that holds them.
LEMMA SpentIsIn ==
  ASSUME NEW K, \A m \in Models : model'[m].cache \subseteq K,
         \A c \in Chats : session'[c].cache \subseteq K, cleared' \subseteq K
  PROVE  Spent' \subseteq K
  BY SpentElements

\* A release spends nothing new.
LEMMA ReleaseSpent ==
  ASSUME NEW ms \in [Models -> OwnRecord], NEW c \in Models \cup {NoModel},
         NEW s \in [Chats -> Sessions], NEW k \in Models \cup {NoModel}, Release(ms, c, s, k),
         NEW K, \A m \in Models : ms[m].cache \subseteq K,
         \A x \in Chats : s[x].cache \subseteq K, cleared' \subseteq K
  PROVE  Spent' \subseteq K
<1>0. ms \in [Models -> ModelRecord]
  BY DEF OwnRecord
<1>1. /\ \A m \in Models : model'[m] \in {ms[m], Unused}
      /\ \A x \in Chats : \/ session'[x] = s[x]
                          \/ \E m \in Models : session'[x] = Saved(ms[m])
  BY <1>0, ReleaseFacts
<1>2. \A m \in Models : model'[m].cache \subseteq K
  BY <1>1, UnusedFacts
<1>3. ASSUME NEW x \in Chats
      PROVE  session'[x].cache \subseteq K
  <2>1. CASE session'[x] = s[x]
    BY <2>1
  <2>2. ASSUME NEW m \in Models, session'[x] = Saved(ms[m])
        PROVE  session'[x].cache \subseteq K
    <3>1. ms[m] \in ModelRecord
      BY <1>0
    <3>2. Saved(ms[m]).cache = ms[m].cache
      BY <3>1, SavedFacts
    <3> QED
      BY <2>2, <3>2
  <2> QED
    BY <1>1, <2>1, <2>2
<1> QED
  BY <1>2, <1>3, SpentIsIn

\* A release leaves each exchange in one place.
LEMMA ReleasePlaced ==
  ASSUME NEW ms \in [Models -> OwnRecord], NEW c \in Models \cup {NoModel},
         NEW s \in [Chats -> Sessions], NEW k \in Models \cup {NoModel}, Release(ms, c, s, k),
         NEW K, NEW A, NEW rs, Placed(ms, rs, K, A), \A m \in Models : ms[m].cache \subseteq K,
         \A x \in Chats : s[x].cache \subseteq K, cleared' \subseteq K, resend' = rs, Asked' = A
  PROVE  InOnePlace'
<1>0. ms \in [Models -> ModelRecord]
  BY DEF OwnRecord
<1>1. Spent' \subseteq K
  BY ReleaseSpent
<1>2. \A m \in Models : model'[m] \in {ms[m], Unused}
  BY <1>0, ReleaseFacts
<1>3. \A m \in Models : /\ model'[m].turn # 0 => model'[m].turn = ms[m].turn
                        /\ model'[m].load # "idle" => model'[m].load = ms[m].load /\ model'[m].onLoad = ms[m].onLoad
                        /\ model'[m].intent # 0 => model'[m].intent = ms[m].intent
  BY <1>2, UnusedFacts
<1> DEFINE mm == model'
           KK == Spent'
<1>4. Placed(mm, rs, KK, A)
  BY <1>1, <1>3 DEF Placed
<1> QED
  BY <1>4 DEF InOnePlace

\* Send puts its exchange in one place.
LEMMA SendPlaced ==
  ASSUME Typed, InOnePlace, NEW e \in Exchanges, Send(e), NEW A, Asked \subseteq A, e \in A \ Spent,
         UNCHANGED cleared, resend' \subseteq resend \ {e}, Asked' = A,
         \A m \in Models : /\ model[m].turn # e /\ model[m].intent # e
                           /\ model[m].load # "idle" => model[m].onLoad # e
  PROVE  InOnePlace'
<1>0. TypeOK /\ Made
  BY DEF Typed
<1>1. PICK ms \in [Models -> OwnRecord], c \in Models \cup {NoModel} :
        Release(ms, c, session, retained) /\ SendEffect(ms, c, e)
  BY <1>0, SendCases
<1>2. \A m \in Models : model[m].cache \subseteq Spent
  BY <1>0, SpentFacts
<1>3. \A x \in Chats : session[x].cache \subseteq Spent
  BY <1>0, SpentFacts
<1>4. e # 0 /\ e \notin resend'
  BY DEF Exchanges
<1>5. \A m \in Models : ms[m].cache \subseteq Spent
  BY <1>1, <1>2, NewObjectFacts, <1>0 DEF SendEffect, PredictsFrom, LoadsFrom
<1>11. \A m \in Models : ms[m].intent \in {0, model[m].intent}
  BY <1>0, <1>1, NewObjectFacts DEF SendEffect, PredictsFrom, LoadsFrom
<1>6. \A m \in Models : \/ ms[m] = model[m]
                        \/ m = c /\ ms[m].turn = e /\ ms[m].load = model[m].load
                           /\ ms[m].onLoad = model[m].onLoad
                        \/ m = c /\ ms[m].turn \in {0, model[m].turn} /\ ms[m].onLoad = e
  BY <1>0, <1>1, NewObjectFacts DEF SendEffect, PredictsFrom, LoadsFrom
<1> DEFINE K == Spent
           rs == resend'
<1>7. Placed(model, resend, K, Asked)
  BY DEF InOnePlace
<1>8. cleared' \subseteq K
  BY <1>0, SpentFacts
<1> HIDE DEF K, rs
<1>9. e \in A /\ e \notin K /\ e \notin rs /\ rs \subseteq resend
  BY DEF K, rs
<1>10. Placed(ms, rs, K, A)
  BY <1>4, <1>6, <1>7, <1>9, <1>11 DEF Placed
<1> QED
  BY <1>0, <1>1, <1>3, <1>5, <1>8, <1>10, ReleasePlaced DEF TypeOK, K, rs

\* Steps that leave the exchanges where they are, or drop some.
LEMMA SamePlaces ==
  ASSUME NEW ms, NEW rs, NEW K, NEW A, Placed(model, resend, K, A), rs \subseteq resend,
         \A n \in Models : /\ ms[n].turn = model[n].turn /\ ms[n].onLoad = model[n].onLoad
                           /\ ms[n].intent = model[n].intent
                           /\ ms[n].load # "idle" => model[n].load # "idle"
  PROVE  Placed(ms, rs, K, A)
  BY DEF Placed

\* Saving from the screen spends nothing new.
LEMMA ScreenSaveSpent ==
  ASSUME TypeOK, Made
  PROVE  \A x \in Chats : SavedByScreen[x].cache \subseteq Spent
<1>1. ASSUME NEW x \in Chats
      PROVE  SavedByScreen[x].cache \subseteq Spent
  <2>1. CASE SavedByScreen[x] = session[x]
    BY <2>1, SpentFacts
  <2>2. CASE chat \in Models /\ SavedByScreen[x] = Saved(model[chat])
    <3>1. model[chat] \in ModelRecord
      BY <2>2 DEF TypeOK
    <3>2. Saved(model[chat]).cache = model[chat].cache
      BY <3>1, SavedFacts
    <3> QED
      BY <2>2, <3>2, SpentFacts
  <2> QED
    BY <2>1, <2>2, ScreenSaveFacts
<1> QED
  BY <1>1

\* Giving up a load drops its exchange and moves no other.
LEMMA GiveUpPlaced ==
  ASSUME Typed, InOnePlace, NEW m \in Models, NEW ms \in [Models -> OwnRecord], IdleEffect(ms, m),
         GiveUp(ms), UNCHANGED <<resend, asked, cleared>>
  PROVE  InOnePlace'
<1>0. TypeOK /\ Made
  BY DEF Typed
<1>1. Placed(ms, resend, Spent, Asked)
  BY SamePlaces DEF IdleEffect, Same, InOnePlace
<1>2. \A n \in Models : ms[n].cache \subseteq Spent
  BY <1>0, SpentFacts DEF IdleEffect, Same
<1>3. \A x \in Chats : SavedByScreen[x].cache \subseteq Spent
  BY <1>0, ScreenSaveSpent
<1>4. SavedByScreen \in [Chats -> Sessions]
  BY <1>0, ScreenSaveFacts
<1>5. Release(ms, NoModel, SavedByScreen, retained)
  BY DEF GiveUp
<1>6. cleared' \subseteq Spent /\ Asked' = Asked /\ resend' = resend
  BY <1>0, SpentFacts DEF Asked
<1> QED
  BY <1>0, <1>1, <1>2, <1>3, <1>4, <1>5, <1>6, ReleasePlaced DEF TypeOK

\* The cache of an intent's object comes from a session file.
LEMMA IntentCache ==
  ASSUME TypeOK, Made, NEW r, NEW c \in Chats, NEW useHistory, NEW e, IntentObject(r, c, useHistory, e)
  PROVE  r.cache \subseteq Spent
<1>1. \A x \in Chats : AfterRetained[x].cache \subseteq Spent
  <2>1. ASSUME NEW x \in Chats, AfterRetained[x] # session[x]
        PROVE  AfterRetained[x].cache \subseteq Spent
    <3>1. retained \in Models /\ AfterRetained[x] = Saved(model[retained])
      BY <2>1, AfterRetainedFacts DEF TypeOK
    <3>2. AfterRetained[x].cache = model[retained].cache
      BY <3>1, SavedFacts DEF TypeOK
    <3> QED
      BY <3>1, <3>2, SpentFacts
  <2> QED
    BY <2>1, SpentFacts
<1> QED
  BY <1>1 DEF IntentObject

\* No step puts an exchange in two places.
LEMMA PlacedStep ==
  ASSUME Typed, Numbered, InOnePlace, [Next]_vars
  PROVE  Numbered' /\ InOnePlace'
<1> USE DEF files, screen, ghosts
<1>0. /\ TypeOK /\ Made /\ session \in [Chats -> Sessions] /\ Placed(model, resend, Spent, Asked)
      /\ \A m \in Models : model[m] \in OwnRecord /\ model[m].cache \subseteq Spent
      /\ \A c \in Chats : session[c].cache \subseteq Spent
      /\ cleared \subseteq Spent /\ chatName \in Chats
      /\ chat \in Models \cup {NoModel} /\ retained \in Models \cup {NoModel}
  <2>1. TypeOK /\ Made
    BY DEF Typed
  <2> QED
    BY <2>1, SpentFacts DEF TypeOK, Made, InOnePlace
<1>a. ASSUME UNCHANGED asked
      PROVE  Numbered' /\ Asked' = Asked
  BY <1>a DEF Numbered, Asked
<1>1. CASE UserSend
  <2>1. /\ NextExchange \in Exchanges \ Asked /\ Asked' = Asked \cup {NextExchange} /\ Numbered'
    BY <1>0, <1>1, NextExchangeIsNew DEF UserSend
  <2>2. NextExchange # 0
    BY <2>1 DEF Exchanges
  <2>3. /\ NextExchange \notin Spent /\ NextExchange \notin resend
        /\ \A m \in Models : /\ model[m].turn # NextExchange /\ model[m].intent # NextExchange
                             /\ model[m].load # "idle" => model[m].onLoad # NextExchange
    BY <1>0, <2>1, <2>2 DEF Placed
  <2>4. Send(NextExchange) /\ UNCHANGED <<cleared, resend>>
    BY <1>1 DEF UserSend
  <2> QED
    BY <2>1, <2>3, <2>4, SendPlaced
<1>2. ASSUME NEW e \in Exchanges, SendAgain(e)
      PROVE  Numbered' /\ InOnePlace'
  <2>1. /\ e \in resend /\ Send(e) /\ resend' = resend \ {e} /\ UNCHANGED <<asked, cleared>>
    BY <1>2 DEF SendAgain
  <2>2. e # 0
    BY DEF Exchanges
  <2>3. /\ e \in Asked \ Spent
        /\ \A m \in Models : /\ model[m].turn # e /\ model[m].intent # e
                             /\ model[m].load # "idle" => model[m].onLoad # e
    BY <1>0, <2>1, <2>2 DEF Placed
  <2>4. InOnePlace'
    BY <1>a, <2>1, <2>3, SendPlaced
  <2> QED
    BY <1>a, <2>1, <2>4
<1>3. ASSUME StopPredict \/ \E c \in Chats : SelectChat(c)
      PROVE  Numbered' /\ InOnePlace'
  <2>1. session' = SavedByScreen /\ UNCHANGED <<model, resend, asked, cleared>>
    BY <1>3 DEF StopPredict, SelectChat
  <2>2. \A x \in Chats : SavedByScreen[x].cache \subseteq Spent
    BY <1>0, ScreenSaveSpent
  <2>3. Spent' \subseteq Spent
    BY <1>0, <2>1, <2>2, SpentIsIn
  <2>4. Placed(model, resend, Spent', Asked)
    BY <1>0, <2>3 DEF Placed
  <2> QED
    BY <1>a, <2>1, <2>4 DEF InOnePlace
<1>4. CASE ClearChat
  <2> DEFINE ms == IF chat = NoModel THEN model ELSE [model EXCEPT ![chat].params.save = FALSE]
             s == [session EXCEPT ![chatName] = NoSession]
  <2>1. /\ ms \in [Models -> OwnRecord]
        /\ \A n \in Models : Same(ms[n], model[n]) /\ ms[n].load = model[n].load
    BY <1>0, ClearedFacts
  <2>2. s \in [Chats -> Sessions] /\ \A x \in Chats : s[x].cache \subseteq Spent
    BY <1>0, NoSessionFacts
  <2>3. Release(ms, NoModel, s, retained) /\ cleared' = cleared \cup Remembered(chatName) /\ UNCHANGED <<resend, asked>>
    BY <1>4 DEF ClearChat
  <2> HIDE DEF ms, s
  <2>4. Remembered(chatName) \subseteq Spent
    BY <1>0 DEF Remembered
  <2>5. Placed(ms, resend, Spent, Asked)
    BY <1>0, <2>1, SamePlaces DEF Same
  <2>6. \A n \in Models : ms[n].cache \subseteq Spent
    BY <1>0, <2>1 DEF Same
  <2>7. cleared' \subseteq Spent /\ Asked' = Asked /\ resend' = resend
    BY <1>a, <1>0, <2>3, <2>4
  <2>8. InOnePlace'
    BY <1>0, <2>1, <2>2, <2>3, <2>5, <2>6, <2>7, ReleasePlaced
  <2> QED
    BY <1>a, <2>3, <2>8
<1>5. ASSUME \/ \E save, small \in BOOLEAN : EditSettings(save, small)
             \/ RefreshChatList
             \/ \E c \in Chats : DeleteChat(c)
      PROVE  Numbered' /\ InOnePlace'
  <2>1. config' \in [Chats -> Configuration] /\ model' = UpdateChatParams(model, config')
    BY <1>0, <1>5, ConfigsTyped DEF EditSettings, RefreshChatList, DeleteChat
  <2>2. UNCHANGED <<session, resend, asked, cleared>>
    BY <1>5 DEF EditSettings, RefreshChatList, DeleteChat
  <2>3. \A n \in Models : Same(model'[n], model[n]) /\ model'[n].load = model[n].load
    BY <1>0, <2>1, UpdateFacts DEF ParamsEffect, Same
  <2>4. Spent' \subseteq Spent
    BY <1>0, <2>2, <2>3, SpentIsIn DEF Same
  <2>5. Placed(model', resend, Spent, Asked)
    BY <1>0, <2>3, SamePlaces DEF Same
  <2>6. Placed(model', resend, Spent', Asked)
    BY <2>4, <2>5 DEF Placed
  <2> QED
    BY <1>a, <2>2, <2>6 DEF InOnePlace
<1>6. ASSUME NEW m \in Models, LoadContext(m) \/ LoadState(m)
      PROVE  Numbered' /\ InOnePlace'
  <2>1. /\ \A n \in Models \ {m} : model'[n] = model[n]
        /\ model'[m].onLoad = model[m].onLoad /\ model'[m].turn = model[m].turn
        /\ model'[m].intent = model[m].intent /\ model[m].load # "idle"
        /\ model'[m].cache \in {model[m].cache, Restored(model[m], session).cache}
    BY <1>0, <1>6, LoadingFacts
  <2>2. UNCHANGED <<session, resend, asked, cleared>>
    BY <1>6 DEF LoadContext, LoadState
  <2>3. Restored(model[m], session).cache \subseteq Spent
    <3>1. model[m] \in ModelRecord
      BY <1>0 DEF OwnRecord
    <3> QED
      BY <1>0, <3>1, RestoredFacts
  <2>4. Spent' \subseteq Spent
    BY <1>0, <2>1, <2>2, <2>3, SpentIsIn
  <2>5. Placed(model', resend, Spent, Asked)
    BY <1>0, <2>1, SamePlaces
  <2>6. Placed(model', resend, Spent', Asked)
    BY <2>4, <2>5 DEF Placed
  <2> QED
    BY <1>a, <2>2, <2>6 DEF InOnePlace
<1>7. ASSUME NEW m \in Models, LoadDone(m)
      PROVE  Numbered' /\ InOnePlace'
  <2>1. PICK ms \in [Models -> OwnRecord] :
         \/ /\ chat \in Models /\ model[chat].context
            /\ resend' = resend \cup {model[m].onLoad} /\ history' = history
            /\ Release(ms, chat, session, retained)
            /\ \A n \in Models : /\ Same(ms[n], model[n])
                                 /\ ms[n].load = IF n = m THEN "idle" ELSE model[n].load
                                 /\ ms[n].params = IF n = chat THEN DefaultParams ELSE model[n].params
         \/ /\ chat # NoModel => ~model[chat].context
            /\ IdleEffect(ms, m) /\ GiveUp(ms) /\ resend' = resend
    BY <1>0, <1>7, LoadDoneCases
  <2>2. UNCHANGED <<asked, cleared>> /\ model[m].load = "restored"
    BY <1>7 DEF LoadDone
  <2>3. CASE /\ chat \in Models /\ resend' = resend \cup {model[m].onLoad}
             /\ Release(ms, chat, session, retained)
             /\ \A n \in Models : /\ Same(ms[n], model[n])
                                  /\ ms[n].load = IF n = m THEN "idle" ELSE model[n].load
    <3> DEFINE rs == resend \cup {model[m].onLoad}
    <3>1. \A n \in Models : /\ ms[n].turn = model[n].turn /\ ms[n].onLoad = model[n].onLoad
                            /\ ms[n].intent = model[n].intent
                            /\ ms[n].load # "idle" => n # m /\ model[n].load # "idle"
                            /\ ms[n].cache \subseteq Spent
      BY <1>0, <2>3 DEF Same
    <3>2. Placed(ms, rs, Spent, Asked)
      BY <1>0, <2>2, <3>1 DEF Placed
    <3>3. cleared' \subseteq Spent /\ Asked' = Asked /\ resend' = rs
      BY <1>a, <1>0, <2>2, <2>3
    <3>4. InOnePlace'
      BY <1>0, <2>3, <3>1, <3>2, <3>3, ReleasePlaced
    <3> QED
      BY <1>a, <2>2, <3>4
  <2>4. CASE IdleEffect(ms, m) /\ GiveUp(ms) /\ resend' = resend
    BY <1>a, <2>2, <2>4, GiveUpPlaced
  <2> QED
    BY <2>1, <2>3, <2>4
<1>8. ASSUME NEW m \in Models, LoadFail(m)
      PROVE  Numbered' /\ InOnePlace'
  <2> DEFINE ms == [model EXCEPT ![m].load = "idle"]
  <2>1. ms \in [Models -> OwnRecord] /\ IdleEffect(ms, m)
    BY <1>0, IdledFacts
  <2>2. GiveUp(ms) /\ UNCHANGED <<resend, asked, cleared>>
    BY <1>8 DEF LoadFail
  <2> HIDE DEF ms
  <2> QED
    BY <1>a, <2>1, <2>2, GiveUpPlaced
<1>9. ASSUME NEW m \in Models, FinishTurn(m)
      PROVE  Numbered' /\ InOnePlace'
  <2>1. PICK ms \in [Models -> OwnRecord] :
            /\ \A n \in Models \ {m} : ms[n] = model[n]
            /\ EvaluatedFrom(ms[m], model[m])
            /\ Release(ms, chat, IF chat = NoModel THEN session ELSE SaveState(session, ms[chat]), retained)
    BY <1>0, <1>9, FinishTurnCases
  <2> DEFINE s == IF chat = NoModel THEN session ELSE SaveState(session, ms[chat])
             K == Spent \cup {model[m].turn}
  <2>2. /\ Release(ms, chat, s, retained) /\ UNCHANGED <<resend, asked, cleared>> /\ model[m].turn # 0
        /\ chat \in Models \cup {NoModel}
    BY <1>0, <1>9, <2>1 DEF FinishTurn, TypeOK
  <2>3. /\ ms[m].turn = 0 /\ ms[m].load = model[m].load /\ ms[m].onLoad = model[m].onLoad
        /\ ms[m].intent = model[m].intent
        /\ ms[m].cache \subseteq model[m].cache \cup {model[m].turn}
    BY <2>1 DEF EvaluatedFrom, ReadBy
  <2>4. \A n \in Models : ms[n].cache \subseteq K
    BY <1>0, <2>1, <2>3
  <2>5. s \in [Chats -> Sessions] /\ \A x \in Chats : s[x].cache \subseteq K
    <3>1. CASE chat = NoModel
      BY <1>0, <3>1
    <3>2. CASE chat # NoModel
      <4>1. ms[chat] \in ModelRecord /\ ms[chat].cache \subseteq K
        BY <2>2, <2>4, <3>2 DEF OwnRecord
      <4>2. Saved(ms[chat]).cache \subseteq K
        BY <4>1, SavedFacts
      <4> QED
        BY <1>0, <3>2, <4>1, <4>2, SaveStateFacts
    <3> QED
      BY <3>1, <3>2
  <2>6. Placed(ms, resend, K, Asked)
    <3>1. model[m].turn \in Asked \ resend
      BY <1>0, <2>2 DEF Placed
    <3>2. \A n \in Models : ms[n].turn # 0 => n # m /\ ms[n].turn = model[n].turn
      BY <2>1, <2>3
    <3>3. \A n \in Models : /\ ms[n].load = model[n].load /\ ms[n].onLoad = model[n].onLoad
                            /\ ms[n].intent = model[n].intent
      BY <2>1, <2>3
    <3> QED
      BY <1>0, <2>2, <3>1, <3>2, <3>3 DEF Placed
  <2>7. cleared' \subseteq K /\ Asked' = Asked /\ resend' = resend
    BY <1>a, <1>0, <2>2
  <2> HIDE DEF s, K
  <2>8. InOnePlace'
    BY <1>0, <2>2, <2>4, <2>5, <2>6, <2>7, ReleasePlaced
  <2> QED
    BY <1>a, <2>2, <2>8
<1>10. ASSUME NEW c \in Chats, NEW useHistory \in BOOLEAN, IntentBegin(c, useHistory)
       PROVE  Numbered' /\ InOnePlace'
  <2>1. NextExchange \in Exchanges \ Asked /\ Asked' = Asked \cup {NextExchange} /\ Numbered'
    BY <1>10, NextExchangeIsNew DEF IntentBegin
  <2>2. UNCHANGED <<resend, cleared>>
    BY <1>10 DEF IntentBegin
  <2>3. PICK m \in Models, ms \in [Models -> OwnRecord] :
           /\ model[m].chat = NoChat /\ \A n \in Models \ {m} : ms[n] = model[n]
           /\ IntentObject(ms[m], c, useHistory, NextExchange)
           /\ Release(ms, chat, session, m)
    BY <1>0, <1>10, <2>1, IntentBeginCases
  <2>4. \A n \in Models : ms[n].cache \subseteq Spent
    BY <1>0, <2>3, IntentCache
  <2>5. ms[m].turn = 0 /\ ms[m].load = "idle" /\ ms[m].intent = NextExchange
    BY <2>3 DEF IntentObject
  <2>6. NextExchange # 0
    BY <2>1 DEF Exchanges
  <2>7. Placed(ms, resend, Spent, Asked')
    BY <1>0, <2>1, <2>3, <2>5, <2>6 DEF Placed
  <2>8. InOnePlace'
    <3> DEFINE A == Asked'
    <3>1. Placed(ms, resend, Spent, A) /\ Asked' = A
      BY <2>7
    <3>2. cleared' \subseteq Spent /\ resend' = resend
      BY <1>0, <2>2
    <3> HIDE DEF A
    <3> QED
      BY <1>0, <2>3, <2>4, <3>1, <3>2, ReleasePlaced
  <2> QED
    BY <2>1, <2>8
<1>12. ASSUME NEW m \in Models, LoadBegin(m)
       PROVE  Numbered' /\ InOnePlace'
  <2>1. PICK ms \in [Models -> OwnRecord] :
           /\ \A n \in Models \ {m} : ms[n] = model[n]
           /\ Begun(ms[m], model[m])
           /\ Release(ms, chat, session, m)
    BY <1>0, <1>12, LoadBeginCases
  <2>2. UNCHANGED <<resend, asked, cleared>>
    BY <1>12 DEF LoadBegin
  <2>3. \A n \in Models : /\ ms[n].turn = model[n].turn /\ ms[n].onLoad = model[n].onLoad
                          /\ ms[n].intent = model[n].intent /\ ms[n].cache \subseteq Spent
                          /\ ms[n].load # "idle" => model[n].load # "idle"
    BY <1>0, <2>1 DEF Begun
  <2>4. Placed(ms, resend, Spent, Asked)
    BY <1>0, <2>3, SamePlaces
  <2>5. cleared' \subseteq Spent /\ Asked' = Asked /\ resend' = resend
    BY <1>a, <1>0, <2>2
  <2>6. InOnePlace'
    BY <1>0, <2>1, <2>3, <2>4, <2>5, ReleasePlaced
  <2> QED
    BY <1>a, <2>2, <2>6
<1>13. ASSUME NEW m \in Models, IntentAnswer(m)
       PROVE  Numbered' /\ InOnePlace'
  <2>1. PICK ms \in [Models -> OwnRecord] :
            /\ \A n \in Models \ {m} : ms[n] = model[n]
            /\ AnsweredFrom(ms[m], model[m])
            /\ Release(ms, chat, SaveState(session, ms[m]), retained)
    BY <1>0, <1>13, AnswerCases
  <2> DEFINE s == SaveState(session, ms[m])
             K == Spent \cup {model[m].intent}
  <2>2. /\ Release(ms, chat, s, retained) /\ UNCHANGED <<resend, asked, cleared>> /\ model[m].intent # 0
        /\ chat \in Models \cup {NoModel}
    BY <1>0, <1>13, <2>1 DEF IntentAnswer, TypeOK
  <2>3. /\ ms[m].turn = model[m].turn /\ ms[m].load = model[m].load /\ ms[m].onLoad = model[m].onLoad
        /\ ms[m].intent = 0
        /\ ms[m].cache \subseteq model[m].cache \cup {model[m].intent}
    BY <2>1 DEF AnsweredFrom, ReadBy
  <2>4. \A n \in Models : ms[n].cache \subseteq K
    BY <1>0, <2>1, <2>3
  <2>5. s \in [Chats -> Sessions] /\ \A x \in Chats : s[x].cache \subseteq K
    <3>1. ms[m] \in ModelRecord /\ ms[m].cache \subseteq K
      BY <2>4 DEF OwnRecord
    <3>2. Saved(ms[m]).cache \subseteq K
      BY <3>1, SavedFacts
    <3> QED
      BY <1>0, <3>1, <3>2, SaveStateFacts
  <2>6. Placed(ms, resend, K, Asked)
    <3>1. model[m].intent \in Asked \ resend
      BY <1>0, <2>2 DEF Placed
    <3>2. \A n \in Models : ms[n].intent # 0 => n # m /\ ms[n].intent = model[n].intent
      BY <2>1, <2>3
    <3>3. \A n \in Models : /\ ms[n].load = model[n].load /\ ms[n].onLoad = model[n].onLoad
                            /\ ms[n].turn = model[n].turn
      BY <2>1, <2>3
    <3> QED
      BY <1>0, <2>2, <3>1, <3>2, <3>3 DEF Placed
  <2>7. cleared' \subseteq K /\ Asked' = Asked /\ resend' = resend
    BY <1>a, <1>0, <2>2
  <2> HIDE DEF s, K
  <2>8. InOnePlace'
    BY <1>0, <2>2, <2>4, <2>5, <2>6, <2>7, ReleasePlaced
  <2> QED
    BY <1>a, <2>2, <2>8
<1>11. CASE UNCHANGED vars
  <2>1. UNCHANGED <<model, session, resend, asked, cleared>>
    BY <1>11 DEF vars
  <2>2. Spent' = Spent
    BY <2>1 DEF Spent
  <2> QED
    BY <1>a, <2>1, <2>2 DEF InOnePlace
<1> QED
  BY <1>1, <1>2, <1>3, <1>4, <1>5, <1>6, <1>7, <1>8, <1>9, <1>10, <1>11, <1>12, <1>13 DEF Next

------------------------------------------------------------------------------
(* Whose exchanges an object and a session file hold, when loads do not overlap *)

Of(a, c) == {e \in Exchanges : a[e] = c}

\* With the questions asked as in a and the chat n on the screen: the cache and the
\* questions of an object are of its own chat, a load sends again what was asked on screen.
OwnedIn(r, a, n) ==
  /\ r.cache \subseteq Of(a, r.chat)
  /\ r.turn # 0 => a[r.turn] = r.chat
  /\ r.load # "idle" => a[r.onLoad] = n
  /\ r.intent # 0 => a[r.intent] = r.chat

OwnedSessions(s, a) == \A c \in Chats : s[c].cache \subseteq Of(a, c)

OwnedObjects(ms, a, n) == \A m \in Models : OwnedIn(ms[m], a, n)

Owned ==
  /\ OwnedObjects(model, asked, chatName) /\ OwnedSessions(session, asked)
  /\ \A e \in resend : asked[e] = chatName

\* A release saves each object's past under its own chat.
LEMMA ReleaseOwned ==
  ASSUME NEW ms \in [Models -> OwnRecord], NEW c \in Models \cup {NoModel},
         NEW s \in [Chats -> Sessions], NEW k \in Models \cup {NoModel}, Release(ms, c, s, k), NEW a, NEW n,
         OwnedObjects(ms, a, n), OwnedSessions(s, a)
  PROVE  OwnedObjects(model', a, n) /\ OwnedSessions(session', a)
<1>0. ms \in [Models -> ModelRecord]
  BY DEF OwnRecord
<1>1. /\ \A m \in Models : model'[m] \in {ms[m], Unused}
      /\ \A x \in Chats : \/ session'[x] = s[x]
                          \/ \E m \in Models : /\ Saves(ms[m]) /\ ms[m].params.path = x
                                               /\ session'[x] = Saved(ms[m])
  BY <1>0, ReleaseFacts
<1>2. OwnedObjects(model', a, n)
  BY <1>1, UnusedFacts DEF OwnedObjects, OwnedIn
<1>3. ASSUME NEW x \in Chats
      PROVE  session'[x].cache \subseteq Of(a, x)
  <2>1. CASE session'[x] = s[x]
    BY <2>1 DEF OwnedSessions
  <2>2. ASSUME NEW m \in Models, Saves(ms[m]), ms[m].params.path = x, session'[x] = Saved(ms[m])
        PROVE  session'[x].cache \subseteq Of(a, x)
    <3>1. ms[m].chat = x
      BY <2>2 DEF OwnRecord, Saves
    <3>2. session'[x].cache = ms[m].cache
      BY <1>0, <2>2, SavedFacts
    <3> QED
      BY <3>1, <3>2 DEF OwnedObjects, OwnedIn
  <2> QED
    BY <1>1, <2>1, <2>2
<1> QED
  BY <1>2, <1>3 DEF OwnedSessions

\* Send gives its exchange to an object of the exchange's chat.
LEMMA SendOwned ==
  ASSUME Typed, NEW e \in Exchanges, Send(e), NEW a, a[e] = chatName,
         OwnedObjects(model, a, chatName), OwnedSessions(session, a)
  PROVE  OwnedObjects(model', a, chatName) /\ OwnedSessions(session', a)
<1>0. TypeOK /\ Made
  BY DEF Typed
<1>1. PICK ms \in [Models -> OwnRecord], c \in Models \cup {NoModel} :
        Release(ms, c, session, retained) /\ SendEffect(ms, c, e)
  BY <1>0, SendCases
<1>2. ASSUME NEW m \in Models
      PROVE  OwnedIn(ms[m], a, chatName)
  <2>1. OwnedIn(model[m], a, chatName)
    BY DEF OwnedObjects
  <2>2. CASE ms[m] = model[m]
    BY <2>1, <2>2
  <2>3. CASE m = c /\ ms[m].chat = chatName /\ PredictsFrom(ms[m], model[m], e)
    BY <2>1, <2>3 DEF OwnedIn, PredictsFrom
  <2>4. CASE m = c /\ ms[m].chat = chatName /\ LoadsFrom(ms[m], model[m], e)
    BY <2>1, <2>4 DEF OwnedIn, LoadsFrom
  <2>5. CASE m = c /\ ms[m].chat = chatName /\ LoadsFrom(ms[m], NewObject, e)
    BY <1>0, <2>5, NewObjectFacts DEF OwnedIn, LoadsFrom
  <2> QED
    BY <1>1, <2>2, <2>3, <2>4, <2>5 DEF SendEffect
<1>3. OwnedObjects(ms, a, chatName)
  BY <1>2 DEF OwnedObjects
<1> QED
  BY <1>0, <1>1, <1>3, ReleaseOwned DEF TypeOK

\* Asking a question changes nothing for the exchanges already somewhere.
LEMMA AskOwned ==
  ASSUME Typed, Numbered, InOnePlace, Owned, NEW c \in Chats, Ask(NextExchange, c)
  PROVE  /\ OwnedObjects(model, asked', chatName) /\ OwnedSessions(session, asked')
         /\ \A e \in resend : asked'[e] = chatName
         /\ asked'[NextExchange] = c /\ NextExchange \in Exchanges
<1>0. TypeOK /\ Made /\ \A m \in Models : model[m] \in ModelRecord
  BY DEF Typed, TypeOK
<1>1. /\ NextExchange \in Exchanges \ Asked /\ asked'[NextExchange] = c
      /\ \A e \in Exchanges \ {NextExchange} : asked'[e] = asked[e]
  BY NextExchangeIsNew
<1>2. Asked \subseteq Exchanges \ {NextExchange}
  BY <1>1 DEF Asked
<1>3. \A e \in Asked : asked'[e] = asked[e] /\ e \in Exchanges
  BY <1>1, <1>2
<1>4. Placed(model, resend, Spent, Asked)
  BY DEF InOnePlace
<1>5. /\ \A m \in Models : model[m].cache \subseteq Asked
      /\ \A x \in Chats : session[x].cache \subseteq Asked
  BY <1>0, <1>4, SpentFacts DEF Placed
<1>6. ASSUME NEW m \in Models
      PROVE  OwnedIn(model[m], asked', chatName)
  BY <1>3, <1>4, <1>5 DEF Placed, Owned, OwnedObjects, OwnedIn, Of
<1>7. OwnedSessions(session, asked')
  BY <1>3, <1>5 DEF Owned, OwnedSessions, Of
<1>8. \A e \in resend : asked'[e] = chatName
  BY <1>3, <1>4 DEF Placed, Owned
<1> QED
  BY <1>1, <1>6, <1>7, <1>8 DEF OwnedObjects

\* An intent's object reads the session of its own chat.
LEMMA IntentOwned ==
  ASSUME TypeOK, Made, NEW a, NEW n, OwnedObjects(model, a, n), OwnedSessions(session, a),
         NEW r, NEW c \in Chats, NEW useHistory, NEW e, IntentObject(r, c, useHistory, e), a[e] = c
  PROVE  OwnedIn(r, a, n)
<1>1. AfterRetained[c].cache \subseteq Of(a, c)
  <2>1. CASE AfterRetained[c] = session[c]
    BY <2>1 DEF OwnedSessions
  <2>2. CASE /\ retained \in Models /\ Saves(model[retained]) /\ model[retained].params.path = c
             /\ AfterRetained[c] = Saved(model[retained])
    <3>1. model[retained] \in ModelRecord /\ model[retained].chat = c
      BY <2>2 DEF TypeOK, Made, OwnRecord, Saves
    <3>2. Saved(model[retained]).cache = model[retained].cache
      BY <3>1, SavedFacts
    <3> QED
      BY <2>2, <3>1, <3>2 DEF OwnedObjects, OwnedIn
  <2> QED
    BY <2>1, <2>2, AfterRetainedFacts DEF TypeOK
<1> QED
  BY <1>1 DEF IntentObject, OwnedIn

\* Saving from the screen writes under the object's own chat.
LEMMA ScreenSaveOwned ==
  ASSUME TypeOK, Made, Owned
  PROVE  OwnedSessions(SavedByScreen, asked)
<1>1. ASSUME NEW x \in Chats
      PROVE  SavedByScreen[x].cache \subseteq Of(asked, x)
  <2>1. CASE SavedByScreen[x] = session[x]
    BY <2>1 DEF Owned, OwnedSessions
  <2>2. CASE /\ chat \in Models /\ Saves(model[chat]) /\ model[chat].params.path = x
             /\ SavedByScreen[x] = Saved(model[chat])
    <3>1. model[chat] \in ModelRecord /\ model[chat].chat = x
      BY <2>2 DEF TypeOK, Made, OwnRecord, Saves
    <3>2. Saved(model[chat]).cache = model[chat].cache
      BY <3>1, SavedFacts
    <3> QED
      BY <2>2, <3>1, <3>2 DEF Owned, OwnedObjects, OwnedIn
  <2> QED
    BY <2>1, <2>2, ScreenSaveFacts
<1> QED
  BY <1>1 DEF OwnedSessions

\* Giving up a load mixes no chats.
LEMMA GiveUpOwned ==
  ASSUME Typed, Owned, NEW m \in Models, NEW ms \in [Models -> OwnRecord], IdleEffect(ms, m),
         GiveUp(ms), UNCHANGED <<chatName, resend, asked>>
  PROVE  Owned'
<1>0. TypeOK /\ Made
  BY DEF Typed
<1>1. OwnedObjects(ms, asked, chatName)
  BY DEF Owned, OwnedObjects, OwnedIn, IdleEffect, Same
<1>2. OwnedSessions(SavedByScreen, asked) /\ SavedByScreen \in [Chats -> Sessions]
  BY <1>0, ScreenSaveOwned, ScreenSaveFacts
<1>3. OwnedObjects(model', asked, chatName) /\ OwnedSessions(session', asked)
  BY <1>0, <1>1, <1>2, ReleaseOwned DEF GiveUp, TypeOK
<1> QED
  BY <1>3 DEF Owned

\* No step mixes two chats' exchanges, if loads do not overlap.
LEMMA OwnedStep ==
  ASSUME Typed, Numbered, InOnePlace, "overlap" \notin setup.may, Owned, [Next]_vars
  PROVE  Owned'
<1> USE DEF files, screen, ghosts
<1>0. /\ TypeOK /\ Made /\ session \in [Chats -> Sessions] /\ chatName \in Chats
      /\ OwnedObjects(model, asked, chatName) /\ OwnedSessions(session, asked)
      /\ chat \in Models \cup {NoModel} /\ retained \in Models \cup {NoModel}
      /\ \A m \in Models : model[m] \in ModelRecord
  BY DEF Typed, TypeOK, Owned
<1>a. ASSUME UNCHANGED <<chatName, asked>>, OwnedObjects(model', asked, chatName),
             OwnedSessions(session', asked), \A e \in resend' : asked[e] = chatName
      PROVE  Owned'
  BY <1>a DEF Owned
<1>1. CASE UserSend
  <2>1. /\ OwnedObjects(model, asked', chatName) /\ OwnedSessions(session, asked')
        /\ asked'[NextExchange] = chatName /\ NextExchange \in Exchanges
    BY <1>0, <1>1, AskOwned DEF UserSend
  <2>2. Send(NextExchange) /\ resend' = {} /\ chatName' = chatName
    BY <1>1 DEF UserSend
  <2>3. OwnedObjects(model', asked', chatName) /\ OwnedSessions(session', asked')
    BY <2>1, <2>2, SendOwned
  <2> QED
    BY <2>2, <2>3 DEF Owned
<1>2. ASSUME NEW e \in Exchanges, SendAgain(e)
      PROVE  Owned'
  <2>1. /\ e \in resend /\ Send(e) /\ resend' = resend \ {e} /\ UNCHANGED <<asked, chatName>>
        /\ asked[e] = chatName
    BY <1>2 DEF SendAgain, Owned
  <2>2. OwnedObjects(model', asked, chatName) /\ OwnedSessions(session', asked)
    BY <1>0, <2>1, SendOwned
  <2> QED
    BY <1>a, <2>1, <2>2 DEF Owned
<1>3. CASE StopPredict
  <2>1. session' = SavedByScreen /\ UNCHANGED <<chatName, model, resend, asked>>
    BY <1>3 DEF StopPredict
  <2> QED
    BY <1>0, <2>1, ScreenSaveOwned DEF Owned
<1>4. ASSUME NEW c \in Chats, SelectChat(c)
      PROVE  Owned'
  <2>1. /\ session' = SavedByScreen /\ UNCHANGED <<model, resend, asked>> /\ resend = {}
        /\ \A m \in Models : model[m].load = "idle"
    BY <1>4 DEF SelectChat, Loading
  <2>2. OwnedObjects(model, asked, chatName')
    BY <1>0, <2>1 DEF OwnedObjects, OwnedIn
  <2> QED
    BY <1>0, <2>1, <2>2, ScreenSaveOwned DEF Owned
<1>5. CASE ClearChat
  <2> DEFINE ms == IF chat = NoModel THEN model ELSE [model EXCEPT ![chat].params.save = FALSE]
             s == [session EXCEPT ![chatName] = NoSession]
  <2>1. /\ ms \in [Models -> OwnRecord]
        /\ \A n \in Models : Same(ms[n], model[n]) /\ ms[n].load = model[n].load
    BY <1>0, ClearedFacts
  <2>2. s \in [Chats -> Sessions] /\ OwnedSessions(s, asked)
    BY <1>0, NoSessionFacts DEF OwnedSessions
  <2>3. Release(ms, NoModel, s, retained) /\ UNCHANGED <<chatName, resend, asked>>
    BY <1>5 DEF ClearChat
  <2> HIDE DEF ms, s
  <2>4. OwnedObjects(ms, asked, chatName)
    BY <1>0, <2>1 DEF OwnedObjects, OwnedIn, Same
  <2>5. OwnedObjects(model', asked, chatName) /\ OwnedSessions(session', asked)
    BY <1>0, <2>1, <2>2, <2>3, <2>4, ReleaseOwned
  <2> QED
    BY <1>a, <2>3, <2>5 DEF Owned
<1>6. ASSUME \/ \E save, small \in BOOLEAN : EditSettings(save, small)
             \/ RefreshChatList
             \/ \E c \in Chats : DeleteChat(c)
      PROVE  Owned'
  <2>1. config' \in [Chats -> Configuration] /\ model' = UpdateChatParams(model, config')
    BY <1>0, <1>6, ConfigsTyped DEF EditSettings, RefreshChatList, DeleteChat
  <2>2. UNCHANGED <<session, chatName, resend, asked>>
    BY <1>6 DEF EditSettings, RefreshChatList, DeleteChat
  <2>3. \A n \in Models : Same(model'[n], model[n]) /\ model'[n].load = model[n].load
    BY <1>0, <2>1, UpdateFacts DEF ParamsEffect, Same
  <2>4. OwnedObjects(model', asked, chatName)
    BY <1>0, <2>3 DEF OwnedObjects, OwnedIn, Same
  <2> QED
    BY <1>0, <1>a, <2>2, <2>4 DEF Owned
<1>7. ASSUME NEW m \in Models, LoadContext(m) \/ LoadState(m)
      PROVE  Owned'
  <2>1. /\ \A n \in Models \ {m} : model'[n] = model[n]
        /\ model'[m].onLoad = model[m].onLoad /\ model'[m].turn = model[m].turn
        /\ model[m].load # "idle" /\ model'[m].chat = model[m].chat /\ model'[m].intent = model[m].intent
        /\ model'[m].cache \in {model[m].cache, Restored(model[m], session).cache}
    BY <1>0, <1>7, LoadingFacts
  <2>2. UNCHANGED <<session, chatName, resend, asked>>
    BY <1>7 DEF LoadContext, LoadState
  <2>3. Restored(model[m], session).cache \subseteq Of(asked, model[m].chat)
    <3>1. model[m] \in OwnRecord /\ model[m].cache \subseteq Of(asked, model[m].chat)
      BY <1>0 DEF Made, OwnedObjects, OwnedIn
    <3>2. model[m].params.path \in Chats => model[m].params.path = model[m].chat
      BY <3>1 DEF OwnRecord
    <3>3. model[m].params.path \in Chats =>
            session[model[m].params.path].cache \subseteq Of(asked, model[m].chat)
      BY <1>0, <3>2 DEF OwnedSessions
    <3> QED
      BY <1>0, <3>1, <3>3, RestoredFacts
  <2>4. OwnedIn(model'[m], asked, chatName)
    BY <1>0, <2>1, <2>3 DEF OwnedObjects, OwnedIn
  <2>5. OwnedObjects(model', asked, chatName)
    BY <1>0, <2>1, <2>4 DEF OwnedObjects
  <2> QED
    BY <1>0, <1>a, <2>2, <2>5 DEF Owned
<1>8. ASSUME NEW m \in Models, LoadDone(m)
      PROVE  Owned'
  <2>1. PICK ms \in [Models -> OwnRecord] :
         \/ /\ chat \in Models /\ model[chat].context
            /\ resend' = resend \cup {model[m].onLoad} /\ history' = history
            /\ Release(ms, chat, session, retained)
            /\ \A n \in Models : /\ Same(ms[n], model[n])
                                 /\ ms[n].load = IF n = m THEN "idle" ELSE model[n].load
                                 /\ ms[n].params = IF n = chat THEN DefaultParams ELSE model[n].params
         \/ /\ chat # NoModel => ~model[chat].context
            /\ IdleEffect(ms, m) /\ GiveUp(ms) /\ resend' = resend
    BY <1>0, <1>8, LoadDoneCases
  <2>2. UNCHANGED <<chatName, asked>> /\ model[m].load = "restored"
    BY <1>8 DEF LoadDone
  <2>3. CASE /\ chat \in Models /\ resend' = resend \cup {model[m].onLoad}
             /\ Release(ms, chat, session, retained)
             /\ \A n \in Models : /\ Same(ms[n], model[n])
                                  /\ ms[n].load = IF n = m THEN "idle" ELSE model[n].load
    <3>1. OwnedObjects(ms, asked, chatName)
      BY <1>0, <2>3 DEF OwnedObjects, OwnedIn, Same
    <3>2. OwnedObjects(model', asked, chatName) /\ OwnedSessions(session', asked)
      BY <1>0, <2>3, <3>1, ReleaseOwned
    <3>3. asked[model[m].onLoad] = chatName
      BY <1>0, <2>2 DEF OwnedObjects, OwnedIn
    <3> QED
      BY <1>a, <2>2, <2>3, <3>2, <3>3 DEF Owned
  <2>4. CASE IdleEffect(ms, m) /\ GiveUp(ms) /\ resend' = resend
    BY <2>2, <2>4, GiveUpOwned
  <2> QED
    BY <2>1, <2>3, <2>4
<1>9. ASSUME NEW m \in Models, LoadFail(m)
      PROVE  Owned'
  <2> DEFINE ms == [model EXCEPT ![m].load = "idle"]
  <2>1. ms \in [Models -> OwnRecord] /\ IdleEffect(ms, m)
    BY <1>0, IdledFacts
  <2>2. GiveUp(ms) /\ UNCHANGED <<chatName, resend, asked>>
    BY <1>9 DEF LoadFail
  <2> HIDE DEF ms
  <2> QED
    BY <2>1, <2>2, GiveUpOwned
<1>10. ASSUME NEW m \in Models, FinishTurn(m)
       PROVE  Owned'
  <2>1. PICK ms \in [Models -> OwnRecord] :
            /\ \A n \in Models \ {m} : ms[n] = model[n]
            /\ EvaluatedFrom(ms[m], model[m])
            /\ Release(ms, chat, IF chat = NoModel THEN session ELSE SaveState(session, ms[chat]), retained)
    BY <1>0, <1>10, FinishTurnCases
  <2> DEFINE s == IF chat = NoModel THEN session ELSE SaveState(session, ms[chat])
  <2>2. /\ Release(ms, chat, s, retained) /\ UNCHANGED <<resend, asked, chatName>> /\ model[m].turn # 0
        /\ chat \in Models \cup {NoModel}
    BY <1>0, <1>10, <2>1 DEF FinishTurn, TypeOK
  <2>3. OwnedIn(ms[m], asked, chatName)
    <3>1. /\ ms[m].turn = 0 /\ ms[m].load = model[m].load /\ ms[m].onLoad = model[m].onLoad
          /\ ms[m].cache \subseteq model[m].cache \cup {model[m].turn} /\ ms[m].chat = model[m].chat
          /\ ms[m].intent = model[m].intent
      BY <2>1 DEF EvaluatedFrom, ReadBy
    <3>2. model[m].turn \in Of(asked, model[m].chat)
      BY <1>0, <2>2 DEF OwnedObjects, OwnedIn, Of, ModelRecord, Exchanges
    <3> QED
      BY <1>0, <3>1, <3>2 DEF OwnedObjects, OwnedIn
  <2>4. OwnedObjects(ms, asked, chatName)
    BY <1>0, <2>1, <2>3 DEF OwnedObjects
  <2>5. s \in [Chats -> Sessions] /\ OwnedSessions(s, asked)
    <3>1. CASE chat = NoModel
      BY <1>0, <3>1
    <3>2. CASE chat # NoModel
      <4>1. ms[chat] \in OwnRecord /\ ms[chat] \in ModelRecord /\ OwnedIn(ms[chat], asked, chatName)
        BY <2>2, <2>4, <3>2 DEF OwnRecord, OwnedObjects
      <4>2. Saves(ms[chat]) => ms[chat].params.path = ms[chat].chat
        BY <4>1 DEF OwnRecord, Saves
      <4>3. Saved(ms[chat]).cache \subseteq Of(asked, ms[chat].chat)
        BY <4>1, SavedFacts DEF OwnedIn
      <4> QED
        BY <1>0, <3>2, <4>1, <4>2, <4>3, SaveStateFacts DEF OwnedSessions
    <3> QED
      BY <3>1, <3>2
  <2> HIDE DEF s
  <2>6. OwnedObjects(model', asked, chatName) /\ OwnedSessions(session', asked)
    BY <1>0, <2>2, <2>4, <2>5, ReleaseOwned
  <2> QED
    BY <1>a, <2>2, <2>6 DEF Owned
<1>11. ASSUME NEW c \in Chats, NEW useHistory \in BOOLEAN, IntentBegin(c, useHistory)
       PROVE  Owned'
  <2>1. /\ OwnedObjects(model, asked', chatName) /\ OwnedSessions(session, asked')
        /\ \A e \in resend : asked'[e] = chatName
        /\ asked'[NextExchange] = c /\ NextExchange \in Exchanges
    BY <1>11, AskOwned DEF IntentBegin
  <2>2. UNCHANGED <<resend, chatName>>
    BY <1>11 DEF IntentBegin
  <2>3. PICK m \in Models, ms \in [Models -> OwnRecord] :
           /\ model[m].chat = NoChat /\ \A n \in Models \ {m} : ms[n] = model[n]
           /\ IntentObject(ms[m], c, useHistory, NextExchange)
           /\ Release(ms, chat, session, m)
    BY <1>0, <1>11, <2>1, IntentBeginCases
  <2> DEFINE a == asked'
  <2>4. OwnedIn(ms[m], a, chatName)
    BY <1>0, <2>1, <2>3, IntentOwned
  <2>5. OwnedObjects(ms, a, chatName)
    BY <2>1, <2>3, <2>4 DEF OwnedObjects
  <2>6. OwnedSessions(session, a)
    BY <2>1
  <2>7. OwnedObjects(model', a, chatName) /\ OwnedSessions(session', a)
    <3> HIDE DEF a
    <3> QED
      BY <1>0, <2>3, <2>5, <2>6, ReleaseOwned
  <2> QED
    BY <2>1, <2>2, <2>7 DEF Owned
<1>13. ASSUME NEW m \in Models, LoadBegin(m)
       PROVE  Owned'
  <2>1. PICK ms \in [Models -> OwnRecord] :
           /\ \A n \in Models \ {m} : ms[n] = model[n]
           /\ Begun(ms[m], model[m])
           /\ Release(ms, chat, session, m)
    BY <1>0, <1>13, LoadBeginCases
  <2>2. UNCHANGED <<resend, asked, chatName>>
    BY <1>13 DEF LoadBegin
  <2>3. OwnedObjects(ms, asked, chatName)
    BY <1>0, <2>1 DEF OwnedObjects, OwnedIn, Begun
  <2>4. OwnedObjects(model', asked, chatName) /\ OwnedSessions(session', asked)
    BY <1>0, <2>1, <2>3, ReleaseOwned
  <2> QED
    BY <1>a, <2>2, <2>4 DEF Owned
<1>14. ASSUME NEW m \in Models, IntentAnswer(m)
       PROVE  Owned'
  <2>1. PICK ms \in [Models -> OwnRecord] :
            /\ \A n \in Models \ {m} : ms[n] = model[n]
            /\ AnsweredFrom(ms[m], model[m])
            /\ Release(ms, chat, SaveState(session, ms[m]), retained)
    BY <1>0, <1>14, AnswerCases
  <2> DEFINE s == SaveState(session, ms[m])
  <2>2. /\ Release(ms, chat, s, retained) /\ UNCHANGED <<resend, asked, chatName>> /\ model[m].intent # 0
    BY <1>14, <2>1 DEF IntentAnswer
  <2>3. OwnedIn(ms[m], asked, chatName)
    <3>1. /\ ms[m].intent = 0 /\ ms[m].load = model[m].load /\ ms[m].onLoad = model[m].onLoad
          /\ ms[m].cache \subseteq model[m].cache \cup {model[m].intent} /\ ms[m].chat = model[m].chat
          /\ ms[m].turn = model[m].turn
      BY <2>1 DEF AnsweredFrom, ReadBy
    <3>2. model[m].intent \in Of(asked, model[m].chat)
      BY <1>0, <2>2 DEF OwnedObjects, OwnedIn, Of, ModelRecord, Exchanges
    <3> QED
      BY <1>0, <3>1, <3>2 DEF OwnedObjects, OwnedIn
  <2>4. OwnedObjects(ms, asked, chatName)
    BY <1>0, <2>1, <2>3 DEF OwnedObjects
  <2>5. s \in [Chats -> Sessions] /\ OwnedSessions(s, asked)
    <3>1. ms[m] \in OwnRecord /\ ms[m] \in ModelRecord
      BY DEF OwnRecord
    <3>2. Saves(ms[m]) => ms[m].params.path = ms[m].chat
      BY <3>1 DEF OwnRecord, Saves
    <3>3. Saved(ms[m]).cache \subseteq Of(asked, ms[m].chat)
      BY <2>3, <3>1, SavedFacts DEF OwnedIn
    <3> QED
      BY <1>0, <3>1, <3>2, <3>3, SaveStateFacts DEF OwnedSessions
  <2> HIDE DEF s
  <2>6. OwnedObjects(model', asked, chatName) /\ OwnedSessions(session', asked)
    BY <1>0, <2>2, <2>4, <2>5, ReleaseOwned
  <2> QED
    BY <1>a, <2>2, <2>6 DEF Owned
<1>12. CASE UNCHANGED vars
  BY <1>12 DEF vars, Owned
<1> QED
  BY <1>1, <1>2, <1>3, <1>4, <1>5, <1>6, <1>7, <1>8, <1>9, <1>10, <1>11, <1>12, <1>13, <1>14 DEF Next

------------------------------------------------------------------------------
(* How much an object believes to have read, when no context shrinks *)

\* The past and the cache agree and fit into a large context.
Full == Room[FALSE]

CountedPast(n, cells) == n = Cardinality(cells) /\ n <= Full

CountedIn(r) == ~r.small /\ ~r.params.small /\ CountedPast(r.nPast, r.cache)

CountedObjects(ms) == \A m \in Models : CountedIn(ms[m])
CountedSessions(s) == \A c \in Chats : CountedPast(s[c].nPast, s[c].cache)

Counted ==
  /\ CountedObjects(model) /\ CountedSessions(session) /\ \A c \in Chats : ~config[c].small

\* A context has room for an exchange.
LEMMA FullFacts == Full \in Nat \ {0}
  BY DEF Full

\* Nothing read and nothing counted agree.
LEMMA EmptyPast == CountedPast(0, {})
  BY FullFacts, FS_EmptySet DEF CountedPast

\* An exchange enters the cache at the end of the past, for an older one when it is full.
LEMMA EvaluatedPast ==
  ASSUME NEW n \in Nat, NEW cells \in SUBSET Exchanges, CountedPast(n, cells),
         NEW e \in Exchanges \ cells, NEW k, NEW after,
         \/ n < Full /\ k = n + 1 /\ after = cells \cup {e}
         \/ /\ ~(n < Full) /\ k = Full
            /\ \E d \in IF cells = {} THEN {e} ELSE cells : after = (cells \ {d}) \cup {e}
  PROVE  CountedPast(k, after)
<1>0. Full \in Nat \ {0}
  BY FullFacts
<1>1. IsFiniteSet(cells)
  <2>1. IsFiniteSet(Exchanges)
    BY FS_Interval DEF Exchanges
  <2> QED
    BY <2>1, FS_Subset
<1>2. CASE n < Full /\ k = n + 1 /\ after = cells \cup {e}
  <2>1. Cardinality(cells \cup {e}) = Cardinality(cells) + 1
    BY <1>1, FS_AddElement
  <2> QED
    BY <1>0, <1>2, <2>1 DEF CountedPast
<1>3. CASE /\ ~(n < Full) /\ k = Full
           /\ \E d \in IF cells = {} THEN {e} ELSE cells : after = (cells \ {d}) \cup {e}
  <2>1. Cardinality(cells) = Full
    BY <1>0, <1>3 DEF CountedPast
  <2>2. cells # {}
    BY <1>0, <2>1, FS_EmptySet
  <2>3. PICK d \in cells : after = (cells \ {d}) \cup {e}
    BY <1>3, <2>2
  <2>4. IsFiniteSet(cells \ {d}) /\ Cardinality(cells \ {d}) = Cardinality(cells) - 1
    BY <1>1, <2>3, FS_RemoveElement
  <2>5. e \notin cells \ {d}
    OBVIOUS
  <2>6. Cardinality((cells \ {d}) \cup {e}) = Cardinality(cells \ {d}) + 1
    BY <2>4, <2>5, FS_AddElement
  <2> QED
    BY <1>0, <1>3, <2>1, <2>3, <2>4, <2>6 DEF CountedPast
<1> QED
  BY <1>2, <1>3

\* What a session file holds fits into the object that reads it.
LEMMA RestoredPast ==
  ASSUME NEW s \in [Chats -> Sessions], CountedSessions(s),
         NEW r \in ModelRecord, r.small = FALSE, CountedPast(r.nPast, r.cache)
  PROVE  CountedPast(Restored(r, s).nPast, Restored(r, s).cache)
<1> DEFINE q == Restored(r, s)
<1>1. \/ q.nPast = r.nPast /\ q.cache = r.cache
      \/ /\ r.params.path \in Chats /\ q.nPast = s[r.params.path].nPast
         /\ q.cache = IF Cardinality(s[r.params.path].cache) <= Room[r.small]
                      THEN s[r.params.path].cache ELSE {}
  BY RestoredFacts
<1> HIDE DEF q
<1>2. CASE q.nPast = r.nPast /\ q.cache = r.cache
  BY <1>2 DEF q
<1>3. CASE /\ r.params.path \in Chats /\ q.nPast = s[r.params.path].nPast
           /\ q.cache = IF Cardinality(s[r.params.path].cache) <= Room[r.small]
                        THEN s[r.params.path].cache ELSE {}
  <2>1. CountedPast(s[r.params.path].nPast, s[r.params.path].cache)
    BY <1>3 DEF CountedSessions
  <2>2. Cardinality(s[r.params.path].cache) <= Room[r.small]
    BY <2>1 DEF CountedPast, Full
  <2> QED
    BY <1>3, <2>1, <2>2 DEF q
<1> QED
  BY <1>1, <1>2, <1>3

\* A release saves what the objects count.
LEMMA ReleaseCounted ==
  ASSUME NEW ms \in [Models -> OwnRecord], NEW c \in Models \cup {NoModel},
         NEW s \in [Chats -> Sessions], NEW k \in Models \cup {NoModel}, Release(ms, c, s, k), CountedObjects(ms), CountedSessions(s)
  PROVE  CountedObjects(model') /\ CountedSessions(session')
<1>0. ms \in [Models -> ModelRecord]
  BY DEF OwnRecord
<1>1. /\ \A m \in Models : model'[m] \in {ms[m], Unused}
      /\ \A x \in Chats : session'[x] = s[x] \/ \E m \in Models : session'[x] = Saved(ms[m])
  BY <1>0, ReleaseFacts
<1>2. CountedIn(Unused)
  <2>1. DefaultParams.small = FALSE
    BY DEF DefaultParams
  <2> QED
    BY <2>1, UnusedFacts, EmptyPast DEF CountedIn
<1>3. CountedObjects(model')
  BY <1>1, <1>2 DEF CountedObjects
<1>4. ASSUME NEW x \in Chats
      PROVE  CountedPast(session'[x].nPast, session'[x].cache)
  <2>1. CASE session'[x] = s[x]
    BY <2>1 DEF CountedSessions
  <2>2. ASSUME NEW m \in Models, session'[x] = Saved(ms[m])
        PROVE  CountedPast(session'[x].nPast, session'[x].cache)
    <3>1. ms[m] \in ModelRecord /\ CountedPast(ms[m].nPast, ms[m].cache)
      BY <1>0 DEF CountedObjects, CountedIn
    <3>2. session'[x].nPast = ms[m].nPast /\ session'[x].cache = ms[m].cache
      BY <2>2, <3>1, SavedFacts
    <3> QED
      BY <3>1, <3>2
  <2> QED
    BY <1>1, <2>1, <2>2
<1> QED
  BY <1>3, <1>4 DEF CountedSessions

\* A session that is saved counts what it holds.
LEMMA SaveCounted ==
  ASSUME NEW s \in [Chats -> Sessions], CountedSessions(s), NEW r \in ModelRecord,
         CountedPast(r.nPast, r.cache)
  PROVE  CountedSessions(SaveState(s, r))
<1>1. Saved(r).nPast = r.nPast /\ Saved(r).cache = r.cache
  BY SavedFacts
<1>2. \A x \in Chats : SaveState(s, r)[x] \in {s[x], Saved(r)}
  BY SaveStateFacts
<1> QED
  BY <1>1, <1>2 DEF CountedSessions

\* Saving from the screen keeps the counts.
LEMMA ScreenSaveCounted ==
  ASSUME TypeOK, Made, CountedObjects(model), CountedSessions(session)
  PROVE  CountedSessions(SavedByScreen)
<1>1. CASE chat = NoModel
  BY <1>1 DEF SavedByScreen
<1>2. CASE chat # NoModel
  <2>1. chat \in Models /\ model[chat] \in ModelRecord /\ session \in [Chats -> Sessions]
    BY <1>2 DEF TypeOK
  <2>2. CountedPast(model[chat].nPast, model[chat].cache)
    BY <2>1 DEF CountedObjects, CountedIn
  <2> QED
    BY <1>2, <2>1, <2>2, SaveCounted DEF SavedByScreen
<1> QED
  BY <1>1, <1>2

\* Send keeps the counts.
LEMMA SendCounted ==
  ASSUME Typed, Counted, NEW e \in Exchanges, Send(e)
  PROVE  CountedObjects(model') /\ CountedSessions(session')
<1>0. TypeOK /\ Made /\ chatName \in Chats /\ config \in [Chats -> Configuration]
  BY DEF Typed, TypeOK
<1>1. PICK ms \in [Models -> OwnRecord], c \in Models \cup {NoModel} :
        Release(ms, c, session, retained) /\ SendEffect(ms, c, e)
  BY <1>0, SendCases
<1>2. CountedIn(NewObject)
  <2>1. NewObject.params.small = config[chatName].small
    <3>1. ConfigParams(chatName, config).small = config[chatName].small
      BY <1>0, ConfigFacts
    <3> QED
      BY <1>0, <3>1, NewObjectFacts
  <2>2. ~config[chatName].small
    BY <1>0 DEF Counted
  <2> QED
    BY <1>0, <2>1, <2>2, NewObjectFacts, EmptyPast DEF CountedIn
<1>3. ASSUME NEW m \in Models
      PROVE  CountedIn(ms[m])
  <2>1. CountedIn(model[m])
    BY DEF Counted, CountedObjects
  <2>2. CASE ms[m] = model[m]
    BY <2>1, <2>2
  <2>3. CASE PredictsFrom(ms[m], model[m], e) \/ LoadsFrom(ms[m], model[m], e)
    BY <2>1, <2>3 DEF CountedIn, PredictsFrom, LoadsFrom
  <2>4. CASE LoadsFrom(ms[m], NewObject, e)
    BY <1>2, <2>4 DEF CountedIn, LoadsFrom
  <2> QED
    BY <1>1, <2>2, <2>3, <2>4 DEF SendEffect
<1>4. CountedObjects(ms) /\ CountedSessions(session) /\ session \in [Chats -> Sessions]
  BY <1>0, <1>3 DEF Counted, CountedObjects, TypeOK
<1> QED
  BY <1>0, <1>1, <1>4, ReleaseCounted DEF TypeOK

\* Giving up a load keeps the counts.
LEMMA GiveUpCounted ==
  ASSUME Typed, Counted, NEW m \in Models, NEW ms \in [Models -> OwnRecord], IdleEffect(ms, m), GiveUp(ms)
  PROVE  CountedObjects(model') /\ CountedSessions(session')
<1>0. TypeOK /\ Made /\ CountedObjects(model) /\ CountedSessions(session)
  BY DEF Typed, Counted
<1>1. CountedObjects(ms)
  BY <1>0 DEF CountedObjects, CountedIn, IdleEffect, Same
<1>2. CountedSessions(SavedByScreen) /\ SavedByScreen \in [Chats -> Sessions]
  BY <1>0, ScreenSaveCounted, ScreenSaveFacts
<1> QED
  BY <1>0, <1>1, <1>2, ReleaseCounted DEF GiveUp, TypeOK

\* Clear leaves the size of a context.
LEMMA ClearedSmall ==
  ASSUME TypeOK, Made
  PROVE  LET ms == IF chat = NoModel THEN model ELSE [model EXCEPT ![chat].params.save = FALSE]
         IN  \A n \in Models : ms[n].params.small = model[n].params.small
<1>1. CASE chat = NoModel
  BY <1>1
<1>2. CASE chat # NoModel
  <2> DEFINE p == [model[chat].params EXCEPT !.save = FALSE]
             ms == [model EXCEPT ![chat] = [model[chat] EXCEPT !.params = p]]
  <2>1. chat \in Models /\ model[chat] \in ModelRecord /\ model[chat].params \in Params
    BY <1>2 DEF TypeOK, ModelRecord
  <2>2. p.small = model[chat].params.small
    BY <2>1 DEF Params
  <2>3. ms = [model EXCEPT ![chat].params.save = FALSE]
    BY <2>1 DEF Made
  <2> HIDE DEF p
  <2>4. [model[chat] EXCEPT !.params = p].params = p
    BY <2>1 DEF ModelRecord
  <2>5. \A n \in Models : ms[n].params.small = model[n].params.small
    BY <2>1, <2>2, <2>4 DEF Made
  <2> QED
    BY <1>2, <2>3, <2>5
<1> QED
  BY <1>1, <1>2

\* What LLaMa_obj's model leaves counts what it holds.
LEMMA AfterRetainedCounted ==
  ASSUME TypeOK, Made, CountedObjects(model), CountedSessions(session)
  PROVE  CountedSessions(AfterRetained)
<1>1. CASE retained # NoModel /\ ~Held(model, chat, retained)
  <2>1. retained \in Models /\ model[retained] \in ModelRecord /\ session \in [Chats -> Sessions]
    BY <1>1 DEF TypeOK
  <2>2. CountedPast(model[retained].nPast, model[retained].cache)
    BY <2>1 DEF CountedObjects, CountedIn
  <2> QED
    BY <1>1, <2>1, <2>2, SaveCounted DEF AfterRetained
<1>2. CASE ~(retained # NoModel /\ ~Held(model, chat, retained))
  BY <1>2 DEF AfterRetained
<1> QED
  BY <1>1, <1>2

\* What a model believes to have read it has, if no context changes size.
LEMMA CountedStep ==
  ASSUME Typed, Numbered, InOnePlace, "context" \notin setup.may, Counted, [Next]_vars
  PROVE  Counted'
<1> USE DEF files, screen, ghosts
<1>0. /\ TypeOK /\ Made /\ session \in [Chats -> Sessions] /\ chatName \in Chats
      /\ config \in [Chats -> Configuration]
      /\ CountedObjects(model) /\ CountedSessions(session) /\ \A c \in Chats : ~config[c].small
      /\ chat \in Models \cup {NoModel} /\ retained \in Models \cup {NoModel}
      /\ \A m \in Models : model[m] \in ModelRecord
  BY DEF Typed, TypeOK, Counted
<1>a. ASSUME UNCHANGED config, CountedObjects(model'), CountedSessions(session')
      PROVE  Counted'
  BY <1>a DEF Counted
<1>1. CASE UserSend
  <2>1. Send(NextExchange) /\ UNCHANGED config /\ NextExchange \in Exchanges
    BY <1>0, <1>1, AskTyped DEF UserSend
  <2> QED
    BY <1>a, <2>1, SendCounted
<1>2. ASSUME NEW e \in Exchanges, SendAgain(e)
      PROVE  Counted'
  BY <1>a, <1>2, SendCounted DEF SendAgain
<1>3. ASSUME StopPredict \/ \E c \in Chats : SelectChat(c)
      PROVE  Counted'
  <2>1. session' = SavedByScreen /\ UNCHANGED <<config, model>>
    BY <1>3 DEF StopPredict, SelectChat
  <2> QED
    BY <1>0, <1>a, <2>1, ScreenSaveCounted
<1>4. CASE ClearChat
  <2> DEFINE ms == IF chat = NoModel THEN model ELSE [model EXCEPT ![chat].params.save = FALSE]
             s == [session EXCEPT ![chatName] = NoSession]
  <2>1. /\ ms \in [Models -> OwnRecord]
        /\ \A n \in Models : Same(ms[n], model[n]) /\ ms[n].params.small = model[n].params.small
    BY <1>0, ClearedFacts, ClearedSmall
  <2>2. s \in [Chats -> Sessions] /\ CountedSessions(s)
    BY <1>0, NoSessionFacts, EmptyPast DEF CountedSessions
  <2>3. Release(ms, NoModel, s, retained) /\ UNCHANGED config
    BY <1>4 DEF ClearChat
  <2> HIDE DEF ms, s
  <2>4. CountedObjects(ms)
    BY <1>0, <2>1 DEF CountedObjects, CountedIn, Same
  <2> QED
    BY <1>0, <1>a, <2>1, <2>2, <2>3, <2>4, ReleaseCounted
<1>5. ASSUME \/ \E save, small \in BOOLEAN : EditSettings(save, small)
             \/ RefreshChatList
             \/ \E c \in Chats : DeleteChat(c)
      PROVE  Counted'
  <2>1. config' \in [Chats -> Configuration] /\ model' = UpdateChatParams(model, config')
    BY <1>0, <1>5, ConfigsTyped DEF EditSettings, RefreshChatList, DeleteChat
  <2>2. UNCHANGED session
    BY <1>5 DEF EditSettings, RefreshChatList, DeleteChat
  <2>3. \A c \in Chats : ~config'[c].small
    <3>1. CASE \E save, small \in BOOLEAN : EditSettings(save, small)
      <4>1. PICK save, small \in BOOLEAN : EditSettings(save, small)
        BY <3>1
      <4> DEFINE f == [exists |-> TRUE, version |-> config[chatName].version + 1,
                       save |-> save, small |-> small]
      <4>2. ~small /\ ~f.small
        BY <1>0, <4>1 DEF EditSettings
      <4>3. config' = [config EXCEPT ![chatName] = f]
        BY <4>1 DEF EditSettings
      <4> HIDE DEF f
      <4> QED
        BY <1>0, <4>2, <4>3
    <3>2. CASE RefreshChatList
      BY <1>0, <3>2 DEF RefreshChatList
    <3>3. ASSUME NEW c \in Chats, DeleteChat(c)
          PROVE  \A x \in Chats : ~config'[x].small
      <4> DEFINE f == [config[c] EXCEPT !.exists = FALSE]
      <4>1. f.small = config[c].small
        BY <1>0 DEF Configuration
      <4>2. config' = [config EXCEPT ![c] = f]
        BY <1>0, <3>3 DEF DeleteChat
      <4> HIDE DEF f
      <4> QED
        BY <1>0, <4>1, <4>2
    <3> QED
      BY <1>5, <3>1, <3>2, <3>3
  <2>4. ASSUME NEW n \in Models
        PROVE  CountedIn(model'[n])
    <3>1. CountedIn(model[n])
      BY <1>0 DEF CountedObjects
    <3>2. CASE chat # NoModel /\ config'[model[chat].chat].exists
      <4>1. ParamsEffect(model', chat, ConfigParams(model[chat].chat, config'))
        BY <1>0, <2>1, <3>2, UpdateFacts
      <4>2. model[chat].chat \in Chats
        BY <1>0, <3>2 DEF Made
      <4>3. ~ConfigParams(model[chat].chat, config').small
        BY <2>1, <2>3, <4>2, ConfigFacts
      <4> QED
        BY <3>1, <4>1, <4>3 DEF ParamsEffect, CountedIn, Same
    <3>3. CASE ~(chat # NoModel /\ config'[model[chat].chat].exists)
      <4>1. model' = model
        BY <1>0, <2>1, <3>3, UpdateFacts
      <4> QED
        BY <3>1, <4>1
    <3> QED
      BY <3>2, <3>3
  <2> QED
    BY <1>0, <2>2, <2>3, <2>4 DEF Counted, CountedObjects
<1>6. ASSUME NEW m \in Models, LoadContext(m) \/ LoadState(m)
      PROVE  Counted'
  <2>1. /\ \A n \in Models \ {m} : model'[n] = model[n]
        /\ model'[m].params = model[m].params
        /\ \/ /\ model'[m].small = model[m].small
              /\ model'[m].nPast = model[m].nPast /\ model'[m].cache = model[m].cache
           \/ /\ model'[m].small = model[m].small
              /\ model'[m].nPast = Restored(model[m], session).nPast
              /\ model'[m].cache = Restored(model[m], session).cache
    BY <1>0, <1>6, LoadingFacts
  <2>2. UNCHANGED <<session, config>>
    BY <1>6 DEF LoadContext, LoadState
  <2>3. CountedIn(model[m]) /\ model[m].small \in BOOLEAN
    BY <1>0 DEF CountedObjects, ModelRecord
  <2>4. CountedPast(Restored(model[m], session).nPast, Restored(model[m], session).cache)
    BY <1>0, <2>3, RestoredPast DEF CountedIn
  <2>5. CountedIn(model'[m])
    BY <2>1, <2>3, <2>4 DEF CountedIn
  <2>6. CountedObjects(model')
    BY <1>0, <2>1, <2>5 DEF CountedObjects
  <2> QED
    BY <1>0, <1>a, <2>2, <2>6
<1>7. ASSUME NEW m \in Models, LoadDone(m)
      PROVE  Counted'
  <2>1. PICK ms \in [Models -> OwnRecord] :
         \/ /\ chat \in Models /\ model[chat].context
            /\ resend' = resend \cup {model[m].onLoad} /\ history' = history
            /\ Release(ms, chat, session, retained)
            /\ \A n \in Models : /\ Same(ms[n], model[n])
                                 /\ ms[n].load = IF n = m THEN "idle" ELSE model[n].load
                                 /\ ms[n].params = IF n = chat THEN DefaultParams ELSE model[n].params
         \/ /\ chat # NoModel => ~model[chat].context
            /\ IdleEffect(ms, m) /\ GiveUp(ms) /\ resend' = resend
    BY <1>0, <1>7, LoadDoneCases
  <2>2. UNCHANGED config
    BY <1>7 DEF LoadDone
  <2>3. CASE /\ chat \in Models /\ Release(ms, chat, session, retained)
             /\ \A n \in Models : /\ Same(ms[n], model[n])
                                  /\ ms[n].params = IF n = chat THEN DefaultParams ELSE model[n].params
    <3>1. ~DefaultParams.small
      BY DEF DefaultParams
    <3>2. CountedObjects(ms)
      BY <1>0, <2>3, <3>1 DEF CountedObjects, CountedIn, Same
    <3> QED
      BY <1>0, <1>a, <2>2, <2>3, <3>2, ReleaseCounted
  <2>4. CASE IdleEffect(ms, m) /\ GiveUp(ms)
    BY <1>a, <2>2, <2>4, GiveUpCounted
  <2> QED
    BY <2>1, <2>3, <2>4
<1>8. ASSUME NEW m \in Models, LoadFail(m)
      PROVE  Counted'
  <2> DEFINE ms == [model EXCEPT ![m].load = "idle"]
  <2>1. ms \in [Models -> OwnRecord] /\ IdleEffect(ms, m)
    BY <1>0, IdledFacts
  <2>2. GiveUp(ms) /\ UNCHANGED config
    BY <1>8 DEF LoadFail
  <2> HIDE DEF ms
  <2> QED
    BY <1>a, <2>1, <2>2, GiveUpCounted
<1>9. ASSUME NEW m \in Models, FinishTurn(m)
      PROVE  Counted'
  <2>1. PICK ms \in [Models -> OwnRecord] :
            /\ \A n \in Models \ {m} : ms[n] = model[n]
            /\ EvaluatedFrom(ms[m], model[m])
            /\ Release(ms, chat, IF chat = NoModel THEN session ELSE SaveState(session, ms[chat]), retained)
    BY <1>0, <1>9, FinishTurnCases
  <2> DEFINE s == IF chat = NoModel THEN session ELSE SaveState(session, ms[chat])
  <2>2. /\ Release(ms, chat, s, retained) /\ UNCHANGED config /\ model[m].turn # 0
        /\ chat \in Models \cup {NoModel}
    BY <1>0, <1>9, <2>1 DEF FinishTurn, TypeOK
  <2>3. CountedIn(ms[m])
    <3>1. CountedIn(model[m]) /\ model[m].small = FALSE
      BY <1>0 DEF CountedObjects, CountedIn, ModelRecord
    <3>2. /\ model[m].nPast \in Nat /\ model[m].cache \in SUBSET Exchanges
          /\ model[m].turn \in Exchanges
      BY <1>0, <2>2 DEF ModelRecord, Exchanges
    <3>3. model[m].turn \notin model[m].cache
      BY <1>0, <2>2, SpentFacts DEF InOnePlace, Placed
    <3>4. ms[m].small = model[m].small /\ ms[m].params = model[m].params
      BY <2>1 DEF EvaluatedFrom, ReadBy
    <3>5. \/ /\ model[m].nPast < Full /\ ms[m].nPast = model[m].nPast + 1
             /\ ms[m].cache = model[m].cache \cup {model[m].turn}
          \/ /\ ~(model[m].nPast < Full) /\ ms[m].nPast = Full
             /\ \E d \in IF model[m].cache = {} THEN {model[m].turn} ELSE model[m].cache :
                   ms[m].cache = (model[m].cache \ {d}) \cup {model[m].turn}
      BY <2>1, <3>1 DEF EvaluatedFrom, ReadBy, Full
    <3>6. CountedPast(ms[m].nPast, ms[m].cache)
      BY <3>1, <3>2, <3>3, <3>5, EvaluatedPast DEF CountedIn
    <3> QED
      BY <3>1, <3>4, <3>6 DEF CountedIn
  <2>4. CountedObjects(ms)
    BY <1>0, <2>1, <2>3 DEF CountedObjects
  <2>5. s \in [Chats -> Sessions] /\ CountedSessions(s)
    <3>1. CASE chat = NoModel
      BY <1>0, <3>1
    <3>2. CASE chat # NoModel
      <4>1. ms[chat] \in ModelRecord /\ CountedPast(ms[chat].nPast, ms[chat].cache)
        BY <2>2, <2>4, <3>2 DEF OwnRecord, CountedObjects, CountedIn
      <4> QED
        BY <1>0, <3>2, <4>1, SaveStateFacts, SaveCounted
    <3> QED
      BY <3>1, <3>2
  <2> HIDE DEF s
  <2> QED
    BY <1>0, <1>a, <2>2, <2>4, <2>5, ReleaseCounted
<1>10. ASSUME NEW c \in Chats, NEW useHistory \in BOOLEAN, IntentBegin(c, useHistory)
       PROVE  Counted'
  <2>1. NextExchange \in Exchanges /\ UNCHANGED config
    BY <1>10, NextExchangeIsNew DEF IntentBegin
  <2>2. PICK m \in Models, ms \in [Models -> OwnRecord] :
           /\ model[m].chat = NoChat /\ \A n \in Models \ {m} : ms[n] = model[n]
           /\ IntentObject(ms[m], c, useHistory, NextExchange)
           /\ Release(ms, chat, session, m)
    BY <1>0, <1>10, <2>1, IntentBeginCases
  <2>3. CountedPast(AfterRetained[c].nPast, AfterRetained[c].cache)
    BY <1>0, AfterRetainedCounted DEF CountedSessions
  <2>4. config[c].small = FALSE
    BY <1>0 DEF Configuration
  <2>5. /\ ms[m].small = FALSE /\ ms[m].params.small = FALSE
        /\ \/ ms[m].nPast = 0 /\ ms[m].cache = {}
           \/ /\ ms[m].nPast = AfterRetained[c].nPast
              /\ ms[m].cache = IF Cardinality(AfterRetained[c].cache) <= Room[ms[m].small]
                               THEN AfterRetained[c].cache ELSE {}
    BY <2>2, <2>4 DEF IntentObject
  <2>6. CountedPast(ms[m].nPast, ms[m].cache)
    <3>1. Cardinality(AfterRetained[c].cache) <= Room[FALSE]
      BY <2>3 DEF CountedPast, Full
    <3> QED
      BY <2>3, <2>5, <3>1, EmptyPast
  <2>7. CountedObjects(ms)
    BY <1>0, <2>2, <2>5, <2>6 DEF CountedObjects, CountedIn
  <2> QED
    BY <1>0, <1>a, <2>1, <2>2, <2>7, ReleaseCounted
<1>12. ASSUME NEW m \in Models, LoadBegin(m)
       PROVE  Counted'
  <2>1. PICK ms \in [Models -> OwnRecord] :
           /\ \A n \in Models \ {m} : ms[n] = model[n]
           /\ Begun(ms[m], model[m])
           /\ Release(ms, chat, session, m)
    BY <1>0, <1>12, LoadBeginCases
  <2>2. UNCHANGED config
    BY <1>12 DEF LoadBegin
  <2>3. CountedObjects(ms)
    BY <1>0, <2>1 DEF CountedObjects, CountedIn, Begun
  <2> QED
    BY <1>0, <1>a, <2>1, <2>2, <2>3, ReleaseCounted
<1>13. ASSUME NEW m \in Models, IntentAnswer(m)
       PROVE  Counted'
  <2>1. PICK ms \in [Models -> OwnRecord] :
            /\ \A n \in Models \ {m} : ms[n] = model[n]
            /\ AnsweredFrom(ms[m], model[m])
            /\ Release(ms, chat, SaveState(session, ms[m]), retained)
    BY <1>0, <1>13, AnswerCases
  <2> DEFINE s == SaveState(session, ms[m])
  <2>2. Release(ms, chat, s, retained) /\ UNCHANGED config /\ model[m].intent # 0
    BY <1>13, <2>1 DEF IntentAnswer
  <2>3. CountedIn(ms[m])
    <3>1. CountedIn(model[m]) /\ model[m].small = FALSE
      BY <1>0 DEF CountedObjects, CountedIn, ModelRecord
    <3>2. /\ model[m].nPast \in Nat /\ model[m].cache \in SUBSET Exchanges
          /\ model[m].intent \in Exchanges
      BY <1>0, <2>2 DEF ModelRecord, Exchanges
    <3>3. model[m].intent \notin model[m].cache
      BY <1>0, <2>2, SpentFacts DEF InOnePlace, Placed
    <3>4. ms[m].small = model[m].small /\ ms[m].params = model[m].params
      BY <2>1 DEF AnsweredFrom, ReadBy
    <3>5. \/ /\ model[m].nPast < Full /\ ms[m].nPast = model[m].nPast + 1
             /\ ms[m].cache = model[m].cache \cup {model[m].intent}
          \/ /\ ~(model[m].nPast < Full) /\ ms[m].nPast = Full
             /\ \E d \in IF model[m].cache = {} THEN {model[m].intent} ELSE model[m].cache :
                   ms[m].cache = (model[m].cache \ {d}) \cup {model[m].intent}
      BY <2>1, <3>1 DEF AnsweredFrom, ReadBy, Full
    <3>6. CountedPast(ms[m].nPast, ms[m].cache)
      BY <3>1, <3>2, <3>3, <3>5, EvaluatedPast DEF CountedIn
    <3> QED
      BY <3>1, <3>4, <3>6 DEF CountedIn
  <2>4. CountedObjects(ms)
    BY <1>0, <2>1, <2>3 DEF CountedObjects
  <2>5. s \in [Chats -> Sessions] /\ CountedSessions(s)
    <3>1. ms[m] \in ModelRecord /\ CountedPast(ms[m].nPast, ms[m].cache)
      BY <2>4 DEF OwnRecord, CountedObjects, CountedIn
    <3> QED
      BY <1>0, <3>1, SaveStateFacts, SaveCounted
  <2> HIDE DEF s
  <2> QED
    BY <1>0, <1>a, <2>2, <2>4, <2>5, ReleaseCounted
<1>11. CASE UNCHANGED vars
  BY <1>11 DEF vars, Counted
<1> QED
  BY <1>1, <1>2, <1>3, <1>4, <1>5, <1>6, <1>7, <1>8, <1>9, <1>10, <1>11, <1>12, <1>13 DEF Next

\* The setup never changes.
LEMMA SetupKept ==
  ASSUME [Next]_vars
  PROVE  setup' = setup
<1> USE DEF files
<1>1. CASE UserSend \/ StopPredict \/ ClearChat \/ RefreshChatList
  BY <1>1 DEF UserSend, StopPredict, ClearChat, RefreshChatList
<1>2. CASE \E c \in Chats : SelectChat(c) \/ DeleteChat(c)
  BY <1>2 DEF SelectChat, DeleteChat
<1>3. CASE \E save, small \in BOOLEAN : EditSettings(save, small)
  BY <1>3 DEF EditSettings
<1>4. CASE \E m \in Models : LoadBegin(m) \/ LoadContext(m) \/ LoadState(m) \/ LoadDone(m) \/ LoadFail(m)
  BY <1>4 DEF LoadBegin, LoadContext, LoadState, LoadDone, LoadFail
<1>5. CASE \E m \in Models : FinishTurn(m) \/ IntentAnswer(m)
  BY <1>5 DEF FinishTurn, IntentAnswer
<1>6. CASE \E e \in Exchanges : SendAgain(e)
  BY <1>6 DEF SendAgain
<1>7. CASE \E c \in Chats, useHistory \in BOOLEAN : IntentBegin(c, useHistory)
  BY <1>7 DEF IntentBegin
<1>8. CASE UNCHANGED vars
  BY <1>8 DEF vars
<1> QED
  BY <1>1, <1>2, <1>3, <1>4, <1>5, <1>6, <1>7, <1>8 DEF Next

\* No exchange is anywhere at the start.
LEMMA PlacedInit ==
  ASSUME Init
  PROVE  Numbered /\ InOnePlace
<1>1. Asked = {}
  BY DEF Init, Asked
<1>2. 0 \in 0..MaxExchanges /\ 1..0 = {}
  OBVIOUS
<1>3. Spent = {}
  BY UnusedFacts, NoSessionFacts, SpentElements DEF Init
<1>4. \A m \in Models : model[m].turn = 0 /\ model[m].load = "idle" /\ model[m].intent = 0
  BY UnusedFacts DEF Init
<1>5. resend = {}
  BY DEF Init
<1> QED
  BY <1>1, <1>2, <1>3, <1>4, <1>5 DEF Numbered, InOnePlace, Placed

\* Nothing is counted at the start.
LEMMA CountedInit ==
  ASSUME Init
  PROVE  Counted
<1>1. CountedIn(Unused)
  <2>1. DefaultParams.small = FALSE
    BY DEF DefaultParams
  <2> QED
    BY <2>1, UnusedFacts, EmptyPast DEF CountedIn
<1>2. CountedObjects(model)
  BY <1>1 DEF Init, CountedObjects
<1>3. CountedSessions(session)
  BY NoSessionFacts, EmptyPast DEF Init, CountedSessions
<1>4. \A c \in Chats : ~config[c].small
  BY DEF Init
<1> QED
  BY <1>2, <1>3, <1>4 DEF Counted

\* What a model has read is its own chat's dialog, and all of what it believes to have
\* read: no session, prediction or load mixes chats, as long as loads do not overlap, and
\* the past a model resumes with is in its cache, as long as no context shrinks
\* (LLaMa.save_state, load_state, AIChatModel.Send, OneShortQuery).
THEOREM DialogCorrectHolds == Spec => []DialogCorrect
<1> DEFINE Inv == /\ Typed /\ Numbered /\ InOnePlace
                  /\ "overlap" \notin setup.may => Owned
                  /\ "context" \notin setup.may => Counted
<1>1. Init => Inv
  <2> SUFFICES ASSUME Init PROVE Inv
    OBVIOUS
  <2>1. Typed /\ Numbered /\ InOnePlace
    BY TypedInit, PlacedInit
  <2>2. Owned
    BY UnusedFacts, NoSessionFacts DEF Init, Owned, OwnedObjects, OwnedIn, OwnedSessions
  <2>3. Counted
    BY CountedInit
  <2> QED
    BY <2>1, <2>2, <2>3
<1>2. Inv /\ [Next]_vars => Inv'
  <2> SUFFICES ASSUME Inv, [Next]_vars PROVE Inv'
    OBVIOUS
  <2>1. setup' = setup
    BY SetupKept
  <2> QED
    BY <2>1, TypedStep, PlacedStep, OwnedStep, CountedStep
<1>3. Inv => DialogCorrect
  <2> SUFFICES ASSUME Inv PROVE DialogCorrect
    OBVIOUS
  <2>1. chat # NoModel => chat \in Models
    BY DEF Typed, TypeOK
  <2>2. DialogOfItsChat
    BY <2>1 DEF DialogOfItsChat, Owned, OwnedObjects, OwnedIn, OwnedSessions, Of, AskedIn
  <2>3. ResumedDialogIsInCache
    BY DEF ResumedDialogIsInCache, Counted, CountedObjects, CountedIn, CountedPast
  <2> QED
    BY <2>2, <2>3 DEF DialogCorrect
<1> QED
  BY <1>1, <1>2, <1>3, PTL DEF Spec

------------------------------------------------------------------------------
(* Who writes session files: the intents alone, when loads neither overlap nor fail late *)

Calm == setup.may \cap {"overlap", "clip", "context", "intents anywhere"} = {}

Busy(r) == r.turn # 0 \/ r.load # "idle"

\* One object at a time loads or predicts, or one exchange waits to be sent again.
OneAtATime(ms, rs) ==
  /\ \A m, n \in Models : Busy(ms[m]) /\ Busy(ms[n]) => m = n
  /\ \A m \in Models : Busy(ms[m]) => rs = {} /\ (ms[m].turn = 0 \/ ms[m].load = "idle")
  /\ \A d, e \in rs : d = e

\* With the current object c: a load has its context once it is "opened", and does not save
\* when its object is not current any more.
Loads(ms, c) ==
  \A m \in Models : /\ ms[m].load \in {"queued", "opening"} => ~ms[m].context
                    /\ ms[m].load \in {"opened", "restored"} => ms[m].context
                    /\ m # c /\ ms[m].load # "idle" => ~ms[m].params.save

\* An object that would save when it is deallocated.
Saver(r) == Saves(r) /\ r.load = "idle"

\* What the session file f has, r has read.
Agrees(r, f) == f.exists => f.nPast = r.nPast /\ f.cache = r.cache

\* Only objects of intents save, each to a file of its own that it agrees with.
SaversAgree(ms, c, s) ==
  /\ \A m \in Models : Saver(ms[m]) =>
        m # c /\ ms[m].turn = 0 /\ Agrees(ms[m], s[ms[m].params.path])
  /\ \A m, n \in Models : m # n /\ Saver(ms[m]) /\ Saver(ms[n]) => ms[m].params.path # ms[n].params.path

\* An object that would save is held by its intent or by LLaMa_obj.
SaversHeld(ms, k) == \A m \in Models : Saver(ms[m]) => ms[m].intent # 0 \/ m = k

Quiet ==
  /\ OneAtATime(model, resend) /\ Loads(model, chat)
  /\ SaversAgree(model, chat, session) /\ SaversHeld(model, retained)

\* A release writes only what the file has already, where it has anything.
LEMMA ReleaseQuiet ==
  ASSUME NEW ms \in [Models -> OwnRecord], NEW c \in Models \cup {NoModel},
         NEW s \in [Chats -> Sessions], NEW k \in Models \cup {NoModel}, Release(ms, c, s, k),
         OneAtATime(ms, resend'), Loads(ms, c), SaversAgree(ms, c, s)
  PROVE  /\ Quiet'
         /\ \A x \in Chats : \/ session'[x] = s[x]
                             \/ /\ \E n \in Models : /\ Saver(ms[n]) /\ ms[n].intent = 0 /\ n # k
                                                     /\ ms[n].params.path = x
                                /\ s[x].exists => session'[x].cache = s[x].cache
<1>0. ms \in [Models -> ModelRecord]
  BY DEF OwnRecord
<1>1. /\ chat' = c /\ retained' = k
      /\ \A m \in Models : IF ms[m].chat # NoChat /\ ~Held(ms, c, m) /\ m # k
                           THEN model'[m] = Unused ELSE model'[m] = ms[m]
      /\ session' \in [Chats -> Sessions]
      /\ \A x \in Chats :
            \/ session'[x] = s[x]
            \/ \E m \in Models : /\ ms[m].chat # NoChat /\ ~Held(ms, c, m) /\ m # k /\ Saves(ms[m])
                                 /\ ms[m].params.path = x /\ session'[x] = Saved(ms[m])
  BY <1>0, ReleaseFacts
<1>2. \A m \in Models : model'[m] = ms[m] \/ model'[m] = Unused
  BY <1>1
<1>3. ~Saver(Unused) /\ ~Busy(Unused) /\ Unused.load = "idle"
  BY UnusedFacts, DefaultFacts DEF Saver, Saves, Busy
<1>4. OneAtATime(model', resend')
  BY <1>2, <1>3 DEF OneAtATime
<1>5. Loads(model', c)
  BY <1>2, <1>3 DEF Loads
<1>6. ASSUME NEW x \in Chats, NEW m \in Models, ms[m].chat # NoChat, ~Held(ms, c, m), m # k,
             Saves(ms[m]), ms[m].params.path = x, session'[x] = Saved(ms[m])
      PROVE  /\ Saver(ms[m]) /\ ms[m].intent = 0 /\ m # k /\ ms[m].params.path = x /\ model'[m] = Unused
             /\ s[x].exists => session'[x].cache = s[x].cache
  <2>1. Saver(ms[m]) /\ ms[m].intent = 0 /\ model'[m] = Unused
    BY <1>1, <1>6 DEF Held, Saver
  <2>2. Agrees(ms[m], s[x])
    BY <1>6, <2>1 DEF SaversAgree
  <2>3. session'[x].cache = ms[m].cache
    BY <1>0, <1>6, SavedFacts
  <2> QED
    BY <1>6, <2>1, <2>2, <2>3 DEF Agrees
<1>7. ASSUME NEW m \in Models, Saver(model'[m])
      PROVE  /\ m # c /\ model'[m].turn = 0 /\ Agrees(model'[m], session'[model'[m].params.path])
             /\ model'[m] = ms[m] /\ Saver(ms[m])
             /\ model'[m].intent # 0 \/ m = k
  <2>1. model'[m] = ms[m] /\ Saver(ms[m])
    BY <1>2, <1>3, <1>7
  <2>2. m # c /\ ms[m].turn = 0 /\ Agrees(ms[m], s[ms[m].params.path])
    BY <2>1 DEF SaversAgree
  <2> DEFINE x == ms[m].params.path
  <2>3. x \in Chats
    BY <1>0, <2>1, SaveStateFacts DEF Saver, Saves, ModelRecord, Params
  <2>4. session'[x] = s[x]
    <3>1. ASSUME session'[x] # s[x]
          PROVE  FALSE
      <4>1. PICK n \in Models : Saver(ms[n]) /\ ms[n].params.path = x /\ model'[n] = Unused
        BY <1>1, <1>6, <2>3, <3>1
      <4>2. n # m
        BY <1>3, <1>7, <4>1
      <4> QED
        BY <2>1, <4>1, <4>2 DEF SaversAgree
    <3> QED
      BY <3>1
  <2>5. ms[m].intent # 0 \/ m = k
    <3>1. ASSUME ms[m].intent = 0, m # k
          PROVE  FALSE
      <4>1. ms[m].chat # NoChat /\ ~Held(ms, c, m)
        <5>1. ms[m].chat # NoChat
          BY <2>1 DEF OwnRecord, Saver, Saves
        <5> QED
          BY <2>1, <2>2, <3>1, <5>1 DEF Held, Saver
      <4> QED
        BY <1>1, <1>3, <1>7, <3>1, <4>1
    <3> QED
      BY <3>1
  <2> QED
    BY <2>1, <2>2, <2>4, <2>5
<1>8. SaversAgree(model', c, session') /\ SaversHeld(model', k)
  BY <1>7 DEF SaversAgree, SaversHeld
<1>9. Quiet'
  BY <1>1, <1>4, <1>5, <1>8 DEF Quiet
<1>10. \A x \in Chats : \/ session'[x] = s[x]
                        \/ /\ \E n \in Models : /\ Saver(ms[n]) /\ ms[n].intent = 0 /\ n # k
                                                /\ ms[n].params.path = x
                           /\ s[x].exists => session'[x].cache = s[x].cache
  BY <1>1, <1>6
<1> QED
  BY <1>9, <1>10

\* The chat window writes no session: what its object would save is being loaded.
LEMMA ScreenQuiet ==
  ASSUME TypeOK, Quiet, chat # NoModel => model[chat].load = "idle" \/ ~model[chat].context
  PROVE  SavedByScreen = session
<1>1. ASSUME chat # NoModel
      PROVE  ~Saves(model[chat])
  <2>1. chat \in Models
    BY <1>1 DEF TypeOK
  <2> QED
    BY <1>1, <2>1 DEF Quiet, SaversAgree, Saver, Saves
<1> QED
  BY <1>1 DEF SavedByScreen, SaveState

Keeps ==
  \A c \in Chats : session[c].exists /\ session[c].nPast < Room[FALSE] /\ session'[c].exists =>
                      session[c].cache \subseteq session'[c].cache

\* A release with the sessions as they were keeps what they have.
LEMMA QuietRelease ==
  ASSUME Typed, NEW ms \in [Models -> OwnRecord], NEW c \in Models \cup {NoModel},
         NEW k \in Models \cup {NoModel}, Release(ms, c, session, k),
         OneAtATime(ms, resend'), Loads(ms, c), SaversAgree(ms, c, session)
  PROVE  Quiet' /\ Keeps
<1>1. session \in [Chats -> Sessions]
  BY DEF Typed, TypeOK
<1>2. /\ Quiet'
      /\ \A x \in Chats : session'[x] = session[x] \/ (session[x].exists => session'[x].cache = session[x].cache)
  BY <1>1, ReleaseQuiet
<1> QED
  BY <1>2 DEF Keeps

\* Giving up the only load, which does not save, keeps the sessions.
LEMMA GiveUpQuiet ==
  ASSUME Typed, Quiet, NEW m \in Models, model[m].load # "idle", ~Saves(model[m]),
         chat # NoModel => model[chat].load = "idle" \/ ~model[chat].context,
         NEW ms \in [Models -> OwnRecord], IdleEffect(ms, m), GiveUp(ms), resend' = resend
  PROVE  Quiet' /\ Keeps
<1>0. TypeOK /\ retained \in Models \cup {NoModel} /\ NoModel \notin Models
  BY DEF Typed, TypeOK
<1>1. Release(ms, NoModel, session, retained)
  BY <1>0, ScreenQuiet DEF GiveUp
<1>2. \A n \in Models : Busy(model[n]) => n = m
  BY DEF Quiet, OneAtATime, Busy
<1>3. \A n \in Models : ms[n].load = "idle"
  BY <1>2 DEF IdleEffect, Busy
<1>4. \A n \in Models : ~Busy(ms[n])
  <2>1. model[m].turn = 0
    BY DEF Quiet, OneAtATime, Busy
  <2> QED
    BY <1>2, <1>3, <2>1 DEF IdleEffect, Same, Busy
<1>5. OneAtATime(ms, resend')
  BY <1>4 DEF OneAtATime, Quiet
<1>6. Loads(ms, NoModel)
  BY <1>3 DEF Loads
<1>7. \A n \in Models : Saver(ms[n]) => /\ Saver(model[n]) /\ ms[n].params = model[n].params
                                        /\ ms[n].turn = model[n].turn
                                        /\ ms[n].nPast = model[n].nPast /\ ms[n].cache = model[n].cache
  BY <1>2 DEF IdleEffect, Same, Saver, Saves, Busy
<1>8. SaversAgree(ms, NoModel, session)
  BY <1>0, <1>7 DEF SaversAgree, Quiet, Agrees
<1> QED
  BY <1>0, <1>1, <1>5, <1>6, <1>8, QuietRelease

\* Send writes no session.
LEMMA SendQuiet ==
  ASSUME Typed, Quiet, \A m \in Models : ~Busy(model[m]), NEW e \in Exchanges, Send(e), resend' = {}
  PROVE  Quiet' /\ Keeps
<1>0. /\ TypeOK /\ Made /\ session \in [Chats -> Sessions] /\ NoModel \notin Models
      /\ retained \in Models \cup {NoModel}
  BY DEF Typed, TypeOK
<1>1. PICK ms \in [Models -> OwnRecord], c \in Models \cup {NoModel} :
        Release(ms, c, session, retained) /\ SendEffect(ms, c, e)
  BY <1>0, SendCases
<1>2. \A m \in Models : \/ ms[m] = model[m]
                        \/ m = c /\ c = chat /\ PredictsFrom(ms[m], model[m], e)
                        \/ m = c /\ LoadsFrom(ms[m], model[m], e)
                        \/ m = c /\ LoadsFrom(ms[m], NewObject, e)
  BY <1>0, <1>1 DEF SendEffect, Kept
<1>3. \A m \in Models : model[m].load = "idle" /\ model[m].turn = 0
  BY DEF Busy
<1>4. NewObject.turn = 0
  BY <1>0, NewObjectFacts
<1>5. OneAtATime(ms, resend')
  <2>1. \A m \in Models : Busy(ms[m]) => m = c
    BY <1>2, <1>3 DEF Busy
  <2>2. \A m \in Models : ms[m].turn = 0 \/ ms[m].load = "idle"
    BY <1>2, <1>3, <1>4 DEF PredictsFrom, LoadsFrom
  <2> QED
    BY <2>1, <2>2 DEF OneAtATime
<1>6. Loads(ms, c)
  BY <1>2, <1>3 DEF Loads, PredictsFrom, LoadsFrom
<1>7. \A m \in Models : Saver(ms[m]) => ms[m] = model[m] /\ Saver(model[m]) /\ m # c
  <2>1. ASSUME NEW m \in Models, Saver(ms[m])
        PROVE  ms[m] = model[m] /\ Saver(model[m]) /\ m # c
    <3>1. ms[m].load = "idle"
      BY <2>1 DEF Saver
    <3>2. ~(m = c /\ c = chat /\ PredictsFrom(ms[m], model[m], e))
      <4>1. ASSUME m = chat, PredictsFrom(ms[m], model[m], e)
            PROVE  FALSE
        <5>1. Saver(model[m])
          BY <2>1, <4>1 DEF PredictsFrom, Saver, Saves
        <5> QED
          BY <4>1, <5>1 DEF Quiet, SaversAgree
      <4> QED
        BY <4>1
    <3>3. ms[m] = model[m]
      BY <1>2, <3>1, <3>2 DEF LoadsFrom
    <3>4. m # c
      <4>1. ASSUME m = c
            PROVE  FALSE
        <5>1. \/ PredictsFrom(ms[m], model[m], e) \/ LoadsFrom(ms[m], model[m], e)
              \/ LoadsFrom(ms[m], NewObject, e)
          BY <1>0, <1>1, <4>1 DEF SendEffect
        <5>2. e # 0
          BY DEF Exchanges
        <5> QED
          BY <1>3, <3>1, <3>3, <5>1, <5>2 DEF PredictsFrom, LoadsFrom
      <4> QED
        BY <4>1
    <3> QED
      BY <2>1, <3>3, <3>4
  <2> QED
    BY <2>1
<1>8. SaversAgree(ms, c, session)
  BY <1>7 DEF Quiet, SaversAgree
<1> QED
  BY <1>0, <1>1, <1>5, <1>6, <1>8, QuietRelease


\* An intent's object agrees with the file it has read; the one LLaMa_obj gave up had written
\* what was there.
LEMMA IntentQuiet ==
  ASSUME Typed, Calm, Counted, Quiet, NEW c \in Chats, NEW useHistory \in BOOLEAN,
         IntentBegin(c, useHistory)
  PROVE  Quiet' /\ Keeps
<1>0. /\ TypeOK /\ Made /\ session \in [Chats -> Sessions] /\ NoModel \notin Models
      /\ retained \in Models \cup {NoModel} /\ chat \in Models \cup {NoModel}
      /\ OneAtATime(model, resend) /\ Loads(model, chat)
      /\ SaversAgree(model, chat, session) /\ SaversHeld(model, retained)
  BY DEF Typed, TypeOK, Quiet
<1>1. NextExchange \in Exchanges /\ NextExchange # 0 /\ resend' = resend /\ ~AskedByIntent(c)
  <2>1. MayAsk(c) /\ Ask(NextExchange, c) /\ resend' = resend
    BY DEF IntentBegin
  <2>2. NextExchange \in Exchanges
    BY <2>1, AskTyped
  <2>3. NextExchange # 0
    BY <2>2 DEF Exchanges
  <2>4. "intents anywhere" \notin setup.may
    BY DEF Calm
  <2> QED
    BY <2>1, <2>2, <2>3, <2>4 DEF MayAsk
<1>2. PICK m \in Models, ms \in [Models -> OwnRecord] :
         /\ model[m].chat = NoChat /\ \A n \in Models \ {m} : ms[n] = model[n]
         /\ IntentObject(ms[m], c, useHistory, NextExchange)
         /\ Release(ms, chat, session, m)
  BY <1>0, <1>1, IntentBeginCases
<1>3. ms \in [Models -> ModelRecord]
  BY DEF OwnRecord
<1>4. /\ chat' = chat /\ retained' = m
      /\ \A n \in Models : IF ms[n].chat # NoChat /\ ~Held(ms, chat, n) /\ n # m
                           THEN model'[n] = Unused ELSE model'[n] = ms[n]
      /\ \A x \in Chats :
            \/ session'[x] = session[x]
            \/ \E n \in Models : /\ ms[n].chat # NoChat /\ ~Held(ms, chat, n) /\ n # m /\ Saves(ms[n])
                                 /\ ms[n].params.path = x /\ session'[x] = Saved(ms[n])
  BY <1>0, <1>2, <1>3, ReleaseFacts
<1>5. ~Saver(Unused) /\ ~Busy(Unused) /\ Unused.load = "idle"
  BY UnusedFacts, DefaultFacts DEF Saver, Saves, Busy
<1>6. m # chat /\ model'[m] = ms[m] /\ ~Busy(ms[m]) /\ ms[m].load = "idle"
  BY <1>0, <1>2, <1>4 DEF Made, IntentObject, Busy
<1>7. \A n \in Models \ {m} : model'[n] = model[n] \/ model'[n] = Unused
  BY <1>2, <1>4
<1>8. OneAtATime(model', resend')
  BY <1>0, <1>1, <1>5, <1>6, <1>7 DEF OneAtATime
<1>9. Loads(model', chat)
  BY <1>0, <1>5, <1>6, <1>7 DEF Loads
\* Only the object LLaMa_obj gives up writes.
<1>10. ASSUME NEW x \in Chats, NEW n \in Models, ms[n].chat # NoChat, ~Held(ms, chat, n), n # m,
              Saves(ms[n]), ms[n].params.path = x, session'[x] = Saved(ms[n])
       PROVE  /\ n = retained /\ ms[n] = model[n] /\ Saver(model[n]) /\ model'[n] = Unused
              /\ AfterRetained[x] = Saved(model[n])
  <2>1. ms[n] = model[n] /\ Saver(model[n]) /\ model[n].intent = 0 /\ model'[n] = Unused
    BY <1>2, <1>4, <1>10 DEF Held, Saver
  <2>2. n = retained
    BY <1>0, <2>1 DEF SaversHeld
  <2>3. ~Held(model, chat, retained)
    BY <1>10, <2>1, <2>2 DEF Held
  <2> QED
    BY <1>0, <1>10, <2>1, <2>2, <2>3, AfterRetainedFacts
<1>11. ASSUME NEW n \in Models, Saver(model'[n]), n # m
       PROVE  /\ model'[n] = model[n] /\ Saver(model[n]) /\ model[n].intent # 0
              /\ model[n].params.path \in Chats /\ model[n].params.path # c
              /\ n # chat /\ model[n].turn = 0
              /\ Agrees(model[n], session'[model[n].params.path])
  <2>1. model'[n] = model[n] /\ Saver(model[n]) /\ ms[n] = model[n]
    BY <1>2, <1>5, <1>7, <1>11
  <2>2. model[n] \in OwnRecord /\ model[n] \in ModelRecord
    BY <1>0 DEF Made, OwnRecord
  <2>3. /\ model[n].params.path \in Chats /\ model[n].params.path = model[n].chat
        /\ model[n].chat # NoChat
    BY <1>0, <2>1, <2>2, SaveStateFacts DEF OwnRecord, Saver, Saves
  <2>4. n # chat /\ model[n].turn = 0 /\ model[n].load = "idle"
    BY <1>0, <2>1 DEF SaversAgree, Saver
  <2>5. model[n].intent # 0
    <3>1. ASSUME model[n].intent = 0
          PROVE  FALSE
      <4>1. ~Held(ms, chat, n)
        BY <2>1, <2>4, <3>1 DEF Held
      <4> QED
        BY <1>4, <1>5, <1>11, <2>1, <2>3, <4>1
    <3> QED
      BY <3>1
  <2>6. model[n].chat # c
    BY <1>1, <2>5 DEF AskedByIntent
  <2>7. session'[model[n].params.path] = session[model[n].params.path]
    <3>1. ASSUME NEW l \in Models, ms[l].chat # NoChat, ~Held(ms, chat, l), l # m, Saves(ms[l]),
                 ms[l].params.path = model[n].params.path,
                 session'[model[n].params.path] = Saved(ms[l])
          PROVE  FALSE
      <4>1. ms[l] = model[l] /\ Saver(model[l]) /\ model'[l] = Unused
        BY <1>10, <2>3, <3>1
      <4>2. l # n
        BY <1>5, <1>11, <4>1
      <4> QED
        BY <1>0, <2>1, <3>1, <4>1, <4>2 DEF SaversAgree
    <3> QED
      BY <1>4, <2>3, <3>1
  <2> QED
    BY <1>0, <2>1, <2>3, <2>4, <2>5, <2>6, <2>7 DEF SaversAgree
<1>12. ASSUME Saver(model'[m])
       PROVE  model'[m].params.path = c /\ Agrees(model'[m], session'[c])
  <2>1. /\ ms[m].params.path = c /\ ms[m].params.save /\ ms[m].small = FALSE
        /\ model'[m] = ms[m]
    <3>1. config[c].small \in BOOLEAN /\ ~config[c].small
      BY <1>0 DEF TypeOK, Configuration, Counted
    <3> QED
      BY <1>2, <1>6, <1>12, <3>1 DEF IntentObject, Saver, Saves
  <2>2. AfterRetained \in [Chats -> Sessions]
    BY <1>0, AfterRetainedFacts
  <2>3. AfterRetained[c].exists => ms[m].nPast = AfterRetained[c].nPast /\ ms[m].cache = AfterRetained[c].cache
    <3>1. CountedPast(AfterRetained[c].nPast, AfterRetained[c].cache)
      BY <1>0, AfterRetainedCounted DEF CountedSessions, Counted
    <3>2. Cardinality(AfterRetained[c].cache) <= Room[FALSE]
      BY <3>1 DEF CountedPast, Full
    <3> QED
      BY <1>2, <2>1, <3>2 DEF IntentObject
  <2>4. CASE session'[c] = session[c]
    <3>1. CASE AfterRetained[c] = session[c]
      BY <2>1, <2>3, <2>4, <3>1 DEF Agrees
    <3>2. CASE AfterRetained[c] # session[c]
      <4>1. /\ retained \in Models /\ ~Held(model, chat, retained) /\ Saves(model[retained])
            /\ model[retained].params.path = c /\ AfterRetained[c] = Saved(model[retained])
        BY <1>0, <3>2, AfterRetainedFacts
      <4>2. Saver(model[retained]) /\ model[retained] \in ModelRecord
        BY <1>0, <4>1 DEF Held, Saver, TypeOK
      <4>3. Agrees(model[retained], session[c])
        BY <1>0, <4>1, <4>2 DEF SaversAgree
      <4>4. /\ AfterRetained[c].exists = TRUE /\ AfterRetained[c].nPast = model[retained].nPast
            /\ AfterRetained[c].cache = model[retained].cache
        BY <4>1, <4>2, SavedFacts
      <4> QED
        BY <2>1, <2>3, <2>4, <4>3, <4>4 DEF Agrees
    <3> QED
      BY <3>1, <3>2
  <2>5. CASE session'[c] # session[c]
    <3>1. PICK n \in Models : /\ ms[n].chat # NoChat /\ ~Held(ms, chat, n) /\ n # m /\ Saves(ms[n])
                              /\ ms[n].params.path = c /\ session'[c] = Saved(ms[n])
      BY <1>4, <2>5
    <3>2. AfterRetained[c] = session'[c] /\ ms[n] \in ModelRecord
      BY <1>3, <1>10, <3>1
    <3>3. session'[c].exists = TRUE
      BY <3>1, <3>2, SavedFacts
    <3> QED
      BY <2>1, <2>3, <3>2, <3>3 DEF Agrees
  <2> QED
    BY <2>1, <2>4, <2>5
<1>13. SaversAgree(model', chat, session')
  <2>1. ASSUME NEW n \in Models, Saver(model'[n])
        PROVE  /\ n # chat /\ model'[n].turn = 0 /\ Agrees(model'[n], session'[model'[n].params.path])
    BY <1>6, <1>11, <1>12, <2>1 DEF Busy
  <2>2. ASSUME NEW n \in Models, NEW l \in Models, n # l, Saver(model'[n]), Saver(model'[l])
        PROVE  model'[n].params.path # model'[l].params.path
    <3>1. CASE n = m
      BY <1>11, <1>12, <2>2, <3>1
    <3>2. CASE l = m
      BY <1>11, <1>12, <2>2, <3>2
    <3>3. CASE n # m /\ l # m
      BY <1>0, <1>11, <2>2, <3>3 DEF SaversAgree
    <3> QED
      BY <3>1, <3>2, <3>3
  <2> QED
    BY <2>1, <2>2 DEF SaversAgree
<1>14. SaversHeld(model', m)
  BY <1>11 DEF SaversHeld
<1>15. Quiet'
  BY <1>4, <1>8, <1>9, <1>13, <1>14 DEF Quiet
<1>16. ASSUME NEW x \in Chats, session[x].exists
       PROVE  session[x].cache \subseteq session'[x].cache
  <2>1. CASE session'[x] = session[x]
    BY <2>1
  <2>2. CASE session'[x] # session[x]
    <3>1. PICK n \in Models : /\ ms[n].chat # NoChat /\ ~Held(ms, chat, n) /\ n # m /\ Saves(ms[n])
                              /\ ms[n].params.path = x /\ session'[x] = Saved(ms[n])
      BY <1>4, <2>2
    <3>2. Saver(model[n]) /\ ms[n] = model[n] /\ ms[n] \in ModelRecord
      BY <1>3, <1>10, <3>1
    <3>3. session'[x].cache = model[n].cache
      BY <3>1, <3>2, SavedFacts
    <3>4. Agrees(model[n], session[x])
      BY <1>0, <3>1, <3>2 DEF SaversAgree
    <3> QED
      BY <1>16, <3>3, <3>4 DEF Agrees
  <2> QED
    BY <2>1, <2>2
<1> QED
  BY <1>15, <1>16 DEF Keeps

\* An answer adds its exchange to what its object has read and to the file it read it from.
LEMMA AnswerQuiet ==
  ASSUME Typed, Counted, Quiet, NEW m \in Models, IntentAnswer(m)
  PROVE  Quiet' /\ Keeps
<1>0. /\ TypeOK /\ Made /\ session \in [Chats -> Sessions] /\ NoModel \notin Models
      /\ retained \in Models \cup {NoModel} /\ chat \in Models \cup {NoModel}
      /\ OneAtATime(model, resend) /\ Loads(model, chat)
      /\ SaversAgree(model, chat, session) /\ SaversHeld(model, retained)
  BY DEF Typed, TypeOK, Quiet
<1>1. PICK ms \in [Models -> OwnRecord] :
         /\ \A n \in Models \ {m} : ms[n] = model[n]
         /\ AnsweredFrom(ms[m], model[m])
         /\ Release(ms, chat, SaveState(session, ms[m]), retained)
  BY <1>0, AnswerCases
<1> DEFINE s == SaveState(session, ms[m])
<1>2. /\ resend' = resend /\ model[m].intent # 0 /\ model[m] \in OwnRecord
      /\ ms[m] \in OwnRecord /\ ms[m] \in ModelRecord
  BY <1>0 DEF IntentAnswer, Made, OwnRecord
<1>3. model[m].load = "idle" /\ model[m].context
  BY <1>2 DEF OwnRecord
<1>4. /\ ms[m].params = model[m].params /\ ms[m].context = model[m].context
      /\ ms[m].load = "idle" /\ ms[m].turn = model[m].turn
  BY <1>1, <1>3 DEF AnsweredFrom, ReadBy
<1>5. s \in [Chats -> Sessions] /\ \A x \in Chats : s[x] = IF Saves(ms[m]) /\ ms[m].params.path = x
                                                          THEN Saved(ms[m]) ELSE session[x]
  BY <1>0, <1>2, SaveStateFacts
<1> HIDE DEF s
<1>6. Saver(ms[m]) <=> Saver(model[m])
  BY <1>3, <1>4 DEF Saver, Saves
<1>7. Saves(ms[m]) => Saver(ms[m]) /\ ms[m].params.path \in Chats
  BY <1>0, <1>2, <1>4, SaveStateFacts DEF Saver
<1>8. OneAtATime(ms, resend')
  <2>1. \A n \in Models : (Busy(ms[n]) <=> Busy(model[n])) /\ ms[n].turn = model[n].turn
                             /\ ms[n].load = model[n].load
    BY <1>1, <1>3, <1>4 DEF Busy
  <2> QED
    BY <1>0, <1>2, <2>1 DEF OneAtATime
<1>9. Loads(ms, chat)
  BY <1>0, <1>1, <1>4 DEF Loads
<1>10. SaversAgree(ms, chat, s)
  <2>1. ASSUME NEW n \in Models, Saver(ms[n])
        PROVE  n # chat /\ ms[n].turn = 0 /\ Agrees(ms[n], s[ms[n].params.path])
    <3>1. CASE n = m
      <4>1. n # chat /\ ms[n].turn = 0
        BY <1>0, <1>4, <1>6, <2>1, <3>1 DEF SaversAgree
      <4>2. s[ms[m].params.path] = Saved(ms[m])
        BY <1>5, <1>7, <2>1, <3>1 DEF Saver
      <4> QED
        BY <1>2, <3>1, <4>1, <4>2, SavedFacts DEF Agrees
    <3>2. CASE n # m
      <4>1. ms[n] = model[n] /\ Saver(model[n]) /\ ms[n].params.path \in Chats
        BY <1>0, <1>1, <2>1, <3>2, SaveStateFacts DEF Saver, TypeOK
      <4>2. s[ms[n].params.path] = session[ms[n].params.path]
        <5>1. Saves(ms[m]) => ms[m].params.path # ms[n].params.path
          BY <1>0, <1>4, <1>6, <1>7, <3>2, <4>1 DEF SaversAgree
        <5> QED
          BY <1>5, <4>1, <5>1
      <4> QED
        BY <1>0, <4>1, <4>2 DEF SaversAgree
    <3> QED
      BY <3>1, <3>2
  <2>2. \A n \in Models : /\ Saver(ms[n]) <=> Saver(model[n])
                          /\ ms[n].params.path = model[n].params.path
    BY <1>1, <1>4, <1>6
  <2>3. \A n, l \in Models : n # l /\ Saver(ms[n]) /\ Saver(ms[l]) => ms[n].params.path # ms[l].params.path
    BY <1>0, <2>2 DEF SaversAgree
  <2> QED
    BY <2>1, <2>3 DEF SaversAgree
<1>11. /\ Quiet'
       /\ \A x \in Chats : session'[x] = s[x] \/ (s[x].exists => session'[x].cache = s[x].cache)
  BY <1>0, <1>1, <1>5, <1>8, <1>9, <1>10, ReleaseQuiet DEF s
<1>12. ASSUME NEW x \in Chats, session[x].exists, session[x].nPast < Room[FALSE], session'[x].exists
       PROVE  session[x].cache \subseteq session'[x].cache
  <2>1. CASE Saves(ms[m]) /\ ms[m].params.path = x
    <3>1. s[x] = Saved(ms[m])
      BY <1>5, <2>1
    <3>0. s[x].exists = TRUE /\ s[x].cache = ms[m].cache
      BY <1>2, <3>1, SavedFacts
    <3>2. session'[x].cache = ms[m].cache
      BY <1>11, <3>0
    <3>3. Saver(model[m]) /\ model[m].params.path = x
      BY <1>4, <1>6, <1>7, <2>1
    <3>4. model[m].nPast = session[x].nPast /\ model[m].cache = session[x].cache
      BY <1>0, <1>12, <3>3 DEF SaversAgree, Agrees
    <3>5. model[m].small = FALSE
      BY <1>2 DEF Counted, CountedObjects, CountedIn, OwnRecord, ModelRecord
    <3> QED
      BY <1>1, <1>12, <3>2, <3>4, <3>5 DEF AnsweredFrom, ReadBy
  <2>2. CASE ~(Saves(ms[m]) /\ ms[m].params.path = x)
    <3>1. s[x] = session[x]
      BY <1>5, <2>2
    <3> QED
      BY <1>11, <1>12, <3>1
  <2> QED
    BY <2>1, <2>2
<1> QED
  BY <1>11, <1>12 DEF Keeps

\* Clear removes the file of the chat on the screen; nothing else is written.
LEMMA ClearQuiet ==
  ASSUME Typed, Quiet, ClearChat
  PROVE  Quiet' /\ Keeps
<1>0. /\ TypeOK /\ Made /\ session \in [Chats -> Sessions] /\ NoModel \notin Models
      /\ retained \in Models \cup {NoModel} /\ chatName \in Chats
      /\ OneAtATime(model, resend) /\ Loads(model, chat)
      /\ SaversAgree(model, chat, session) /\ SaversHeld(model, retained)
  BY DEF Typed, TypeOK, Quiet
<1> DEFINE ms == IF chat = NoModel THEN model ELSE [model EXCEPT ![chat].params.save = FALSE]
           s == [session EXCEPT ![chatName] = NoSession]
<1>1. /\ ms \in [Models -> OwnRecord]
      /\ \A n \in Models : /\ Same(ms[n], model[n]) /\ ms[n].load = model[n].load
                           /\ IF n = chat THEN ~ms[n].params.save
                              ELSE ms[n].params = model[n].params
  BY <1>0, ClearedFacts
<1>2. Release(ms, NoModel, s, retained) /\ resend' = resend
  BY DEF ClearChat
<1>3. /\ s \in [Chats -> Sessions] /\ s[chatName].exists = FALSE
      /\ \A x \in Chats \ {chatName} : s[x] = session[x]
  BY <1>0, NoSessionFacts
<1> HIDE DEF ms, s
<1>4. OneAtATime(ms, resend')
  <2>1. \A n \in Models : (Busy(ms[n]) <=> Busy(model[n])) /\ ms[n].turn = model[n].turn
                             /\ ms[n].load = model[n].load
    BY <1>1 DEF Same, Busy
  <2> QED
    BY <1>0, <1>2, <2>1 DEF OneAtATime
<1>5. Loads(ms, NoModel)
  BY <1>0, <1>1 DEF Loads, Same
<1>6. \A n \in Models : Saver(ms[n]) => /\ Saver(model[n]) /\ ms[n].params = model[n].params
                                        /\ ms[n].turn = model[n].turn /\ ms[n].intent = model[n].intent
                                        /\ ms[n].nPast = model[n].nPast /\ ms[n].cache = model[n].cache
  BY <1>1 DEF Same, Saver, Saves
<1>7. SaversAgree(ms, NoModel, s)
  <2>1. ASSUME NEW n \in Models, Saver(ms[n])
        PROVE  n # NoModel /\ ms[n].turn = 0 /\ Agrees(ms[n], s[ms[n].params.path])
    <3>1. ms[n].params.path \in Chats
      BY <1>0, <1>1, <2>1, SaveStateFacts DEF OwnRecord, Saver
    <3> QED
      BY <1>0, <1>3, <1>6, <2>1, <3>1 DEF SaversAgree, Agrees
  <2> QED
    BY <1>0, <1>6, <2>1 DEF SaversAgree
<1>8. /\ Quiet'
      /\ \A x \in Chats : \/ session'[x] = s[x]
                          \/ \E n \in Models : Saver(ms[n]) /\ ms[n].intent = 0 /\ n # retained
  BY <1>0, <1>1, <1>2, <1>3, <1>4, <1>5, <1>7, ReleaseQuiet
<1>9. ~ \E n \in Models : Saver(ms[n]) /\ ms[n].intent = 0 /\ n # retained
  BY <1>0, <1>6 DEF SaversHeld
<1>10. Keeps
  BY <1>3, <1>8, <1>9 DEF Keeps
<1> QED
  BY <1>8, <1>10

\* Every step keeps the savers in agreement with their files, and so the sessions.
LEMMA QuietStep ==
  ASSUME Typed, Calm, Counted, Quiet, [Next]_vars
  PROVE  Quiet' /\ Keeps
<1> USE DEF files, screen, ghosts
<1>0. /\ TypeOK /\ Made /\ session \in [Chats -> Sessions] /\ NoModel \notin Models
      /\ retained \in Models \cup {NoModel} /\ chat \in Models \cup {NoModel}
      /\ OneAtATime(model, resend) /\ Loads(model, chat)
      /\ SaversAgree(model, chat, session) /\ SaversHeld(model, retained)
      /\ resend \in SUBSET Exchanges /\ "overlap" \notin setup.may /\ "clip" \notin setup.may
  BY DEF Typed, TypeOK, Quiet, Calm
<1>1. CASE UserSend
  <2>1. Send(NextExchange) /\ NextExchange \in Exchanges
    BY <1>0, <1>1, AskTyped DEF UserSend, TypeOK
  <2>2. (\A m \in Models : ~Busy(model[m])) /\ resend' = {}
    BY <1>0, <1>1 DEF UserSend, Busy, Loading
  <2> QED
    BY <2>1, <2>2, SendQuiet
<1>2. ASSUME NEW e \in Exchanges, SendAgain(e)
      PROVE  Quiet' /\ Keeps
  <2>1. Send(e) /\ e \in resend /\ resend' = resend \ {e}
    BY <1>2 DEF SendAgain
  <2>2. (\A m \in Models : ~Busy(model[m])) /\ resend' = {}
    BY <1>0, <2>1 DEF OneAtATime
  <2> QED
    BY <2>1, <2>2, SendQuiet
<1>3. ASSUME StopPredict \/ \E c \in Chats : SelectChat(c)
      PROVE  Quiet' /\ Keeps
  <2>1. session' = SavedByScreen /\ UNCHANGED <<model, chat, retained, resend>> /\ ~Loading
    BY <1>0, <1>3 DEF StopPredict, SelectChat
  <2>2. chat # NoModel => model[chat].load = "idle"
    BY <1>0, <2>1 DEF Loading
  <2>3. session' = session
    BY <1>0, <2>1, <2>2, ScreenQuiet
  <2> QED
    BY <2>1, <2>3 DEF Quiet, Keeps
<1>4. CASE ClearChat
  BY <1>4, ClearQuiet
<1>5. ASSUME \/ \E save, small \in BOOLEAN : EditSettings(save, small)
             \/ RefreshChatList
             \/ \E c \in Chats : DeleteChat(c)
      PROVE  Quiet' /\ Keeps
  <2>1. config' \in [Chats -> Configuration] /\ model' = UpdateChatParams(model, config')
    BY <1>0, <1>5, ConfigsTyped DEF EditSettings, RefreshChatList, DeleteChat
  <2>2. UNCHANGED <<session, chat, retained, resend>>
    BY <1>5 DEF EditSettings, RefreshChatList, DeleteChat
  <2>3. CASE chat # NoModel /\ config'[model[chat].chat].exists
    <3> DEFINE p == ConfigParams(model[chat].chat, config')
    <3>1. ParamsEffect(model', chat, p)
      BY <1>0, <2>1, <2>3, UpdateFacts
    <3>2. p.path = NoChat
      BY <1>0, <2>1, <2>3, ConfigFacts DEF Made
    <3> HIDE DEF p
    <3>3. \A n \in Models : Saver(model'[n]) => /\ n # chat /\ Saver(model[n])
                                                /\ model'[n].params = model[n].params
      BY <3>1, <3>2 DEF ParamsEffect, Same, Saver, Saves
    <3>4. \A n \in Models : (Busy(model'[n]) <=> Busy(model[n])) /\ model'[n].turn = model[n].turn
                               /\ model'[n].load = model[n].load /\ model'[n].intent = model[n].intent
                               /\ model'[n].nPast = model[n].nPast /\ model'[n].cache = model[n].cache
                               /\ model'[n].context = model[n].context
                               /\ (n # chat => model'[n].params = model[n].params)
      BY <3>1 DEF ParamsEffect, Same, Busy
    <3>5. OneAtATime(model', resend)
      BY <1>0, <3>4 DEF OneAtATime
    <3>6. Loads(model', chat)
      BY <1>0, <3>4 DEF Loads
    <3>7. SaversAgree(model', chat, session)
      BY <1>0, <3>3, <3>4 DEF SaversAgree, Agrees
    <3>8. SaversHeld(model', retained)
      BY <1>0, <3>3, <3>4 DEF SaversHeld
    <3> QED
      BY <2>2, <3>5, <3>6, <3>7, <3>8 DEF Quiet, Keeps
  <2>4. CASE ~(chat # NoModel /\ config'[model[chat].chat].exists)
    <3>1. model' = model
      BY <1>0, <2>1, <2>4, UpdateFacts
    <3> QED
      BY <2>2, <3>1 DEF Quiet, Keeps
  <2> QED
    BY <2>3, <2>4
<1>6. ASSUME NEW m \in Models, LoadContext(m) \/ LoadState(m)
      PROVE  Quiet' /\ Keeps
  <2>1. /\ \A n \in Models \ {m} : model'[n] = model[n]
        /\ model'[m].params = model[m].params /\ model'[m].turn = model[m].turn
        /\ model'[m].intent = model[m].intent
        /\ model[m].load # "idle" /\ model'[m].load # "idle"
        /\ \/ model'[m].load = "opened" /\ model'[m].context
           \/ model'[m].load = "restored" /\ model[m].load = "opened" /\ model'[m].context = model[m].context
    BY <1>0, <1>6, LoadingFacts DEF LoadState
  <2>2. UNCHANGED <<session, chat, retained, resend>>
    BY <1>6 DEF LoadContext, LoadState
  <2>3. OneAtATime(model', resend)
    <3>1. \A n \in Models : Busy(model'[n]) <=> Busy(model[n])
      BY <2>1 DEF Busy
    <3>2. \A n \in Models : model'[n].turn = model[n].turn /\ (model'[n].load = "idle" <=> model[n].load = "idle")
      BY <2>1
    <3> QED
      BY <1>0, <3>1, <3>2 DEF OneAtATime
  <2>4. Loads(model', chat)
    BY <1>0, <2>1 DEF Loads
  <2>5. \A n \in Models : Saver(model'[n]) => model'[n] = model[n]
    BY <2>1 DEF Saver
  <2>6. SaversAgree(model', chat, session) /\ SaversHeld(model', retained)
    BY <1>0, <2>5 DEF SaversAgree, SaversHeld
  <2> QED
    BY <2>2, <2>3, <2>4, <2>6 DEF Quiet, Keeps
<1>7. ASSUME NEW m \in Models, LoadDone(m)
      PROVE  Quiet' /\ Keeps
  <2>1. PICK ms \in [Models -> OwnRecord] :
         \/ /\ chat \in Models /\ model[chat].context
            /\ resend' = resend \cup {model[m].onLoad} /\ history' = history
            /\ Release(ms, chat, session, retained)
            /\ \A n \in Models : /\ Same(ms[n], model[n])
                                 /\ ms[n].load = IF n = m THEN "idle" ELSE model[n].load
                                 /\ ms[n].params = IF n = chat THEN DefaultParams ELSE model[n].params
         \/ /\ chat # NoModel => ~model[chat].context
            /\ IdleEffect(ms, m) /\ GiveUp(ms) /\ resend' = resend
    BY <1>0, <1>7, LoadDoneCases
  <2>2. model[m].load = "restored" /\ Busy(model[m])
    BY <1>7 DEF LoadDone, Busy
  <2>3. /\ resend = {} /\ model[m].turn = 0 /\ model[m].context
        /\ m # chat => ~model[m].params.save
        /\ \A n \in Models \ {m} : ~Busy(model[n])
    BY <1>0, <2>2 DEF OneAtATime, Loads
  <2>4. CASE /\ chat \in Models /\ resend' = resend \cup {model[m].onLoad}
             /\ Release(ms, chat, session, retained)
             /\ \A n \in Models : /\ Same(ms[n], model[n])
                                  /\ ms[n].load = IF n = m THEN "idle" ELSE model[n].load
                                  /\ ms[n].params = IF n = chat THEN DefaultParams ELSE model[n].params
    <3>1. \A n \in Models : ~Busy(ms[n]) /\ ms[n].load = "idle"
      BY <2>3, <2>4 DEF Same, Busy
    <3>2. OneAtATime(ms, resend') /\ Loads(ms, chat)
      BY <2>3, <2>4, <3>1 DEF OneAtATime, Loads
    <3>3. \A n \in Models : Saver(ms[n]) => /\ n # chat /\ n # m /\ Saver(model[n])
                                            /\ ms[n].params = model[n].params
                                            /\ ms[n].turn = model[n].turn
                                            /\ ms[n].nPast = model[n].nPast /\ ms[n].cache = model[n].cache
      BY <2>3, <2>4, DefaultFacts DEF Same, Saver, Saves
    <3>4. SaversAgree(ms, chat, session)
      BY <1>0, <3>3 DEF SaversAgree, Agrees
    <3> QED
      BY <1>0, <2>4, <3>2, <3>4, QuietRelease
  <2>5. CASE (chat # NoModel => ~model[chat].context) /\ IdleEffect(ms, m) /\ GiveUp(ms) /\ resend' = resend
    <3>1. ~Saves(model[m])
      BY <1>0, <2>3, <2>5 DEF Saves
    <3> QED
      BY <2>2, <2>5, <3>1, GiveUpQuiet
  <2> QED
    BY <2>1, <2>4, <2>5
<1>8. ASSUME NEW m \in Models, LoadFail(m)
      PROVE  Quiet' /\ Keeps
  <2> DEFINE ms == [model EXCEPT ![m].load = "idle"]
  <2>1. ms \in [Models -> OwnRecord] /\ IdleEffect(ms, m)
    BY <1>0, IdledFacts
  <2>2. GiveUp(ms) /\ resend' = resend /\ model[m].load = "opening"
    BY <1>0, <1>8 DEF LoadFail
  <2> HIDE DEF ms
  <2>3. ~model[m].context /\ ~Saves(model[m])
    BY <1>0, <2>2 DEF Loads, Saves
  <2>4. chat # NoModel => model[chat].load = "idle" \/ chat = m
    BY <1>0, <2>2 DEF OneAtATime, Busy
  <2> QED
    BY <2>1, <2>2, <2>3, <2>4, GiveUpQuiet
<1>9. ASSUME NEW m \in Models, FinishTurn(m)
      PROVE  Quiet' /\ Keeps
  <2>1. PICK ms \in [Models -> OwnRecord] :
            /\ \A n \in Models \ {m} : ms[n] = model[n]
            /\ EvaluatedFrom(ms[m], model[m])
            /\ Release(ms, chat, IF chat = NoModel THEN session ELSE SaveState(session, ms[chat]), retained)
    BY <1>0, <1>9, FinishTurnCases
  <2>2. model[m].turn # 0 /\ resend' = resend /\ Busy(model[m])
    BY <1>9 DEF FinishTurn, Busy
  <2>3. \A n \in Models : model[n].load = "idle" /\ (n # m => model[n].turn = 0)
    BY <1>0, <2>2 DEF OneAtATime, Busy
  <2>4. \A n \in Models : ms[n].params = model[n].params /\ ms[n].context = model[n].context
                             /\ ms[n].load = "idle" /\ ms[n].turn = 0
    BY <2>1, <2>3 DEF EvaluatedFrom, ReadBy
  <2>5. \A n \in Models : Saver(ms[n]) => Saver(model[n]) /\ n # m /\ n # chat
    BY <1>0, <2>2, <2>3, <2>4 DEF Saver, Saves, SaversAgree
  <2>6. Release(ms, chat, session, retained)
    <3>1. chat # NoModel => ~Saves(ms[chat])
      BY <1>0, <2>4, <2>5 DEF Saver
    <3>2. chat # NoModel => SaveState(session, ms[chat]) = session
      BY <3>1 DEF SaveState
    <3> QED
      BY <2>1, <3>2
  <2>7. OneAtATime(ms, resend') /\ Loads(ms, chat)
    BY <1>0, <2>2, <2>4 DEF OneAtATime, Loads, Busy
  <2>8. SaversAgree(ms, chat, session)
    BY <1>0, <2>1, <2>5 DEF SaversAgree
  <2> QED
    BY <1>0, <2>6, <2>7, <2>8, QuietRelease
<1>10. ASSUME NEW c \in Chats, NEW useHistory \in BOOLEAN, IntentBegin(c, useHistory)
       PROVE  Quiet' /\ Keeps
  BY <1>10, IntentQuiet
<1>11. ASSUME NEW m \in Models, LoadBegin(m)
       PROVE  Quiet' /\ Keeps
  <2>1. PICK ms \in [Models -> OwnRecord] :
           /\ \A n \in Models \ {m} : ms[n] = model[n]
           /\ Begun(ms[m], model[m])
           /\ Release(ms, chat, session, m)
    BY <1>0, <1>11, LoadBeginCases
  <2>2. resend' = resend
    BY <1>11 DEF LoadBegin
  <2>3. OneAtATime(ms, resend')
    <3>1. \A n \in Models : /\ Busy(ms[n]) <=> Busy(model[n])
                            /\ ms[n].turn = model[n].turn
                            /\ ms[n].load = "idle" <=> model[n].load = "idle"
      BY <2>1 DEF Begun, Busy
    <3> QED
      BY <1>0, <2>2, <3>1 DEF OneAtATime
  <2>4. Loads(ms, chat)
    BY <1>0, <2>1 DEF Loads, Begun
  <2>5. \A n \in Models : Saver(ms[n]) => ms[n] = model[n]
    BY <2>1 DEF Saver, Begun
  <2>6. SaversAgree(ms, chat, session)
    BY <1>0, <2>5 DEF SaversAgree
  <2> QED
    BY <1>0, <2>1, <2>3, <2>4, <2>6, QuietRelease
<1>12. ASSUME NEW m \in Models, IntentAnswer(m)
       PROVE  Quiet' /\ Keeps
  BY <1>12, AnswerQuiet
<1>13. CASE UNCHANGED vars
  BY <1>13 DEF vars, Quiet, Keeps
<1> QED
  BY <1>1, <1>2, <1>3, <1>4, <1>5, <1>6, <1>7, <1>8, <1>9, <1>10, <1>11, <1>12, <1>13 DEF Next

\* Nothing saves or loads at the start.
LEMMA QuietInit ==
  ASSUME Init
  PROVE  Quiet
<1>1. ~Saver(Unused) /\ ~Busy(Unused) /\ Unused.load = "idle"
  BY UnusedFacts, DefaultFacts DEF Saver, Saves, Busy
<1>2. (\A m \in Models : model[m] = Unused) /\ resend = {}
  BY DEF Init
<1> QED
  BY <1>1, <1>2 DEF Quiet, OneAtATime, Loads, SaversAgree, SaversHeld

\* A session file with room in the context is replaced only by one that knows the same
\* exchanges, when loads neither overlap nor fail late and intents keep to chats of their own:
\* the window writes no session (its models have lost the path before they could), an intent
\* adds to what it has read, and what LLaMa_obj keeps alive agrees with the file it rewrites
\* (LLaMa.save_state, retain_new_self_ptr, deinit, OneShortQuery).
THEOREM SessionKeepsDialogCorrect == Spec => SessionKeepsDialog
<1> DEFINE Inv == Typed /\ Numbered /\ InOnePlace /\ (Calm => Counted /\ Quiet)
<1>1. Init => Inv
  BY TypedInit, PlacedInit, CountedInit, QuietInit
<1>2. Inv /\ [Next]_vars => Inv' /\ (Calm => Keeps)
  <2> SUFFICES ASSUME Inv, [Next]_vars PROVE Inv' /\ (Calm => Keeps)
    OBVIOUS
  <2>1. setup' = setup
    BY SetupKept
  <2>2. Calm' <=> Calm
    BY <2>1 DEF Calm
  <2>3. Typed' /\ Numbered' /\ InOnePlace'
    BY TypedStep, PlacedStep
  <2>4. Calm => "context" \notin setup.may
    BY DEF Calm
  <2>5. Calm => Counted' /\ Quiet' /\ Keeps
    BY <2>4, CountedStep, QuietStep
  <2> QED
    BY <2>2, <2>3, <2>5
<1>3. (Calm => Keeps) => (setup.may \cap {"overlap", "clip", "context", "intents anywhere"} = {} =>
        \A c \in Chats :
            session[c].exists /\ session[c].nPast < Room[FALSE] /\ session'[c].exists =>
                session[c].cache \subseteq session'[c].cache)
  BY DEF Calm, Keeps
<1> QED
  BY <1>1, <1>2, <1>3, PTL DEF Spec, SessionKeepsDialog

=============================================================================
