------------------------- MODULE ChatSessionProofs -------------------------
(***************************************************************************)
(* Proofs about ChatSession for every number of chats, AI objects,         *)
(* questions and queued blocks, and for every kind of user.                *)
(***************************************************************************)
EXTENDS ChatSession, SequenceTheorems, TLAPS

USE ChatSessionAssumption DEF Requests, Turns

------------------------------------------------------------------------------
(* Types of the pieces *)

\* Stopping the last message leaves messages.
LEMMA StoppedLastType ==
  ASSUME NEW msgs \in Seq(Message), NEW isError \in BOOLEAN
  PROVE  StoppedLast(msgs, isError) \in Seq(Message)
<1>1. CASE msgs = << >>
  BY <1>1 DEF StoppedLast
<1>2. CASE msgs # << >>
  <2> DEFINE n == Len(msgs)
             s == IF isError THEN "error"
                  ELSE IF msgs[n].state \in {"predicting", "none"} THEN "predicted"
                  ELSE msgs[n].state
  <2>1. n \in 1..n /\ msgs[n] \in Message
    BY <1>2, EmptySeq, ElementOfSeq
  <2>2. [msgs[n] EXCEPT !.state = s] \in Message
    BY <2>1 DEF Message
  <2>3. StoppedLast(msgs, isError) = [msgs EXCEPT ![n] = [msgs[n] EXCEPT !.state = s]]
    BY <1>2 DEF StoppedLast
  <2> QED
    BY <2>1, <2>2, <2>3, ExceptSeq
<1> QED
  BY <1>1, <1>2

\* Replacing the last message leaves messages.
LEMMA UpdateType ==
  ASSUME messages \in Seq(Message), NEW m \in Message
  PROVE  update_last_message(m) \in Seq(Message)
<1>1. CASE messages = << >>
  BY <1>1 DEF update_last_message
<1>2. CASE messages # << >>
  <2>1. Len(messages) \in 1..Len(messages)
    BY <1>2, EmptySeq
  <2> QED
    BY <1>2, <2>1, ExceptSeq DEF update_last_message
<1> QED
  BY <1>1, <1>2

\* Reading a history file back gives messages.
LEMMA LoadedHistoryType ==
  ASSUME NEW file \in Seq(Message)
  PROVE  load_chat_history(file) \in Seq(Message)
<1> DEFINE e(i) == [file[i] EXCEPT !.state =
              IF @ = "predicted" /\ file[i].from \in {"reply", "error"} THEN @ ELSE "typed"]
<1>1. DOMAIN file = 1..Len(file) /\ Len(file) \in Nat
  BY LenProperties
<1>2. \A i \in 1..Len(file) : e(i) \in Message
  <2> TAKE i \in 1..Len(file)
  <2>1. file[i] \in Message
    BY ElementOfSeq
  <2> QED
    BY <2>1 DEF Message
<1>3. load_chat_history(file) = [i \in 1..Len(file) |-> e(i)]
  BY <1>1 DEF load_chat_history
<1> HIDE DEF e
<1>4. [i \in 1..Len(file) |-> e(i)] \in Seq(Message)
  BY <1>1, <1>2, IsASeq
<1> QED
  BY <1>3, <1>4

\* What the handlers append are messages.
LEMMA PieceTypes ==
  /\ \A r \in 0..MaxRequests : Question(r) \in Message /\ RagText(r) \in Message
  /\ \A t \in Turns, s \in {"none", "predicting", "predicted"} : Reply(t, s) \in Message
  /\ ErrorText \in Message
BY DEF Question, RagText, Reply, ErrorText, Message

\* stop_predict keeps the types of everything it assigns.
LEMMA StopType ==
  ASSUME TypeOK, NEW msgs \in Seq(Message), NEW isError \in BOOLEAN,
         stop_predict(msgs, isError)
  PROVE  /\ ai' \in [AIs -> AIRecord]
         /\ messages' \in Seq(Message)
         /\ predicting' = FALSE
         /\ history' \in [Chats -> Seq(Message)]
         /\ chat' \in AIs \cup {NoAI}
<1>1. messages' \in Seq(Message)
  BY StoppedLastType DEF stop_predict
<1>2. ai' \in [AIs -> AIRecord]
  BY DEF stop_predict, RaiseFlag, TypeOK, AIRecord
<1> QED
  BY <1>1, <1>2 DEF stop_predict, TypeOK

\* What Send makes of the transcript are messages.
LEMMA SentMessagesType ==
  ASSUME TypeOK, NEW r \in 0..MaxRequests, NEW append \in BOOLEAN,
         NEW asRag \in BOOLEAN, NEW begins \in BOOLEAN,
         begins => Len(turn) < MaxRequests
  PROVE  SentMessages(r, append, asRag, begins) \in Seq(Message)
<1> DEFINE a == IF append THEN <<Question(r)>> ELSE << >>
           b == IF begins /\ asRag THEN <<RagText(r)>> ELSE << >>
           c == IF begins THEN <<Reply(Len(turn) + 1, "none")>> ELSE << >>
<1>1. messages \in Seq(Message) /\ Len(turn) \in Nat
  BY LenProperties DEF TypeOK
<1>2. a \in Seq(Message)
  <2>1. Question(r) \in Message
    BY PieceTypes
  <2> QED BY <2>1
<1>3. b \in Seq(Message)
  <2>1. RagText(r) \in Message
    BY PieceTypes
  <2> QED BY <2>1
<1>4. c \in Seq(Message)
  <2>1. CASE begins
    <3>1. Len(turn) + 1 \in Turns
      BY <1>1, <2>1
    <3>2. Reply(Len(turn) + 1, "none") \in Message
      BY <3>1, PieceTypes
    <3> QED BY <2>1, <3>2
  <2> QED BY <2>1
<1>5. SentMessages(r, append, asRag, begins) = messages \o a \o b \o c
  BY DEF SentMessages
<1> HIDE DEF a, b, c
<1> QED
  BY <1>1, <1>2, <1>3, <1>4, <1>5, ConcatProperties

\* The chat object a Send works on is well typed, kept or new.
LEMMA ObjectsType ==
  ASSUME TypeOK, NEW c \in IF Kept # NoAI THEN {Kept} ELSE Free
  PROVE  /\ c \in AIs
         /\ Objects(c) \in [AIs -> AIRecord]
         /\ Objects(c)[c].chat = chatName
<1>1. c \in AIs
  BY DEF Kept, Free, TypeOK
<1>2. FreshAI \in AIRecord /\ FreshAI.chat = chatName
  BY DEF FreshAI, AIRecord, TypeOK
<1>3. CASE Kept # NoAI
  BY <1>1, <1>3 DEF Objects, Kept, TypeOK
<1>4. CASE Kept = NoAI
  BY <1>1, <1>2, <1>4 DEF Objects, TypeOK
<1> QED
  BY <1>1, <1>3, <1>4

\* Send leaves every variable it assigns in its type.
LEMMA SendType ==
  ASSUME TypeOK, NEW r \in 0..MaxRequests, NEW append \in BOOLEAN,
         NEW asRag \in BOOLEAN, NEW useRag \in BOOLEAN,
         Send(r, append, asRag, useRag)
  PROVE  /\ messages' \in Seq(Message)
         /\ state' \in {"none", "loading", "ragIndexLoading", "ragSearch", "completed"}
         /\ predicting' \in BOOLEAN
         /\ chat' \in AIs \cup {NoAI}
         /\ ai' \in [AIs -> AIRecord]
         /\ opening' \in [AIs -> Nat]
         /\ turn' \in Seq(TurnRecord)
         /\ Len(turn') <= MaxRequests
         /\ rag' \in [Requests -> {"none", "index", "search"}]
         /\ failed' \subseteq 0..MaxRequests
<1>1. CASE SendRefused(r) /\ messages' = SentMessages(r, append, asRag, FALSE)
  BY <1>1, SentMessagesType DEF SendRefused, TypeOK
<1>2. ASSUME NEW c \in IF Kept # NoAI THEN {Kept} ELSE Free,
             StartRag(r, c) \/ StartLoad(r, asRag, c),
             messages' = SentMessages(r, append, asRag, FALSE)
      PROVE  /\ messages' \in Seq(Message)
             /\ state' \in {"none", "loading", "ragIndexLoading", "ragSearch", "completed"}
             /\ predicting' \in BOOLEAN
             /\ chat' \in AIs \cup {NoAI}
             /\ ai' \in [AIs -> AIRecord]
             /\ opening' \in [AIs -> Nat]
             /\ turn' = turn
             /\ rag' \in [Requests -> {"none", "index", "search"}]
             /\ failed' = failed
  <2>1. c \in AIs /\ Objects(c) \in [AIs -> AIRecord]
    BY <1>2, ObjectsType
  <2>2. messages' \in Seq(Message)
    BY <1>2, SentMessagesType
  <2>3. CASE StartRag(r, c)
    BY <2>1, <2>2, <2>3 DEF StartRag, TypeOK
  <2>4. CASE StartLoad(r, asRag, c)
    <3>1. ai' \in [AIs -> AIRecord]
      BY <2>1, <2>4 DEF StartLoad, AIRecord
    <3>2. opening[c] + 1 \in Nat
      BY <2>1 DEF TypeOK
    <3>3. opening' \in [AIs -> Nat]
      BY <2>4, <3>2 DEF StartLoad, TypeOK
    <3> QED
      BY <2>1, <2>2, <2>4, <3>1, <3>3 DEF StartLoad, TypeOK
  <2> QED
    BY <1>2, <2>3, <2>4
<1>3. ASSUME NEW c \in IF Kept # NoAI THEN {Kept} ELSE Free,
             StartTurn(r, c),
             messages' = SentMessages(r, append, asRag, TRUE)
      PROVE  /\ messages' \in Seq(Message)
             /\ state' = "completed"
             /\ predicting' = TRUE
             /\ chat' \in AIs
             /\ ai' \in [AIs -> AIRecord]
             /\ opening' = opening
             /\ turn' \in Seq(TurnRecord)
             /\ Len(turn') <= MaxRequests
             /\ rag' = rag
             /\ failed' = failed
  <2>1. c \in AIs /\ Objects(c) \in [AIs -> AIRecord]
    BY <1>3, ObjectsType
  <2>2. messages' \in Seq(Message)
    BY <1>3, SentMessagesType DEF StartTurn
  <2>3. ai' \in [AIs -> AIRecord]
    <3> DEFINE o == Objects(c)
    <3>1. [o[c] EXCEPT !.flagExit = FALSE] \in AIRecord
      BY <2>1 DEF AIRecord
    <3>2. ai' = [o EXCEPT ![c] = [o[c] EXCEPT !.flagExit = FALSE]]
      BY <1>3 DEF StartTurn
    <3> HIDE DEF o
    <3> QED
      BY <2>1, <3>1, <3>2 DEF o
  <2>4. [ai |-> c, req |-> r, chat |-> chatName, pc |-> "run"] \in TurnRecord
    BY <2>1 DEF TurnRecord, TypeOK
  <2>5. turn' \in Seq(TurnRecord) /\ Len(turn') = Len(turn) + 1
    BY <1>3, <2>4, AppendProperties DEF StartTurn, TypeOK
  <2>6. Len(turn') <= MaxRequests
    BY <1>3, <2>5, LenProperties DEF StartTurn, TypeOK
  <2> QED
    BY <1>3, <2>1, <2>2, <2>3, <2>5, <2>6 DEF StartTurn
<1> QED
  BY <1>1, <1>2, <1>3 DEF Send, TypeOK

------------------------------------------------------------------------------
(* The main queue *)

\* Taking the head leaves every other block where it was, one place earlier.
LEMMA PopQueue ==
  ASSUME mainQ \in Seq(Block), mainQ # << >>
  PROVE  /\ Head(mainQ) \in Block
         /\ Head(mainQ) = mainQ[1]
         /\ Tail(mainQ) \in Seq(Block)
         /\ Len(Tail(mainQ)) = Len(mainQ) - 1
         /\ \A i \in 1..Len(Tail(mainQ)) : Tail(mainQ)[i] = mainQ[i + 1]
BY HeadTailProperties, EmptySeq

\* Posting a block leaves the queue as it was and puts the block behind it.
LEMMA PostQueue ==
  ASSUME NEW q \in Seq(Block), NEW b \in Block
  PROVE  /\ Append(q, b) \in Seq(Block)
         /\ Len(Append(q, b)) = Len(q) + 1
         /\ \A i \in 1..Len(q) : Append(q, b)[i] = q[i]
         /\ Append(q, b)[Len(q) + 1] = b
BY AppendProperties

\* What is posted to the main queue are blocks.
LEMMA BlockTypes ==
  /\ \A t \in Turns : [kind |-> "token", turn |-> t] \in Block
  /\ \A t \in Turns, e \in BOOLEAN :
       [kind |-> "finish", turn |-> t, error |-> e] \in Block
  /\ \A a \in AIs, ok \in BOOLEAN : [kind |-> "loaded", ai |-> a, ok |-> ok] \in Block
  /\ \A r \in 0..MaxRequests, asRag \in BOOLEAN :
       [kind |-> "send", req |-> r, rag |-> asRag] \in Block
  /\ [kind |-> "ragSearch"] \in Block
BY DEF Block

\* What a block of each kind carries.
LEMMA BlockFields ==
  ASSUME NEW b \in Block
  PROVE  /\ b.kind \in {"token", "finish"} => b.turn \in Turns
         /\ b.kind = "finish" => b.error \in BOOLEAN
         /\ b.kind = "loaded" => b.ai \in AIs /\ b.ok \in BOOLEAN
         /\ b.kind = "send" => b.req \in 0..MaxRequests /\ b.rag \in BOOLEAN
BY DEF Block

------------------------------------------------------------------------------
(* The type invariant *)

\* A token or a completion is shown in place, if at all.
LEMMA ShownType ==
  ASSUME TypeOK, NEW t \in Turns, NEW s \in {"predicting", "predicted"}
  PROVE  (IF Current THEN update_last_message(Reply(t, s)) ELSE messages) \in Seq(Message)
<1>1. Reply(t, s) \in Message
  BY PieceTypes
<1> QED
  BY <1>1, UpdateType DEF TypeOK

\* Moving a turn on keeps the turns and their number.
LEMMA SetPcType ==
  ASSUME TypeOK, NEW t \in DOMAIN turn, NEW pc \in {"run", "post", "exit", "threw", "done"},
         SetPc(t, pc)
  PROVE  /\ turn' \in Seq(TurnRecord) /\ Len(turn') = Len(turn)
         /\ t \in Turns /\ turn[t].ai \in AIs
<1>1. turn \in Seq(TurnRecord) /\ t \in 1..Len(turn)
  BY LenProperties DEF TypeOK
<1>2. turn[t] \in TurnRecord
  BY <1>1, ElementOfSeq
<1>3. [turn[t] EXCEPT !.pc = pc] \in TurnRecord
  BY <1>2 DEF TurnRecord
<1>4. turn' = [turn EXCEPT ![t] = [turn[t] EXCEPT !.pc = pc]]
  BY DEF SetPc
<1>5. turn' \in Seq(TurnRecord) /\ Len(turn') = Len(turn)
  BY <1>1, <1>3, <1>4, ExceptSeq
<1>6. t \in Turns
  BY <1>1, LenProperties DEF TypeOK
<1> QED
  BY <1>2, <1>5, <1>6 DEF TurnRecord

\* Clearing the exit flag of an AI keeps it well typed.
LEMMA FlagType ==
  ASSUME TypeOK, NEW a \in AIs
  PROVE  [ai EXCEPT ![a].flagExit = FALSE] \in [AIs -> AIRecord]
BY DEF TypeOK, AIRecord

\* The types hold at the start.
LEMMA TypeInit == Init => TypeOK
<1> SUFFICES ASSUME Init PROVE TypeOK
  OBVIOUS
<1>1. ai \in [AIs -> AIRecord]
  BY DEF Init, AIRecord
<1>2. messages \in Seq(Message) /\ turn \in Seq(TurnRecord) /\ mainQ \in Seq(Block)
      /\ Len(turn) = 0
  BY DEF Init
<1>3. history \in [Chats -> Seq(Message)]
  BY DEF Init
<1>4. /\ opening \in [AIs -> Nat] /\ opened \in [AIs -> Nat]
      /\ rag \in [Requests -> {"none", "index", "search"}]
      /\ nRequests \in 0..MaxRequests /\ 0 <= MaxRequests
  BY DEF Init
<1>5. failed \subseteq 0..MaxRequests /\ cleared \subseteq Turns
  BY DEF Init
<1>6. /\ chatName \in Chats /\ chat \in AIs \cup {NoAI} /\ predicting \in BOOLEAN
      /\ state \in {"none", "loading", "ragIndexLoading", "ragSearch", "completed"}
  BY DEF Init
<1> QED
  BY <1>1, <1>2, <1>3, <1>4, <1>5, <1>6 DEF TypeOK

\* The user's actions keep the types.
LEMMA TypeUser == TypeOK /\ User => TypeOK'
<1> SUFFICES ASSUME TypeOK, User PROVE TypeOK'
  OBVIOUS
<1> USE DEF uiVars, taskVars, ghosts
<1>1. CASE UserSend
  <2>1. PICK useRag \in {FALSE, UseRag} : Send(nRequests + 1, TRUE, FALSE, useRag)
    BY <1>1 DEF UserSend
  <2>2. nRequests + 1 \in 0..MaxRequests
    BY <1>1 DEF UserSend, TypeOK
  <2>b. useRag \in BOOLEAN
    BY DEF ChatSessionAssumption
  <2>3. nRequests' \in 0..MaxRequests /\ mainQ' = mainQ
    BY <1>1, <2>2 DEF UserSend
  <2>4. UNCHANGED <<chatName, history, opened, cleared>>
    BY <2>1 DEF Send
  <2> QED
    BY <2>1, <2>2, <2>b, <2>3, <2>4, SendType DEF TypeOK
<1>2. CASE UserStop
  BY <1>2, StopType DEF UserStop, TypeOK
<1>3. CASE CloseChat
  BY <1>3, StopType DEF CloseChat, TypeOK
<1>4. CASE ClearChat
  <2>a. DOMAIN turn \subseteq Turns
    <3>1. DOMAIN turn = 1..Len(turn) /\ Len(turn) \in Nat /\ Len(turn) <= MaxRequests
      BY LenProperties DEF TypeOK
    <3> QED
      BY <3>1
  <2>1. cleared' \subseteq Turns
    BY <1>4, <2>a DEF ClearChat, TypeOK
  <2>2. history' \in [Chats -> Seq(Message)] /\ messages' \in Seq(Message)
    BY <1>4 DEF ClearChat, TypeOK
  <2> QED
    BY <1>4, <2>1, <2>2 DEF ClearChat, TypeOK
<1>5. ASSUME NEW c \in Chats, SelectChat(c) PROVE TypeOK'
  <2>1. history' \in [Chats -> Seq(Message)]
    BY <1>5, StoppedLastType DEF SelectChat, TypeOK
  <2>2. messages' \in Seq(Message)
    BY <1>5, <2>1, LoadedHistoryType DEF SelectChat
  <2>3. ai' \in [AIs -> AIRecord]
    BY <1>5 DEF SelectChat, RaiseFlag, TypeOK, AIRecord
  <2> QED
    BY <1>5, <2>1, <2>2, <2>3 DEF SelectChat, TypeOK
<1> QED
  BY <1>1, <1>2, <1>3, <1>4, <1>5 DEF User

\* The handlers of the main queue keep the types.
LEMMA TypeMain == TypeOK /\ MainStep => TypeOK'
<1> SUFFICES ASSUME TypeOK, MainStep PROVE TypeOK'
  OBVIOUS
<1> USE DEF uiVars, taskVars, ghosts
<1> DEFINE b == Head(mainQ)
<1>0. mainQ \in Seq(Block) /\ mainQ # << >>
  BY DEF TypeOK, MainStep, HandleToken, HandleFinish, HandleLoaded, HandleSend,
         HandleRagSearch, HeadIs
<1>b. b \in Block /\ Tail(mainQ) \in Seq(Block)
  BY <1>0, PopQueue
<1>1. CASE HandleToken
  <2>1. b.turn \in Turns
    BY <1>1, <1>b, BlockFields DEF HandleToken, HeadIs
  <2>2. CASE stop_predict(messages, FALSE)
    BY <1>1, <1>b, <2>2, StopType DEF HandleToken, TypeOK
  <2>3. CASE /\ messages' = IF Current THEN update_last_message(Reply(b.turn, "predicting"))
                            ELSE messages
             /\ UNCHANGED <<ai, predicting, history, chat>>
    <3>1. messages' \in Seq(Message)
      BY <2>1, <2>3, ShownType
    <3> QED
      BY <1>1, <1>b, <2>3, <3>1 DEF HandleToken, TypeOK
  <2> QED
    BY <1>1, <2>2, <2>3 DEF HandleToken
<1>2. CASE HandleFinish
  <2> DEFINE shown == IF Current THEN update_last_message(Reply(b.turn, "predicted"))
                      ELSE messages
  <2>1. b.turn \in Turns
    BY <1>2, <1>b, BlockFields DEF HandleFinish, HeadIs
  <2>2. shown \in Seq(Message)
    BY <2>1, ShownType
  <2>3. messages' = IF b.error THEN Append(shown, ErrorText) ELSE shown
    BY <1>2 DEF HandleFinish
  <2> HIDE DEF shown
  <2>4. messages' \in Seq(Message)
    BY <2>2, <2>3, PieceTypes, AppendProperties
  <2> QED
    BY <1>2, <1>b, <2>4 DEF HandleFinish, TypeOK
<1>3. CASE HandleLoaded
  <2>1. b.ai \in AIs /\ ai[b.ai] \in AIRecord
    BY <1>3, <1>b, BlockFields DEF HandleLoaded, HeadIs, TypeOK
  <2>2. ai[b.ai].onLoad \in 0..MaxRequests /\ ai[b.ai].onLoadRag \in BOOLEAN
    BY <2>1 DEF AIRecord
  <2>3. CASE /\ mainQ' = Append(Tail(mainQ), [kind |-> "send", req |-> ai[b.ai].onLoad,
                                              rag |-> ai[b.ai].onLoadRag])
             /\ UNCHANGED <<ai, messages, predicting, history, chat, failed>>
    <3>1. mainQ' \in Seq(Block)
      BY <1>b, <2>2, <2>3, BlockTypes, PostQueue
    <3> QED
      BY <1>3, <2>3, <3>1 DEF HandleLoaded, TypeOK
  <2>4. CASE /\ stop_predict(Append(messages, ErrorText), TRUE)
             /\ failed' = failed \cup {ai[b.ai].onLoad}
             /\ mainQ' = Tail(mainQ)
    <3>1. Append(messages, ErrorText) \in Seq(Message)
      BY PieceTypes, AppendProperties DEF TypeOK
    <3> QED
      BY <1>3, <1>b, <2>2, <2>4, <3>1, StopType DEF HandleLoaded, TypeOK
  <2> QED
    BY <1>3, <2>3, <2>4 DEF HandleLoaded
<1>4. CASE HandleSend
  <2>1. b.req \in 0..MaxRequests /\ b.rag \in BOOLEAN
    BY <1>4, <1>b, BlockFields DEF HandleSend, HeadIs
  <2>2. Send(b.req, FALSE, b.rag, FALSE) /\ mainQ' = Tail(mainQ) /\ nRequests' = nRequests
    BY <1>4 DEF HandleSend
  <2>3. UNCHANGED <<chatName, history, opened, cleared>>
    BY <2>2 DEF Send
  <2> HIDE DEF b
  <2> QED
    BY <1>b, <2>1, <2>2, <2>3, SendType DEF TypeOK
<1>5. CASE HandleRagSearch
  BY <1>5, <1>b DEF HandleRagSearch, TypeOK
<1> QED
  BY <1>1, <1>2, <1>3, <1>4, <1>5 DEF MainStep

\* The steps of a load task keep the types.
LEMMA TypeLoad == ASSUME TypeOK, NEW a \in AIs, LoadStep(a) PROVE TypeOK'
<1> USE DEF uiVars, taskVars, ghosts
<1>1. CASE LoadContext(a)
  <2>1. ai' \in [AIs -> AIRecord]
    BY <1>1 DEF LoadContext, TypeOK, AIRecord
  <2>2. opening[a] - 1 \in Nat /\ opened[a] + 1 \in Nat
    BY <1>1 DEF LoadContext, TypeOK
  <2>3. opening' \in [AIs -> Nat] /\ opened' \in [AIs -> Nat]
    BY <1>1, <2>2 DEF LoadContext, TypeOK
  <2> QED
    BY <1>1, <2>1, <2>3 DEF LoadContext, TypeOK
<1>2. CASE LoadDone(a)
  <2>1. mainQ' \in Seq(Block)
    BY <1>2, BlockTypes, PostQueue DEF LoadDone, TypeOK
  <2> QED
    BY <1>2, <2>1 DEF LoadDone, TypeOK
<1>3. CASE LoadFail(a)
  <2>1. mainQ' \in Seq(Block)
    BY <1>3, BlockTypes, PostQueue DEF LoadFail, TypeOK
  <2>2. opening' \in [AIs -> Nat] /\ opened' \in [AIs -> Nat]
    <3>1. \A f \in [AIs -> Nat] : f[a] > 0 => [f EXCEPT ![a] = @ - 1] \in [AIs -> Nat]
      OBVIOUS
    <3> QED
      BY <1>3, <3>1 DEF LoadFail, TypeOK
  <2> QED
    BY <1>3, <2>1, <2>2 DEF LoadFail, TypeOK
<1> QED
  BY <1>1, <1>2, <1>3 DEF LoadStep

\* The steps of a prediction keep the types.
LEMMA TypePredict == ASSUME TypeOK, NEW t \in DOMAIN turn, PredictStep(t) PROVE TypeOK'
<1> USE DEF uiVars, taskVars, ghosts
<1>1. CASE PredictExit(t)
  BY <1>1, SetPcType, FlagType DEF PredictExit, TypeOK
<1>2. CASE PredictToken(t)
  BY <1>2, SetPcType DEF PredictToken, TypeOK
<1>3. CASE PredictPost(t)
  <2>1. mainQ' \in Seq(Block)
    BY <1>3, SetPcType, BlockTypes, PostQueue DEF PredictPost, TypeOK
  <2> QED
    BY <1>3, <2>1, SetPcType DEF PredictPost, TypeOK
<1>4. CASE PredictLimit(t)
  BY <1>4, SetPcType, FlagType DEF PredictLimit, TypeOK
<1>5. CASE PredictThrow(t)
  <2>1. mainQ' \in Seq(Block)
    BY <1>5, SetPcType, BlockTypes, PostQueue DEF PredictThrow, TypeOK
  <2> QED
    BY <1>5, <2>1, SetPcType DEF PredictThrow, TypeOK
<1>6. CASE PredictEnd(t)
  <2>1. mainQ' \in Seq(Block)
    BY <1>6, SetPcType, BlockTypes, PostQueue DEF PredictEnd, TypeOK
  <2> QED
    BY <1>6, <2>1, SetPcType DEF PredictEnd, TypeOK
<1> QED
  BY <1>1, <1>2, <1>3, <1>4, <1>5, <1>6 DEF PredictStep

\* The steps of a retrieval keep the types.
LEMMA TypeRag == ASSUME TypeOK, NEW r \in Requests, RagStep(r) PROVE TypeOK'
<1> USE DEF uiVars, taskVars, ghosts
<1>1. CASE RagIndexed(r)
  <2>1. mainQ' \in Seq(Block)
    BY <1>1, BlockTypes, PostQueue DEF RagIndexed, TypeOK
  <2> QED
    BY <1>1, <2>1 DEF RagIndexed, TypeOK
<1>2. CASE RagFound(r)
  <2>1. mainQ' \in Seq(Block)
    <3>1. [kind |-> "send", req |-> r, rag |-> TRUE] \in Block
      <4>1. r \in 0..MaxRequests
        OBVIOUS
      <4> QED
        BY <4>1, BlockTypes
    <3> QED
      BY <1>2, <3>1, PostQueue DEF RagFound, TypeOK
  <2> QED
    BY <1>2, <2>1 DEF RagFound, TypeOK
<1> QED
  BY <1>1, <1>2 DEF RagStep

\* Every step keeps the types.
LEMMA TypeStep == TypeOK /\ [Next]_vars => TypeOK'
<1>1. TypeOK /\ UNCHANGED vars => TypeOK'
  BY DEF TypeOK, vars, uiVars, taskVars, ghosts
<1> QED
  BY <1>1, TypeUser, TypeMain, TypeLoad, TypePredict, TypeRag DEF Next

\* Every handler of the app, in whatever order the queues run them, leaves values
\* of the right type; in particular no block names a turn that was never begun.
THEOREM TypeCorrect == Spec => []TypeOK
BY TypeInit, TypeStep, PTL DEF Spec

------------------------------------------------------------------------------
(* What is in flight *)

Has(q, kind) == \E i \in 1..Len(q) : q[i].kind = kind

\* Two ways to say that a block of a kind is in the queue.
LEMMA InQueueIsHas ==
  ASSUME TypeOK, NEW kind
  PROVE  InQueue(kind) # {} <=> Has(mainQ, kind)
<1>1. DOMAIN mainQ = 1..Len(mainQ)
  BY LenProperties DEF TypeOK
<1> QED
  BY <1>1 DEF InQueue, Has

\* The same one step later.
LEMMA InQueueIsHasNext ==
  ASSUME TypeOK', NEW kind
  PROVE  InQueue(kind)' # {} <=> Has(mainQ', kind)
<1>1. DOMAIN mainQ' = 1..Len(mainQ')
  BY LenProperties DEF TypeOK
<1> QED
  BY <1>1 DEF InQueue, Has

\* Handling a block takes no block of another kind out of the queue.
LEMMA PopKeeps ==
  ASSUME mainQ \in Seq(Block), mainQ # << >>,
         NEW kind, Head(mainQ).kind # kind, Has(mainQ, kind)
  PROVE  Has(Tail(mainQ), kind)
<1>1. PICK i \in 1..Len(mainQ) : mainQ[i].kind = kind
  BY DEF Has
<1>2. i # 1
  BY <1>1, PopQueue
<1>3. Len(mainQ) \in Nat
  BY LenProperties
<1>4. i - 1 \in 1..Len(Tail(mainQ)) /\ (i - 1) + 1 = i
  BY <1>2, <1>3, PopQueue
<1>5. Tail(mainQ)[i - 1] = mainQ[i]
  BY <1>4, PopQueue
<1> QED
  BY <1>1, <1>4, <1>5 DEF Has

\* A block that is posted takes none out.
LEMMA PostKeeps ==
  ASSUME NEW q \in Seq(Block), NEW b \in Block
  PROVE  /\ \A kind : Has(q, kind) => Has(Append(q, b), kind)
         /\ Has(Append(q, b), b.kind)
<1>1. Len(q) \in Nat
  BY LenProperties
<1> QED
  BY <1>1, PostQueue DEF Has

LoadInFlight == (\E a \in AIs : opening[a] + opened[a] > 0) \/ Has(mainQ, "loaded")

TurnInFlight == (\E t \in DOMAIN turn : Alive(t)) \/ Has(mainQ, "finish")

\* Outside the handlers of the main queue a block is only ever added to it.
LEMMA QueueGrows ==
  ASSUME TypeOK,
         \/ User
         \/ \E a \in AIs : LoadStep(a)
         \/ \E t \in DOMAIN turn : PredictStep(t)
         \/ \E r \in Requests : RagStep(r)
  PROVE  \A kind : Has(mainQ, kind) => Has(mainQ', kind)
<1> DEFINE Grows == mainQ' = mainQ \/ \E b \in Block : mainQ' = Append(mainQ, b)
<1>1. ASSUME User PROVE Grows
  BY <1>1 DEF User, UserSend, UserStop, CloseChat, ClearChat, SelectChat
<1>2. ASSUME NEW a \in AIs, LoadStep(a) PROVE Grows
  BY <1>2, BlockTypes DEF LoadStep, LoadContext, LoadDone, LoadFail
<1>3. ASSUME NEW t \in DOMAIN turn, PredictStep(t) PROVE Grows
  <2>1. t \in Turns
    <3>1. DOMAIN turn = 1..Len(turn) /\ Len(turn) \in Nat /\ Len(turn) <= MaxRequests
      BY LenProperties DEF TypeOK
    <3> QED
      BY <3>1
  <2> QED
    BY <1>3, <2>1, BlockTypes DEF PredictStep, PredictExit, PredictToken, PredictPost,
       PredictLimit, PredictThrow, PredictEnd
<1>4. ASSUME NEW r \in Requests, RagStep(r) PROVE Grows
  <2>1. r \in 0..MaxRequests
    OBVIOUS
  <2> QED
    BY <1>4, <2>1, BlockTypes DEF RagStep, RagIndexed, RagFound
<1>5. Grows
  BY <1>1, <1>2, <1>3, <1>4
<1>6. mainQ \in Seq(Block)
  BY DEF TypeOK
<1>7. ASSUME NEW b \in Block, mainQ' = Append(mainQ, b), NEW kind, Has(mainQ, kind)
      PROVE  Has(mainQ', kind)
  BY <1>6, <1>7, PostKeeps
<1> QED
  BY <1>5, <1>7 DEF Has

\* A handler of the main queue takes the head and nothing else out of it.
LEMMA MainKeeps ==
  ASSUME TypeOK, MainStep, NEW kind, Head(mainQ).kind # kind, Has(mainQ, kind)
  PROVE  Has(mainQ', kind)
<1>0. mainQ \in Seq(Block) /\ mainQ # << >>
  BY DEF TypeOK, MainStep, HandleToken, HandleFinish, HandleLoaded, HandleSend,
         HandleRagSearch, HeadIs
<1>1. Has(Tail(mainQ), kind) /\ Tail(mainQ) \in Seq(Block)
  BY <1>0, PopKeeps, PopQueue
<1>2. mainQ' = Tail(mainQ) \/ \E b \in Block : mainQ' = Append(Tail(mainQ), b)
  <2>1. CASE HandleLoaded
    <3>1. Head(mainQ).ai \in AIs
      BY <1>0, <2>1, PopQueue, BlockFields DEF HandleLoaded, HeadIs
    <3>2. ai[Head(mainQ).ai] \in AIRecord
      BY <3>1 DEF TypeOK
    <3>3. /\ ai[Head(mainQ).ai].onLoad \in 0..MaxRequests
          /\ ai[Head(mainQ).ai].onLoadRag \in BOOLEAN
      BY <3>2 DEF AIRecord
    <3> QED
      BY <2>1, <3>3, BlockTypes DEF HandleLoaded
  <2> QED
    BY <2>1 DEF MainStep, HandleToken, HandleFinish, HandleSend, HandleRagSearch
<1> QED
  BY <1>1, <1>2, PostKeeps

------------------------------------------------------------------------------
(* The progress bar *)

\* No step ends the last load task and its completion while the state says loading.
LEMMA LoadingStep ==
  ASSUME TypeOK, TypeOK', [Next]_vars,
         state = "loading" => LoadInFlight
  PROVE  state' = "loading" => LoadInFlight'
<1> USE DEF uiVars, taskVars, ghosts
<1> SUFFICES ASSUME state' = "loading" PROVE LoadInFlight'
  OBVIOUS
<1>s. ASSUME NEW r, NEW append, NEW asRag, NEW useRag, Send(r, append, asRag, useRag)
      PROVE  \/ \E a \in AIs : opening'[a] + opened'[a] > 0
             \/ state = "loading" /\ UNCHANGED <<opening, opened>>
  <2>1. ASSUME NEW c \in IF Kept # NoAI THEN {Kept} ELSE Free, StartLoad(r, asRag, c)
        PROVE  \E a \in AIs : opening'[a] + opened'[a] > 0
    <3>1. c \in AIs
      BY ObjectsType
    <3>2. opening'[c] = opening[c] + 1 /\ opened' = opened
      BY <1>s, <2>1, <3>1 DEF StartLoad, Send, TypeOK
    <3>3. opening[c] \in Nat /\ opened[c] \in Nat
      BY <3>1 DEF TypeOK
    <3> QED
      BY <3>1, <3>2, <3>3
  <2> QED
    BY <1>s, <2>1 DEF Send, SendRefused, StartRag, StartTurn
<1>1. CASE UNCHANGED vars
  BY <1>1 DEF vars, LoadInFlight, Has
<1>2. CASE User
  <2>1. \A kind : Has(mainQ, kind) => Has(mainQ', kind)
    BY <1>2, QueueGrows
  <2>2. CASE UserSend
    BY <1>s, <2>1, <2>2 DEF UserSend, LoadInFlight
  <2>3. CASE UserStop \/ CloseChat \/ ClearChat \/ \E c \in Chats : SelectChat(c)
    <3>1. UNCHANGED <<state, opening, opened>>
      BY <2>3 DEF UserStop, CloseChat, ClearChat, SelectChat
    <3> QED
      BY <2>1, <3>1 DEF LoadInFlight
  <2> QED
    BY <1>2, <2>2, <2>3 DEF User
<1>3. CASE MainStep
  <2>1. CASE HandleLoaded \/ HandleRagSearch
    BY <2>1 DEF HandleLoaded, HandleRagSearch
  <2>2. CASE HandleToken \/ HandleFinish \/ HandleSend
    <3>1. Has(mainQ, "loaded") => Has(mainQ', "loaded")
      BY <1>3, <2>2, MainKeeps DEF HandleToken, HandleFinish, HandleSend, HeadIs
    <3>2. CASE HandleSend
      BY <1>s, <3>1, <3>2 DEF HandleSend, LoadInFlight
    <3>3. CASE HandleToken \/ HandleFinish
      BY <3>1, <3>3 DEF HandleToken, HandleFinish, LoadInFlight
    <3> QED
      BY <2>2, <3>2, <3>3
  <2> QED
    BY <1>3, <2>1, <2>2 DEF MainStep
<1>4. ASSUME NEW a \in AIs, LoadStep(a) PROVE LoadInFlight'
  <2>1. opening[a] \in Nat /\ opened[a] \in Nat
    BY DEF TypeOK
  <2>2. CASE LoadContext(a)
    <3>1. opening'[a] + opened'[a] > 0
      BY <2>1, <2>2 DEF LoadContext, TypeOK
    <3> QED
      BY <3>1 DEF LoadInFlight
  <2>3. CASE LoadDone(a) \/ LoadFail(a)
    <3>1. PICK ok \in BOOLEAN :
            mainQ' = Append(mainQ, [kind |-> "loaded", ai |-> a, ok |-> ok])
      BY <2>3 DEF LoadDone, LoadFail
    <3>2. Has(mainQ', "loaded")
      BY <3>1, BlockTypes, PostKeeps DEF TypeOK
    <3> QED
      BY <3>2 DEF LoadInFlight
  <2> QED
    BY <1>4, <2>2, <2>3 DEF LoadStep
<1>5. ASSUME \/ \E t \in DOMAIN turn : PredictStep(t)
             \/ \E r \in Requests : RagStep(r)
      PROVE  LoadInFlight'
  <2>1. \A kind : Has(mainQ, kind) => Has(mainQ', kind)
    BY <1>5, QueueGrows
  <2>2. UNCHANGED <<state, opening, opened>>
    BY <1>5 DEF PredictStep, PredictExit, PredictToken, PredictPost, PredictLimit,
       PredictThrow, PredictEnd, RagStep, RagIndexed, RagFound
  <2> QED
    BY <2>1, <2>2 DEF LoadInFlight
<1> QED
  BY <1>1, <1>2, <1>3, <1>4, <1>5 DEF Next

\* The chat list is never locked for good: whenever the state is "loading" a load task
\* runs or its completion waits for the main thread, whatever the user did meanwhile.
THEOREM LoadingHasLoadCorrect == Spec => []LoadingHasLoad
<1> DEFINE IInv == TypeOK /\ (state = "loading" => LoadInFlight)
<1>1. Init => IInv
  BY TypeInit DEF Init
<1>2. IInv /\ [Next]_vars => IInv'
  BY TypeStep, LoadingStep
<1>3. IInv => LoadingHasLoad
  BY InQueueIsHas DEF LoadingHasLoad, LoadInFlight
<1> QED
  BY <1>1, <1>2, <1>3, PTL DEF Spec

------------------------------------------------------------------------------
(* The stop button *)

\* No step ends the last turn and its completion while the button says stop.
LEMMA PredictingStep ==
  ASSUME TypeOK, TypeOK', [Next]_vars, predicting => TurnInFlight
  PROVE  predicting' => TurnInFlight'
<1> USE DEF uiVars, taskVars, ghosts
<1> SUFFICES ASSUME predicting' PROVE TurnInFlight'
  OBVIOUS
<1>d. DOMAIN turn = 1..Len(turn) /\ Len(turn) \in Nat /\ turn \in Seq(TurnRecord)
  BY LenProperties DEF TypeOK
<1>s. ASSUME NEW r, NEW append, NEW asRag, NEW useRag, Send(r, append, asRag, useRag)
      PROVE  \/ \E t \in DOMAIN turn' : Alive(t)'
             \/ predicting /\ turn' = turn
  <2>1. ASSUME NEW c \in IF Kept # NoAI THEN {Kept} ELSE Free, StartTurn(r, c)
        PROVE  \E t \in DOMAIN turn' : Alive(t)'
    <3> DEFINE n == [ai |-> c, req |-> r, chat |-> chatName, pc |-> "run"]
    <3>1. turn' = Append(turn, n)
      BY <2>1 DEF StartTurn
    <3>2. DOMAIN turn' = 1..Len(turn) + 1 /\ turn'[Len(turn) + 1] = n
      BY <1>d, <3>1
    <3>3. Len(turn) + 1 \in DOMAIN turn' /\ turn'[Len(turn) + 1].pc = "run"
      BY <1>d, <3>2
    <3> QED
      BY <3>3 DEF Alive
  <2> QED
    BY <1>s, <2>1 DEF Send, SendRefused, StartRag, StartLoad
<1>1. CASE UNCHANGED vars
  BY <1>1 DEF vars, TurnInFlight, Has, Alive
<1>2. CASE User
  <2>1. \A kind : Has(mainQ, kind) => Has(mainQ', kind)
    BY <1>2, QueueGrows
  <2>2. CASE UserSend
    BY <1>s, <2>1, <2>2 DEF UserSend, TurnInFlight
  <2>3. CASE UserStop \/ CloseChat \/ \E c \in Chats : SelectChat(c)
    BY <2>3 DEF UserStop, CloseChat, SelectChat, stop_predict
  <2>4. CASE ClearChat
    BY <2>1, <2>4 DEF ClearChat, TurnInFlight, Alive
  <2> QED
    BY <1>2, <2>2, <2>3, <2>4 DEF User
<1>3. CASE MainStep
  <2>1. CASE HandleFinish
    BY <2>1 DEF HandleFinish
  <2>2. CASE HandleToken \/ HandleLoaded \/ HandleSend \/ HandleRagSearch
    <3>1. Has(mainQ, "finish") => Has(mainQ', "finish")
      BY <1>3, <2>2, MainKeeps DEF HandleToken, HandleLoaded, HandleSend, HandleRagSearch, HeadIs
    <3>2. CASE HandleSend
      BY <1>s, <3>1, <3>2 DEF HandleSend, TurnInFlight, Alive
    <3>3. CASE HandleToken \/ HandleLoaded \/ HandleRagSearch
      <4>1. predicting /\ turn' = turn
        BY <3>3 DEF HandleToken, HandleLoaded, HandleRagSearch, stop_predict
      <4> QED
        BY <3>1, <4>1 DEF TurnInFlight, Alive
    <3> QED
      BY <2>2, <3>2, <3>3
  <2> QED
    BY <1>3, <2>1, <2>2 DEF MainStep
<1>4. CASE (\E a \in AIs : LoadStep(a)) \/ (\E r \in Requests : RagStep(r))
  <2>1. \A kind : Has(mainQ, kind) => Has(mainQ', kind)
    BY <1>4, QueueGrows
  <2>2. UNCHANGED <<predicting, turn>>
    BY <1>4 DEF LoadStep, LoadContext, LoadDone, LoadFail, RagStep, RagIndexed, RagFound
  <2> QED
    BY <2>1, <2>2 DEF TurnInFlight, Alive
<1>5. ASSUME NEW t \in DOMAIN turn, PredictStep(t) PROVE TurnInFlight'
  <2>0. turn[t] \in TurnRecord
    BY <1>d, ElementOfSeq
  <2>1. ASSUME NEW pc, pc # "done", SetPc(t, pc) PROVE TurnInFlight'
    <3>1. t \in DOMAIN turn' /\ turn'[t].pc = pc
      BY <2>0, <2>1 DEF SetPc, TurnRecord
    <3> QED
      BY <2>1, <3>1 DEF TurnInFlight, Alive
  <2>2. CASE PredictEnd(t)
    <3>1. t \in Turns
      BY <1>d DEF TypeOK
    <3>2. Has(mainQ', "finish")
      BY <2>2, <3>1, BlockTypes, PostKeeps DEF PredictEnd, TypeOK
    <3> QED
      BY <3>2 DEF TurnInFlight
  <2>3. CASE PredictExit(t) \/ PredictToken(t) \/ PredictPost(t) \/ PredictLimit(t)
             \/ PredictThrow(t)
    BY <2>1, <2>3 DEF PredictExit, PredictToken, PredictPost, PredictLimit, PredictThrow
  <2> QED
    BY <1>5, <2>2, <2>3 DEF PredictStep
<1> QED
  BY <1>1, <1>2, <1>3, <1>4, <1>5 DEF Next

\* The button is never left on "stop": a turn is running or its completion is on its way,
\* however stops, switches of chat and late blocks of earlier turns are mixed.
THEOREM PredictingHasTurnCorrect == Spec => []PredictingHasTurn
<1> DEFINE IInv == TypeOK /\ (predicting => TurnInFlight)
<1>1. Init => IInv
  BY TypeInit DEF Init
<1>2. IInv /\ [Next]_vars => IInv'
  BY TypeStep, PredictingStep
<1>3. IInv => PredictingHasTurn
  BY InQueueIsHas DEF PredictingHasTurn, TurnInFlight
<1> QED
  BY <1>1, <1>2, <1>3, PTL DEF Spec

\* No step leaves the stop button on the AI of another chat.
LEMMA PredictingIsHereStep ==
  ASSUME TypeOK, [Next]_vars, PredictingIsHere
  PROVE  PredictingIsHere'
<1> USE DEF uiVars, taskVars, ghosts
<1> SUFFICES ASSUME predicting', chat' # NoAI PROVE ai'[chat'].chat = chatName'
  BY DEF PredictingIsHere
<1>s. ASSUME NEW r, NEW append, NEW asRag, NEW useRag, Send(r, append, asRag, useRag)
      PROVE  ai'[chat'].chat = chatName'
  <2>1. PICK c \in IF Kept # NoAI THEN {Kept} ELSE Free :
          StartRag(r, c) \/ StartLoad(r, asRag, c) \/ StartTurn(r, c)
    BY <1>s DEF Send, SendRefused
  <2>2. c \in AIs /\ Objects(c) \in [AIs -> AIRecord] /\ Objects(c)[c].chat = chatName
    BY ObjectsType
  <2>3. chat' = c /\ ai'[c].chat = Objects(c)[c].chat
    BY <2>1, <2>2 DEF StartRag, StartLoad, StartTurn, AIRecord
  <2> QED
    BY <1>s, <2>2, <2>3 DEF Send
<1>f. ASSUME NEW a \in AIs, NEW f \in BOOLEAN,
             ai' = [ai EXCEPT ![a].flagExit = f] \/ ai' = [ai EXCEPT ![a].context = f]
      PROVE  \A x \in AIs : ai'[x].chat = ai[x].chat
  <2>1. ai \in [AIs -> AIRecord]
    BY DEF TypeOK
  <2>2. CASE ai' = [ai EXCEPT ![a].flagExit = f]
    BY <2>1, <2>2 DEF AIRecord
  <2>3. CASE ai' = [ai EXCEPT ![a].context = f]
    BY <2>1, <2>3 DEF AIRecord
  <2> QED
    BY <1>f, <2>2, <2>3
<1>k. ASSUME predicting, chat' = chat, chatName' = chatName,
             \A x \in AIs : ai'[x].chat = ai[x].chat
      PROVE  ai'[chat'].chat = chatName'
  BY <1>k DEF PredictingIsHere, TypeOK
<1>1. CASE UNCHANGED vars
  BY <1>1, <1>k DEF vars
<1>2. CASE User
  <2>1. CASE UserSend
    BY <1>s, <2>1 DEF UserSend
  <2>2. CASE ~UserSend
    BY <1>2, <2>2 DEF User, UserStop, CloseChat, ClearChat, SelectChat, stop_predict
  <2> QED
    BY <2>1, <2>2
<1>3. CASE MainStep
  <2>1. CASE HandleSend
    BY <1>s, <2>1 DEF HandleSend
  <2>2. CASE HandleToken \/ HandleFinish \/ HandleLoaded \/ HandleRagSearch
    BY <1>k, <2>2 DEF HandleToken, HandleFinish, HandleLoaded, HandleRagSearch, stop_predict
  <2> QED
    BY <1>3, <2>1, <2>2 DEF MainStep
<1>4. ASSUME NEW a \in AIs, LoadStep(a) PROVE ai'[chat'].chat = chatName'
  BY <1>4, <1>f, <1>k DEF LoadStep, LoadContext, LoadDone, LoadFail
<1>5. ASSUME NEW t \in DOMAIN turn, PredictStep(t) PROVE ai'[chat'].chat = chatName'
  <2>1. turn[t].ai \in AIs
    <3>1. turn \in Seq(TurnRecord) /\ t \in 1..Len(turn)
      BY LenProperties DEF TypeOK
    <3>2. turn[t] \in TurnRecord
      BY <3>1, ElementOfSeq
    <3> QED
      BY <3>2 DEF TurnRecord
  <2> QED
    BY <1>5, <1>f, <1>k, <2>1 DEF PredictStep, PredictExit, PredictToken, PredictPost,
       PredictLimit, PredictThrow, PredictEnd
<1>6. ASSUME NEW r \in Requests, RagStep(r) PROVE ai'[chat'].chat = chatName'
  BY <1>6, <1>k DEF RagStep, RagIndexed, RagFound
<1> QED
  BY <1>1, <1>2, <1>3, <1>4, <1>5, <1>6 DEF Next

\* The AI the stop button would stop is always one of the chat on screen: a switch of
\* chat during a load, a retrieval or a turn never leaves the button on a hidden one.
THEOREM PredictingIsHereCorrect == Spec => []PredictingIsHere
<1>1. Init => TypeOK /\ PredictingIsHere
  BY TypeInit DEF Init, PredictingIsHere
<1>2. TypeOK /\ PredictingIsHere /\ [Next]_vars => (TypeOK /\ PredictingIsHere)'
  BY TypeStep, PredictingIsHereStep
<1> QED
  BY <1>1, <1>2, PTL DEF Spec

------------------------------------------------------------------------------
(* Turns, blocks and texts *)

\* The domain of the turns, and what a turn that was begun is.
LEMMA TurnFacts ==
  ASSUME TypeOK
  PROVE  /\ DOMAIN turn = 1..Len(turn) /\ Len(turn) \in Nat
         /\ \A t \in DOMAIN turn : turn[t] \in TurnRecord /\ t \in Turns
         /\ turn # << >> => Len(turn) \in DOMAIN turn
<1>1. turn \in Seq(TurnRecord) /\ Len(turn) <= MaxRequests
  BY DEF TypeOK
<1>2. DOMAIN turn = 1..Len(turn) /\ Len(turn) \in Nat
  BY <1>1, LenProperties
<1>3. \A t \in DOMAIN turn : turn[t] \in TurnRecord
  BY <1>1, <1>2, ElementOfSeq
<1>4. \A t \in DOMAIN turn : t \in Turns
  <2>1. Len(turn) <= MaxRequests
    BY <1>1
  <2>2. 1..Len(turn) \subseteq Turns
    BY <1>2, <2>1
  <2> QED
    BY <1>2, <2>2
<1>5. turn # << >> => Len(turn) \in DOMAIN turn
  BY <1>1, <1>2, EmptySeq
<1> QED
  BY <1>2, <1>3, <1>4, <1>5

\* The same for the blocks of the main queue.
LEMMA QueueFacts ==
  ASSUME TypeOK
  PROVE  /\ DOMAIN mainQ = 1..Len(mainQ) /\ Len(mainQ) \in Nat
         /\ \A i \in DOMAIN mainQ : mainQ[i] \in Block
         /\ mainQ # << >> => Len(mainQ) \in DOMAIN mainQ /\ 1 \in DOMAIN mainQ
<1>1. mainQ \in Seq(Block)
  BY DEF TypeOK
<1>2. DOMAIN mainQ = 1..Len(mainQ) /\ Len(mainQ) \in Nat
  BY <1>1, LenProperties
<1>3. \A i \in DOMAIN mainQ : mainQ[i] \in Block
  BY <1>1, <1>2, ElementOfSeq
<1>4. mainQ # << >> => Len(mainQ) > 0
  BY <1>1, <1>2, EmptySeq
<1> QED
  BY <1>2, <1>3, <1>4

\* What is left of the queue once its head is taken.
LEMMA PopFacts ==
  ASSUME TypeOK, mainQ # << >>, mainQ' = Tail(mainQ)
  PROVE  /\ Head(mainQ) = mainQ[1] /\ 1 \in DOMAIN mainQ /\ Len(mainQ) \in DOMAIN mainQ
         /\ mainQ' \in Seq(Block) /\ Len(mainQ') = Len(mainQ) - 1 /\ Len(mainQ') \in Nat
         /\ DOMAIN mainQ' = 1..Len(mainQ')
         /\ \A i \in DOMAIN mainQ' : i + 1 \in DOMAIN mainQ /\ mainQ'[i] = mainQ[i + 1]
         /\ mainQ' # << >> => Len(mainQ') \in DOMAIN mainQ' /\ mainQ'[Len(mainQ')] = mainQ[Len(mainQ)]
         /\ mainQ' = << >> => Len(mainQ) = 1
<1>1. /\ Head(mainQ) = mainQ[1]
      /\ mainQ' \in Seq(Block) /\ Len(mainQ') = Len(mainQ) - 1
      /\ \A i \in 1..Len(mainQ') : mainQ'[i] = mainQ[i + 1]
  BY PopQueue DEF TypeOK
<1>2. DOMAIN mainQ' = 1..Len(mainQ') /\ Len(mainQ') \in Nat
  BY <1>1, LenProperties
<1>3. mainQ' = << >> <=> Len(mainQ') = 0
  BY <1>1, <1>2, EmptySeq
<1>4. DOMAIN mainQ = 1..Len(mainQ) /\ Len(mainQ) \in Nat
  BY QueueFacts
<1>5. \A i \in DOMAIN mainQ' : i + 1 \in DOMAIN mainQ
  BY <1>1, <1>2, <1>4
<1>6. mainQ' # << >> => Len(mainQ') \in DOMAIN mainQ'
  BY <1>2, <1>3
<1>7. Len(mainQ') + 1 = Len(mainQ)
  BY <1>1, <1>4
<1>8. mainQ' # << >> => mainQ'[Len(mainQ')] = mainQ[Len(mainQ)]
  BY <1>1, <1>2, <1>6, <1>7
<1>9. mainQ' = << >> => Len(mainQ) = 1
  BY <1>3, <1>7, <1>4
<1> QED
  BY <1>1, <1>2, <1>5, <1>6, <1>8, <1>9, QueueFacts

\* What is in the queue after a block was posted was there before, or is that block.
LEMMA HasPosted ==
  ASSUME TypeOK, NEW b \in Block, mainQ' = Append(mainQ, b), NEW kind, b.kind # kind
  PROVE  Has(mainQ', kind) <=> Has(mainQ, kind)
<1>1. /\ Len(mainQ') = Len(mainQ) + 1
      /\ \A i \in 1..Len(mainQ) : mainQ'[i] = mainQ[i]
      /\ mainQ'[Len(mainQ) + 1] = b
  BY PostQueue DEF TypeOK
<1>2. \A i \in 1..Len(mainQ') : i \in 1..Len(mainQ) \/ i = Len(mainQ) + 1
  BY <1>1, QueueFacts
<1>3. 1..Len(mainQ) \subseteq 1..Len(mainQ')
  BY <1>1, QueueFacts
<1> QED
  BY <1>1, <1>2, <1>3 DEF Has

\* Taking the head brings nothing new into the queue.
LEMMA HasPopped ==
  ASSUME TypeOK, mainQ # << >>, mainQ' = Tail(mainQ), NEW kind, Has(mainQ', kind)
  PROVE  Has(mainQ, kind)
BY PopFacts, QueueFacts DEF Has

Running(m) == m.state \in {"none", "predicting"}

\* The same messages, however they are shown.
SameText(old, new) ==
    /\ Len(new) = Len(old)
    /\ \A i \in 1..Len(old) : SameMessage(old[i], new[i])

\* The domain of a text and its messages.
LEMMA MessageFacts ==
  ASSUME NEW msgs \in Seq(Message)
  PROVE  /\ DOMAIN msgs = 1..Len(msgs) /\ Len(msgs) \in Nat
         /\ \A i \in 1..Len(msgs) : msgs[i] \in Message
         /\ msgs # << >> <=> Len(msgs) # 0
         /\ msgs # << >> => Len(msgs) \in 1..Len(msgs)
<1>1. DOMAIN msgs = 1..Len(msgs) /\ Len(msgs) \in Nat
  BY LenProperties
<1>2. \A i \in 1..Len(msgs) : msgs[i] \in Message
  BY ElementOfSeq
<1>3. msgs # << >> <=> Len(msgs) # 0
  BY EmptySeq
<1>4. msgs # << >> => Len(msgs) \in 1..Len(msgs)
  BY <1>1, <1>3
<1> QED
  BY <1>1, <1>2, <1>3, <1>4

\* stop_predict closes the last message and touches no other.
LEMMA StoppedFacts ==
  ASSUME NEW msgs \in Seq(Message), NEW isError \in BOOLEAN
  PROVE  /\ SameText(msgs, StoppedLast(msgs, isError))
         /\ \A i \in 1..Len(msgs) : Running(StoppedLast(msgs, isError)[i]) => Running(msgs[i]) /\ i # Len(msgs)
<1>1. CASE msgs = << >>
  BY <1>1, MessageFacts DEF StoppedLast, SameText, SameMessage
<1>2. CASE msgs # << >>
  <2> DEFINE n == Len(msgs)
             s == IF isError THEN "error"
                  ELSE IF msgs[n].state \in {"predicting", "none"} THEN "predicted"
                  ELSE msgs[n].state
             new == StoppedLast(msgs, isError)
  <2>1. n \in 1..n /\ DOMAIN msgs = 1..n /\ msgs[n] \in Message
    BY <1>2, MessageFacts
  <2>2. new = [msgs EXCEPT ![n] = [msgs[n] EXCEPT !.state = s]]
    BY <1>2 DEF StoppedLast
  <2>3. new \in Seq(Message)
    BY StoppedLastType
  <2>4. Len(new) = n
    <3>1. DOMAIN new = 1..n
      BY <2>1, <2>2
    <3> HIDE DEF new, n
    <3> QED
      BY <2>3, <3>1, MessageFacts DEF n
  <2>5. new[n] = [msgs[n] EXCEPT !.state = s] /\ \A i \in 1..n \ {n} : new[i] = msgs[i]
    BY <2>1, <2>2
  <2>6. new[n].from = msgs[n].from /\ new[n].id = msgs[n].id /\ new[n].state = s
    BY <2>1, <2>5 DEF Message
  <2>7. ~Running(new[n])
    BY <2>6 DEF Running
  <2>8. SameText(msgs, new)
    BY <2>4, <2>5, <2>6 DEF SameText, SameMessage
  <2>9. \A i \in 1..n : Running(new[i]) => Running(msgs[i]) /\ i # n
    BY <2>5, <2>7
  <2> QED
    BY <2>8, <2>9
<1> QED
  BY <1>1, <1>2

\* A file keeps every message, none of them running.
LEMMA LoadedFacts ==
  ASSUME NEW file \in Seq(Message)
  PROVE  /\ SameText(file, load_chat_history(file))
         /\ \A i \in 1..Len(file) : ~Running(load_chat_history(file)[i])
<1> DEFINE new == load_chat_history(file)
           s(i) == IF file[i].state = "predicted" /\ file[i].from \in {"reply", "error"}
                   THEN file[i].state ELSE "typed"
<1>1. DOMAIN file = 1..Len(file) /\ Len(file) \in Nat
  BY MessageFacts
<1>2. DOMAIN new = 1..Len(file) /\ \A i \in 1..Len(file) : new[i] = [file[i] EXCEPT !.state = s(i)]
  BY <1>1 DEF load_chat_history
<1>3. new \in Seq(Message)
  BY LoadedHistoryType
<1> HIDE DEF new
<1>4. Len(new) = Len(file)
  BY <1>1, <1>2, <1>3, MessageFacts
<1>5. ASSUME NEW i \in 1..Len(file)
      PROVE  new[i].from = file[i].from /\ new[i].id = file[i].id /\ new[i].state = s(i)
  <2>1. file[i] \in Message
    BY MessageFacts
  <2> HIDE DEF s
  <2> QED
    BY <1>2, <2>1 DEF Message
<1>6. \A i \in 1..Len(file) : ~Running(new[i])
  BY <1>5 DEF Running
<1> QED
  BY <1>4, <1>5, <1>6 DEF SameText, SameMessage, new

\* What Send appends: questions, texts that were retrieved, and the reply of a turn it begins.
Appended(new, begins) ==
    /\ new \in Seq(Message) /\ Len(new) >= Len(messages)
    /\ \A i \in 1..Len(messages) : new[i] = messages[i]
    /\ \A i \in Len(messages) + 1..Len(new) :
          \/ /\ new[i].from = "user" \/ (begins /\ new[i].from = "rag")
             /\ ~Running(new[i])
          \/ begins /\ i = Len(new) /\ new[i] = Reply(Len(turn) + 1, "none")
    /\ begins => Len(new) > Len(messages) /\ new[Len(new)] = Reply(Len(turn) + 1, "none")

\* What SentMessages appends.
LEMMA SentAppends ==
  ASSUME TypeOK, NEW r \in 0..MaxRequests, NEW append \in BOOLEAN,
         NEW asRag \in BOOLEAN, NEW begins \in BOOLEAN,
         begins => Len(turn) < MaxRequests
  PROVE  Appended(SentMessages(r, append, asRag, begins), begins)
<1> DEFINE new == SentMessages(r, append, asRag, begins)
           a == IF append THEN <<Question(r)>> ELSE << >>
           b == IF begins /\ asRag THEN <<RagText(r)>> ELSE << >>
           c == IF begins THEN <<Reply(Len(turn) + 1, "none")>> ELSE << >>
           Said(m) == (m.from = "user" \/ (begins /\ m.from = "rag")) /\ ~Running(m)
<1>1. messages \in Seq(Message) /\ new \in Seq(Message)
  BY SentMessagesType DEF TypeOK
<1>2. Said(Question(r)) /\ (begins => Said(RagText(r)))
  BY DEF Question, RagText, Running
<1>3. a \in Seq(Message) /\ Len(a) \in {0, 1} /\ \A i \in 1..Len(a) : Said(a[i])
  <2>1. Question(r) \in Message
    BY PieceTypes
  <2> HIDE DEF Said
  <2> QED BY <1>2, <2>1
<1>4. b \in Seq(Message) /\ Len(b) \in {0, 1} /\ \A i \in 1..Len(b) : Said(b[i])
  <2>1. RagText(r) \in Message
    BY PieceTypes
  <2> HIDE DEF Said
  <2> QED BY <1>2, <2>1
<1>5. /\ c \in Seq(Message) /\ Len(c) = (IF begins THEN 1 ELSE 0)
      /\ begins => c[1] = Reply(Len(turn) + 1, "none")
  <2>1. begins => Len(turn) + 1 \in Turns
    BY TurnFacts
  <2>2. begins => Reply(Len(turn) + 1, "none") \in Message
    BY <2>1, PieceTypes
  <2> QED BY <2>2
<1>6. new = messages \o a \o b \o c
  BY DEF SentMessages
<1> HIDE DEF a, b, c, new, Said
<1> DEFINE x == messages \o a
           y == x \o b
<1>7. /\ x \in Seq(Message) /\ Len(x) = Len(messages) + Len(a)
      /\ \A i \in 1..Len(x) : x[i] = IF i <= Len(messages) THEN messages[i] ELSE a[i - Len(messages)]
  BY <1>1, <1>3, ConcatProperties
<1>8. /\ y \in Seq(Message) /\ Len(y) = Len(x) + Len(b)
      /\ \A i \in 1..Len(y) : y[i] = IF i <= Len(x) THEN x[i] ELSE b[i - Len(x)]
  <2>1. x \in Seq(Message) /\ b \in Seq(Message)
    BY <1>4, <1>7
  <2> HIDE DEF x
  <2> QED BY <2>1, ConcatProperties
<1>9. /\ new = y \o c /\ Len(new) = Len(y) + Len(c)
      /\ \A i \in 1..Len(new) : new[i] = IF i <= Len(y) THEN y[i] ELSE c[i - Len(y)]
  <2>1. new = y \o c
    BY <1>6
  <2>2. y \in Seq(Message) /\ c \in Seq(Message)
    BY <1>5, <1>8
  <2> HIDE DEF y
  <2> QED BY <2>1, <2>2, ConcatProperties
<1> HIDE DEF x, y
<1> DEFINE lm == Len(messages)  la == Len(a)  lb == Len(b)  lx == Len(x)  ly == Len(y)
<1>10. lm \in Nat /\ la \in Nat /\ lb \in Nat /\ lx = lm + la /\ ly = lx + lb
  BY <1>1, <1>3, <1>4, <1>7, <1>8, LenProperties
<1>11. \A i \in 1..lm : new[i] = messages[i]
  BY <1>5, <1>7, <1>8, <1>9, <1>10
<1>12. \A i \in lm + 1..ly : Said(new[i])
  <2> TAKE i \in lm + 1..ly
  <2>1. new[i] = y[i] /\ i \in 1..ly
    BY <1>5, <1>9, <1>10
  <2>2. CASE i <= lx
    <3>1. y[i] = a[i - lm] /\ i - lm \in 1..la
      BY <1>7, <1>8, <1>10, <2>1, <2>2
    <3> QED BY <1>3, <2>1, <3>1
  <2>3. CASE i > lx
    <3>1. y[i] = b[i - lx] /\ i - lx \in 1..lb
      BY <1>8, <1>10, <2>1, <2>3
    <3> QED BY <1>4, <2>1, <3>1
  <2> QED BY <1>10, <2>2, <2>3
<1>13. begins => Len(new) = ly + 1 /\ new[ly + 1] = Reply(Len(turn) + 1, "none")
  BY <1>5, <1>9, <1>10
<1>14. ~begins => Len(new) = ly
  BY <1>5, <1>9, <1>10
<1>15. \A i \in lm + 1..Len(new) : i \in lm + 1..ly \/ (begins /\ i = ly + 1)
  BY <1>10, <1>13, <1>14
<1>16. Len(new) >= lm /\ (begins => Len(new) > lm)
  BY <1>10, <1>13, <1>14
<1> HIDE DEF lm, ly
<1>17. \A i \in lm + 1..Len(new) :
          \/ /\ new[i].from = "user" \/ (begins /\ new[i].from = "rag")
             /\ ~Running(new[i])
          \/ begins /\ i = Len(new) /\ new[i] = Reply(Len(turn) + 1, "none")
  BY <1>12, <1>13, <1>15 DEF Said
<1> QED
  BY <1>1, <1>11, <1>13, <1>16, <1>17 DEF Appended, new, lm

------------------------------------------------------------------------------
(* The history file *)

\* What IdleIsSaved says of the file of the chat on the screen.
SavedNow ==
    LET saved == history[chatName]
    IN  /\ Len(saved) <= Len(messages)
        /\ \A i \in DOMAIN saved : SameMessage(saved[i], messages[i])
        /\ \A i \in Len(saved) + 1..Len(messages) : messages[i].from = "user"

Live == {t \in DOMAIN turn : Alive(t)}

\* A token that waits is one of a live turn, or a completion waits behind it.
Followed(q, live) ==
    \A i \in 1..Len(q) : q[i].kind = "token" =>
        q[i].turn \in live \/ \E j \in i + 1..Len(q) : q[j].kind = "finish"

\* Handling the first block leaves every token followed by its completion.
LEMMA FollowedTail ==
  ASSUME mainQ \in Seq(Block), mainQ # << >>, NEW live, Followed(mainQ, live)
  PROVE  Followed(Tail(mainQ), live)
<1> DEFINE q == Tail(mainQ)
<1>1. Len(mainQ) \in Nat /\ Len(q) = Len(mainQ) - 1 /\ \A i \in 1..Len(q) : q[i] = mainQ[i + 1]
  BY PopQueue, LenProperties
<1> HIDE DEF q
<1> SUFFICES ASSUME NEW i \in 1..Len(q), q[i].kind = "token", q[i].turn \notin live
             PROVE  \E j \in i + 1..Len(q) : q[j].kind = "finish"
  BY DEF Followed, q
<1>2. i + 1 \in 1..Len(mainQ) /\ mainQ[i + 1] = q[i]
  BY <1>1
<1>3. PICK k \in (i + 1) + 1..Len(mainQ) : mainQ[k].kind = "finish"
  BY <1>2 DEF Followed
<1>4. k - 1 \in i + 1..Len(q) /\ k - 1 \in 1..Len(q) /\ (k - 1) + 1 = k
  BY <1>1
<1> QED
  BY <1>1, <1>3, <1>4

\* Posting keeps tokens followed, if a token comes from a turn that still runs.
LEMMA FollowedPost ==
  ASSUME NEW q \in Seq(Block), NEW b \in Block, NEW live,
         \/ b.kind = "finish"
         \/ Followed(q, live) /\ (b.kind = "token" => b.turn \in live)
  PROVE  Followed(Append(q, b), live)
<1> DEFINE r == Append(q, b)
<1>1. Len(q) \in Nat /\ Len(r) = Len(q) + 1 /\ (\A i \in 1..Len(q) : r[i] = q[i]) /\ r[Len(q) + 1] = b
  BY PostQueue, LenProperties
<1> HIDE DEF r
<1> SUFFICES ASSUME NEW i \in 1..Len(r), r[i].kind = "token", r[i].turn \notin live
             PROVE  \E j \in i + 1..Len(r) : r[j].kind = "finish"
  BY DEF Followed, r
<1>2. i = Len(q) + 1 \/ i \in 1..Len(q)
  BY <1>1
<1>3. CASE b.kind = "finish"
  <2>1. i \in 1..Len(q)
    BY <1>1, <1>2, <1>3
  <2>2. Len(q) + 1 \in i + 1..Len(r)
    BY <1>1, <2>1
  <2> QED
    BY <1>1, <1>3, <2>2
<1>4. CASE Followed(q, live) /\ (b.kind = "token" => b.turn \in live)
  <2>1. i \in 1..Len(q) /\ r[i] = q[i]
    BY <1>1, <1>2, <1>4
  <2>2. PICK j \in i + 1..Len(q) : q[j].kind = "finish"
    BY <1>4, <2>1 DEF Followed
  <2>3. j \in 1..Len(q) /\ j \in i + 1..Len(r)
    BY <1>1, <2>1
  <2> QED
    BY <1>1, <2>2, <2>3
<1> QED
  BY <1>3, <1>4

\* A turn that runs goes on running until its prediction ends.
LEMMA LiveGrows ==
  ASSUME TypeOK, [Next]_vars, \A t \in DOMAIN turn : ~PredictEnd(t)
  PROVE  Live \subseteq Live'
<1> USE DEF uiVars, taskVars, ghosts
<1>1. ASSUME NEW r, NEW append, NEW asRag, NEW useRag, Send(r, append, asRag, useRag)
      PROVE  Live \subseteq Live'
  <2>1. CASE turn' = turn
    BY <2>1 DEF Live, Alive
  <2>2. ASSUME NEW n, turn' = Append(turn, n) PROVE Live \subseteq Live'
    <3>1. \A t \in DOMAIN turn : t \in DOMAIN turn' /\ turn'[t] = turn[t]
      BY <2>2, TurnFacts, AppendProperties DEF TypeOK
    <3> QED
      BY <3>1 DEF Live, Alive
  <2> QED
    BY <1>1, <2>1, <2>2 DEF Send, SendRefused, StartRag, StartLoad, StartTurn
<1>2. ASSUME NEW t \in DOMAIN turn, NEW pc, pc # "done", SetPc(t, pc) PROVE Live \subseteq Live'
  <2>1. /\ DOMAIN turn' = DOMAIN turn
        /\ turn'[t] = [turn[t] EXCEPT !.pc = pc]
        /\ \A u \in DOMAIN turn \ {t} : turn'[u] = turn[u]
    BY <1>2, TurnFacts DEF SetPc
  <2>2. turn'[t].pc = pc
    BY <2>1, TurnFacts DEF TurnRecord
  <2> QED
    BY <1>2, <2>1, <2>2 DEF Live, Alive
<1>3. CASE turn' = turn
  BY <1>3 DEF Live, Alive
<1>4. CASE \E t \in DOMAIN turn : PredictStep(t)
  BY <1>2, <1>4 DEF PredictStep, PredictExit, PredictToken, PredictPost, PredictLimit,
     PredictThrow
<1>5. CASE User
  BY <1>1, <1>3, <1>5 DEF User, UserSend, UserStop, CloseChat, ClearChat, SelectChat
<1>6. CASE MainStep
  BY <1>1, <1>3, <1>6 DEF MainStep, HandleToken, HandleFinish, HandleLoaded, HandleSend,
     HandleRagSearch
<1>7. CASE (\E a \in AIs : LoadStep(a)) \/ (\E r \in Requests : RagStep(r)) \/ UNCHANGED vars
  BY <1>3, <1>7 DEF LoadStep, LoadContext, LoadDone, LoadFail, RagStep, RagIndexed, RagFound, vars
<1> QED
  BY <1>4, <1>5, <1>6, <1>7 DEF Next

\* A token in the queue is followed by a completion, or its turn still runs.
LEMMA FollowedStep ==
  ASSUME TypeOK, [Next]_vars, Followed(mainQ, Live)
  PROVE  Followed(mainQ', Live')
<1> USE DEF uiVars, taskVars, ghosts
<1>m. mainQ \in Seq(Block)
  BY DEF TypeOK
<1>1. ASSUME NEW t \in DOMAIN turn, PredictEnd(t) PROVE Followed(mainQ', Live')
  <2>1. \E b \in Block : b.kind = "finish" /\ mainQ' = Append(mainQ, b)
    BY <1>1, TurnFacts, BlockTypes DEF PredictEnd
  <2> QED
    BY <1>m, <2>1, FollowedPost
<1>2. CASE \A t \in DOMAIN turn : ~PredictEnd(t)
  <2>1. Live \subseteq Live'
    BY <1>2, LiveGrows
  <2>2. Followed(mainQ, Live')
    BY <2>1 DEF Followed
  <2>3. ASSUME MainStep PROVE Followed(mainQ', Live')
    <3>1. mainQ # << >>
      BY <2>3 DEF MainStep, HandleToken, HandleFinish, HandleLoaded, HandleSend,
         HandleRagSearch, HeadIs
    <3>2. Tail(mainQ) \in Seq(Block) /\ Followed(Tail(mainQ), Live') /\ Head(mainQ) \in Block
      BY <1>m, <2>2, <3>1, FollowedTail, PopQueue
    <3>3. \/ mainQ' = Tail(mainQ)
          \/ \E b \in Block : b.kind = "send" /\ mainQ' = Append(Tail(mainQ), b)
      <4>1. CASE HandleLoaded
        <5>1. Head(mainQ).ai \in AIs
          BY <3>2, <4>1, BlockFields DEF HandleLoaded, HeadIs
        <5>2. ai[Head(mainQ).ai] \in AIRecord
          BY <5>1 DEF TypeOK
        <5>3. /\ ai[Head(mainQ).ai].onLoad \in 0..MaxRequests
              /\ ai[Head(mainQ).ai].onLoadRag \in BOOLEAN
          BY <5>2 DEF AIRecord
        <5> QED
          BY <4>1, <5>3, BlockTypes DEF HandleLoaded
      <4> QED
        BY <2>3, <4>1 DEF MainStep, HandleToken, HandleFinish, HandleSend, HandleRagSearch
    <3> QED
      BY <3>2, <3>3, FollowedPost
  <2>4. CASE User \/ UNCHANGED vars
    <3>1. mainQ' = mainQ
      BY <2>4 DEF User, UserSend, UserStop, CloseChat, ClearChat, SelectChat, vars
    <3> QED
      BY <2>2, <3>1
  <2>5. CASE (\E a \in AIs : LoadStep(a)) \/ (\E r \in Requests : RagStep(r))
    <3>1. \A r \in Requests : r \in 0..MaxRequests
      OBVIOUS
    <3>2. \/ mainQ' = mainQ
          \/ \E b \in Block : b.kind # "token" /\ mainQ' = Append(mainQ, b)
      BY <2>5, <3>1, BlockTypes
         DEF LoadStep, LoadContext, LoadDone, LoadFail, RagStep, RagIndexed, RagFound
    <3> QED
      BY <1>m, <2>2, <3>2, FollowedPost
  <2>6. ASSUME NEW t \in DOMAIN turn, PredictStep(t) PROVE Followed(mainQ', Live')
    <3>1. t \in Live /\ t \in Turns
      BY <2>6, TurnFacts DEF Live, Alive, PredictStep, PredictExit, PredictToken, PredictPost,
         PredictLimit, PredictThrow, PredictEnd
    <3>2. \/ mainQ' = mainQ
          \/ \E b \in Block : (b.kind = "token" => b.turn = t) /\ mainQ' = Append(mainQ, b)
      BY <2>6, <3>1, BlockTypes DEF PredictStep, PredictExit, PredictToken, PredictPost,
         PredictLimit, PredictThrow, PredictEnd
    <3> QED
      BY <1>m, <2>1, <2>2, <3>1, <3>2, FollowedPost
  <2> QED
    BY <2>3, <2>4, <2>5, <2>6 DEF Next
<1> QED
  BY <1>1, <1>2

\* A Send saves the transcript it changes, or begins a turn that will.
LEMMA SavedSend ==
  ASSUME TypeOK, TypeOK', NEW r \in 0..MaxRequests, NEW append \in BOOLEAN,
         NEW asRag \in BOOLEAN, NEW useRag \in BOOLEAN,
         Send(r, append, asRag, useRag), TurnInFlight \/ SavedNow,
         Has(mainQ, "finish") => Has(mainQ', "finish")
  PROVE  TurnInFlight' \/ SavedNow'
<1>1. CASE turn' = turn /\ messages' = SentMessages(r, append, asRag, FALSE)
  <2>1. TurnInFlight => TurnInFlight'
    BY <1>1 DEF TurnInFlight, Alive
  <2>2. Appended(SentMessages(r, append, asRag, FALSE), FALSE)
    BY SentAppends
  <2>3. /\ Len(messages') >= Len(messages)
        /\ \A i \in 1..Len(messages) : messages'[i] = messages[i]
        /\ \A i \in Len(messages) + 1..Len(messages') : messages'[i].from = "user"
    BY <1>1, <2>2 DEF Appended
  <2>4. UNCHANGED <<chatName, history>>
    BY DEF Send
  <2> DEFINE saved == history[chatName]
  <2>5. /\ saved \in Seq(Message) /\ messages \in Seq(Message) /\ messages' \in Seq(Message)
    BY DEF TypeOK
  <2>6. /\ DOMAIN saved = 1..Len(saved) /\ Len(saved) \in Nat /\ Len(messages) \in Nat
        /\ Len(messages') \in Nat
    BY <2>5, MessageFacts
  <2> HIDE DEF saved
  <2>7. ASSUME SavedNow PROVE SavedNow'
    <3>1. /\ Len(saved) <= Len(messages)
          /\ \A i \in DOMAIN saved : SameMessage(saved[i], messages[i])
          /\ \A i \in Len(saved) + 1..Len(messages) : messages[i].from = "user"
      BY <2>7 DEF SavedNow, saved
    <3>2. \A i \in DOMAIN saved : i \in 1..Len(messages)
      BY <2>6, <3>1
    <3>3. \A i \in DOMAIN saved : SameMessage(saved[i], messages'[i])
      BY <2>3, <3>1, <3>2
    <3>4. \A i \in Len(saved) + 1..Len(messages') :
            \/ i \in Len(messages) + 1..Len(messages')
            \/ i \in 1..Len(messages) /\ i \in Len(saved) + 1..Len(messages)
      BY <2>6, <3>1
    <3>5. \A i \in Len(saved) + 1..Len(messages') : messages'[i].from = "user"
      BY <2>3, <3>1, <3>4
    <3>6. Len(saved) <= Len(messages')
      BY <2>3, <2>6, <3>1
    <3> QED
      BY <2>4, <3>3, <3>5, <3>6 DEF SavedNow, saved
  <2> QED
    BY <2>1, <2>7
<1>2. ASSUME NEW c \in IF Kept # NoAI THEN {Kept} ELSE Free, StartTurn(r, c)
      PROVE  TurnInFlight'
  <2>1. turn' = Append(turn, [ai |-> c, req |-> r, chat |-> chatName, pc |-> "run"])
    BY <1>2 DEF StartTurn
  <2>2. Len(turn) + 1 \in DOMAIN turn' /\ turn'[Len(turn) + 1].pc = "run"
    BY <2>1, TurnFacts
  <2> QED
    BY <2>2 DEF TurnInFlight, Alive
<1> QED
  BY <1>1, <1>2 DEF Send, SendRefused, StartRag, StartLoad

\* Written out as it is, or closed by stop_predict, the transcript is on disk.
LEMMA SavedBySave ==
  ASSUME TypeOK, TypeOK', chatName' \in Chats,
         SameText(history'[chatName'], messages')
  PROVE  SavedNow'
<1>1. history'[chatName'] \in Seq(Message) /\ messages' \in Seq(Message)
  BY DEF TypeOK
<1>2. /\ DOMAIN history'[chatName'] = 1..Len(history'[chatName'])
      /\ Len(history'[chatName']) \in Nat
  BY <1>1, MessageFacts
<1>3. \A i \in Len(messages') + 1..Len(messages') : FALSE
  BY <1>1, MessageFacts
<1> QED
  BY <1>2, <1>3 DEF SavedNow, SameText

\* Whatever changes the transcript saves it, or leaves a turn or completion that will.
LEMMA SavedStep ==
  ASSUME TypeOK, TypeOK', [Next]_vars, Followed(mainQ, Live), TurnInFlight \/ SavedNow
  PROVE  TurnInFlight' \/ SavedNow'
<1> USE DEF uiVars, taskVars, ghosts
<1>t. /\ history \in [Chats -> Seq(Message)] /\ chatName \in Chats /\ messages \in Seq(Message)
      /\ history' \in [Chats -> Seq(Message)] /\ chatName' \in Chats /\ messages' \in Seq(Message)
  BY DEF TypeOK
<1>s. ASSUME chatName' = chatName, history' = [history EXCEPT ![chatName] = messages']
      PROVE  SavedNow'
  <2>1. history'[chatName'] = messages'
    BY <1>t, <1>s
  <2>2. SameText(messages', messages')
    BY DEF SameText, SameMessage
  <2> QED
    BY <1>t, <2>1, <2>2, SavedBySave
<1>1. CASE UNCHANGED vars
  BY <1>1 DEF vars, TurnInFlight, Has, Alive, SavedNow
<1>2. CASE User
  <2>1. CASE UserSend
    <3>1. PICK useRag \in {FALSE, UseRag} : Send(nRequests + 1, TRUE, FALSE, useRag)
      BY <2>1 DEF UserSend
    <3>2. nRequests + 1 \in 0..MaxRequests /\ useRag \in BOOLEAN /\ mainQ' = mainQ
      BY <2>1 DEF UserSend, TypeOK
    <3>3. Has(mainQ, "finish") => Has(mainQ', "finish")
      BY <3>2
    <3> QED
      BY <3>1, <3>2, <3>3, SavedSend
  <2>2. CASE UserStop \/ CloseChat
    BY <1>s, <2>2 DEF UserStop, CloseChat, stop_predict
  <2>3. CASE ClearChat
    BY <1>s, <2>3 DEF ClearChat
  <2>4. CASE \E c \in Chats : SelectChat(c)
    <3>1. messages' = load_chat_history(history'[chatName'])
      BY <2>4 DEF SelectChat
    <3>2. SameText(history'[chatName'], messages')
      BY <1>t, <3>1, LoadedFacts
    <3> QED
      BY <1>t, <3>2, SavedBySave
  <2> QED
    BY <1>2, <2>1, <2>2, <2>3, <2>4 DEF User
<1>3. CASE MainStep
  <2>0. mainQ # << >> /\ mainQ \in Seq(Block)
    BY <1>3 DEF MainStep, HandleToken, HandleFinish, HandleLoaded, HandleSend,
       HandleRagSearch, HeadIs, TypeOK
  <2>1. CASE HandleToken
    <3>1. Head(mainQ) = mainQ[1] /\ 1 \in 1..Len(mainQ) /\ Len(mainQ) \in Nat
      BY <2>0, PopQueue, QueueFacts
    <3>2. \/ mainQ[1].turn \in Live
          \/ \E j \in 1 + 1..Len(mainQ) : mainQ[j].kind = "finish"
      BY <2>1, <3>1 DEF HandleToken, HeadIs, Followed
    <3>3. turn' = turn /\ mainQ' = Tail(mainQ)
      BY <2>1 DEF HandleToken
    <3>4. CASE mainQ[1].turn \in Live
      BY <3>3, <3>4 DEF Live, TurnInFlight, Alive
    <3>5. CASE \E j \in 1 + 1..Len(mainQ) : mainQ[j].kind = "finish"
      <4>1. PICK j \in 1..Len(mainQ) : mainQ[j].kind = "finish"
        BY <3>1, <3>5
      <4>2. Has(mainQ', "finish")
        BY <2>0, <2>1, <3>3, <4>1, PopKeeps DEF HandleToken, HeadIs, Has
      <4> QED
        BY <4>2 DEF TurnInFlight
    <3> QED
      BY <3>2, <3>4, <3>5
  <2>2. CASE HandleFinish
    BY <1>s, <2>2 DEF HandleFinish
  <2>3. CASE HandleLoaded
    <3>1. CASE stop_predict(Append(messages, ErrorText), TRUE)
      BY <1>s, <2>3, <3>1 DEF HandleLoaded, stop_predict
    <3>2. CASE UNCHANGED <<messages, history>>
      <4>1. Has(mainQ, "finish") => Has(mainQ', "finish")
        BY <1>3, <2>3, MainKeeps DEF HandleLoaded, HeadIs
      <4>2. UNCHANGED <<turn, chatName>>
        BY <2>3 DEF HandleLoaded
      <4> QED
        BY <3>2, <4>1, <4>2 DEF TurnInFlight, Alive, SavedNow
    <3> QED
      BY <2>3, <3>1, <3>2 DEF HandleLoaded
  <2>4. CASE HandleSend
    <3>1. Has(mainQ, "finish") => Has(mainQ', "finish")
      BY <1>3, <2>4, MainKeeps DEF HandleSend, HeadIs
    <3>2. Head(mainQ) \in Block /\ Head(mainQ).kind = "send"
      BY <2>0, <2>4, PopQueue DEF HandleSend, HeadIs
    <3>3. Head(mainQ).req \in 0..MaxRequests /\ Head(mainQ).rag \in BOOLEAN
      BY <3>2, BlockFields
    <3>4. Send(Head(mainQ).req, FALSE, Head(mainQ).rag, FALSE) /\ FALSE \in BOOLEAN
      BY <2>4 DEF HandleSend
    <3> QED
      BY <3>1, <3>3, <3>4, SavedSend
  <2>5. CASE HandleRagSearch
    <3>1. Has(mainQ, "finish") => Has(mainQ', "finish")
      BY <1>3, <2>5, MainKeeps DEF HandleRagSearch, HeadIs
    <3> QED
      BY <2>5, <3>1 DEF HandleRagSearch, TurnInFlight, Alive, SavedNow
  <2> QED
    BY <1>3, <2>1, <2>2, <2>3, <2>4, <2>5 DEF MainStep
<1>4. ASSUME \/ \E a \in AIs : LoadStep(a)
             \/ \E r \in Requests : RagStep(r)
      PROVE  TurnInFlight' \/ SavedNow'
  <2>1. \A kind : Has(mainQ, kind) => Has(mainQ', kind)
    BY <1>4, QueueGrows
  <2>2. UNCHANGED <<chatName, messages, history, turn>>
    BY <1>4 DEF LoadStep, LoadContext, LoadDone, LoadFail, RagStep, RagIndexed, RagFound
  <2> QED
    BY <2>1, <2>2 DEF TurnInFlight, Alive, SavedNow
<1>5. ASSUME NEW t \in DOMAIN turn, PredictStep(t) PROVE TurnInFlight'
  <2>1. CASE PredictEnd(t)
    <3>1. Has(mainQ', "finish")
      BY <2>1, TurnFacts, BlockTypes, PostKeeps DEF PredictEnd, TypeOK
    <3> QED
      BY <3>1 DEF TurnInFlight
  <2>2. CASE ~PredictEnd(t)
    <3>1. PICK pc : pc # "done" /\ SetPc(t, pc)
      BY <1>5, <2>2 DEF PredictStep, PredictExit, PredictToken, PredictPost, PredictLimit,
         PredictThrow
    <3>2. t \in DOMAIN turn' /\ turn'[t].pc # "done"
      BY <3>1, TurnFacts DEF SetPc, TurnRecord
    <3> QED
      BY <3>2 DEF TurnInFlight, Alive
  <2> QED
    BY <2>1, <2>2
<1> QED
  BY <1>1, <1>2, <1>3, <1>4, <1>5 DEF Next

\* Whatever user: once the app is quiet the history file holds the transcript, but for
\* questions whose Send was refused at once; no order of stops, switches of chat, failed
\* loads and late blocks leaves a reply or an error that only the screen has.
THEOREM IdleIsSavedCorrect == Spec => []IdleIsSaved
<1> DEFINE IInv == TypeOK /\ Followed(mainQ, Live) /\ (TurnInFlight \/ SavedNow)
<1>1. Init => IInv
  <2> SUFFICES ASSUME Init PROVE Followed(mainQ, Live) /\ SavedNow
    BY TypeInit
  <2>1. mainQ = << >> /\ messages = << >> /\ history[chatName] = << >>
    BY DEF Init
  <2> QED
    BY <2>1 DEF Followed, SavedNow
<1>2. IInv /\ [Next]_vars => IInv'
  BY TypeStep, FollowedStep, SavedStep
<1>3. IInv => IdleIsSaved
  BY DEF IdleIsSaved, SavedNow, Idle, TurnInFlight, Has
<1> QED
  BY <1>1, <1>2, <1>3, PTL DEF Spec
============================================================================
