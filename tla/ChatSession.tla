---------------------------- MODULE ChatSession ----------------------------
(***************************************************************************)
(* One chat window of the app: the main-actor object AIChatModel, the AI   *)
(* objects it creates, the tasks these run on their concurrent dispatch    *)
(* queue (loading a model, predicting a reply) and the blocks those tasks  *)
(* post back to the main queue.                                            *)
(*                                                                         *)
(* The user acts at any moment: Send, Stop, close, select another chat,    *)
(* clear.  Handlers on the main queue are atomic (they never suspend);     *)
(* everything on the dispatch queue interleaves with them.  What a token   *)
(* or a message says is abstracted to who wrote it: a question is named by *)
(* its request, a reply by its turn.                                       *)
(***************************************************************************)
EXTENDS Naturals, Sequences, FiniteSets

CONSTANTS
    Chats,          \* the chats the user can select
    AIs,            \* identities of AI objects, reused once deallocated
    NoAI,           \* self.chat == nil
    MaxRequests,    \* bound: questions the user sends
    MaxQueue,       \* bound: blocks waiting in the main queue when a token is posted
    SendWhileBusy,  \* may the user send while earlier work is still in flight?
    UseRag,         \* may the user send with RAG switched on?
    ContextFills    \* can a prediction reach the end of the context window?

ASSUME ChatSessionAssumption ==
    /\ Chats # {} /\ AIs # {} /\ NoAI \notin AIs
    /\ MaxRequests \in Nat /\ MaxQueue \in Nat
    /\ SendWhileBusy \in BOOLEAN /\ UseRag \in BOOLEAN /\ ContextFills \in BOOLEAN

VARIABLES
    chatName,     \* AIChatModel.chat_name
    messages,     \* AIChatModel.messages
    history,      \* the history file of each chat
    state,        \* AIChatModel.state
    predicting,   \* AIChatModel.predicting: the button shows "stop"
    chat,         \* AIChatModel.chat
    ai,           \* the fields of each AI object and of its model
    opening,      \* load tasks of each AI that have not created the context yet
    opened,       \* load tasks of each AI that have
    turn,         \* the conversation() calls made so far
    rag,          \* the retrieval task of each request
    mainQ,        \* blocks and jobs waiting for the main thread
    nRequests,    \* questions sent so far
    failed,       \* history variable: requests refused or ended by a load error
    cleared       \* history variable: turns begun before a Clear of their chat

uiVars == <<chatName, messages, history, state, predicting, chat>>
taskVars == <<ai, opening, opened, turn, rag>>
ghosts == <<failed, cleared>>
vars == <<uiVars, taskVars, mainQ, nRequests, ghosts>>

Requests == 1..MaxRequests
Turns == 1..MaxRequests

------------------------------------------------------------------------------
(* Values *)

\* A message of the transcript: who it is from, which one it is, how it is shown.
Message == [from : {"user", "rag", "reply", "error"},
            id : 0..MaxRequests,
            state : {"none", "error", "typed", "predicting", "predicted"}]

\* chatName and flagExit of an AI; whether its model has a context; the request (and
\* whether it carries retrieved text) captured by the model's load-complete callback.
AIRecord == [chat : Chats, flagExit : BOOLEAN, context : BOOLEAN,
             onLoad : 0..MaxRequests, onLoadRag : BOOLEAN]

\* A conversation() call: the AI it runs on, its request, the chat it was asked
\* in and where its prediction stands.
TurnRecord == [ai : AIs, req : 0..MaxRequests, chat : Chats,
               pc : {"run", "post", "exit", "threw", "done"}]

Block == [kind : {"token"}, turn : Turns]
    \cup [kind : {"finish"}, turn : Turns, error : BOOLEAN]
    \cup [kind : {"loaded"}, ai : AIs, ok : BOOLEAN]
    \cup [kind : {"send"}, req : 0..MaxRequests, rag : BOOLEAN]
    \cup [kind : {"ragSearch"}]

Alive(t) == turn[t].pc # "done"

InQueue(kind) == {i \in DOMAIN mainQ : mainQ[i].kind = kind}

\* The app is quiet: nothing runs on a dispatch queue, nothing waits for main.
Idle == /\ mainQ = << >>
        /\ \A a \in AIs : opening[a] = 0 /\ opened[a] = 0
        /\ \A t \in DOMAIN turn : ~Alive(t)
        /\ \A r \in Requests : rag[r] = "none"

\* The guard of every callback that shows something: is it still about this chat?
Current == chat # NoAI /\ ai[chat].chat = chatName /\ ~ai[chat].flagExit

------------------------------------------------------------------------------
(* Pieces of AIChatModel *)

Question(r) == [from |-> "user", id |-> r, state |-> "typed"]
RagText(r) == [from |-> "rag", id |-> r, state |-> "typed"]
Reply(t, s) == [from |-> "reply", id |-> t, state |-> s]
ErrorText == [from |-> "error", id |-> 0, state |-> "error"]

update_last_message(m) ==
    IF messages = << >> THEN messages ELSE [messages EXCEPT ![Len(messages)] = m]

\* Mutant of StoppedLast: a reply that already got tokens is forgotten.
StoppedLastEmptyOnly(msgs, isError) ==
    IF msgs = << >> THEN msgs
    ELSE [msgs EXCEPT ![Len(msgs)].state =
            IF isError THEN "error" ELSE IF @ = "none" THEN "predicted" ELSE @]

\* stop_predict closes the last message: a running one is shown as predicted.
StoppedLast(msgs, isError) ==
    IF msgs = << >> THEN msgs
    ELSE [msgs EXCEPT ![Len(msgs)].state =
            IF isError THEN "error"
            ELSE IF @ \in {"predicting", "none"} THEN "predicted" ELSE @]

\* Saving and loading keep every message; only a finished reply keeps its state.
load_chat_history(file) ==
    [i \in DOMAIN file |->
        [file[i] EXCEPT !.state =
            IF @ = "predicted" /\ file[i].from \in {"reply", "error"} THEN @ ELSE "typed"]]

RaiseFlag == IF chat = NoAI THEN ai ELSE [ai EXCEPT ![chat].flagExit = TRUE]

\* stop_predict(is_error) over the transcript msgs, with its save of the history.
stop_predict(msgs, isError) ==
    /\ ai' = RaiseFlag
    /\ messages' = StoppedLast(msgs, isError)
    /\ predicting' = FALSE
    /\ history' = [history EXCEPT ![chatName] = messages']
    /\ chat' = IF isError THEN NoAI ELSE chat

FreshAI == [chat |-> chatName, flagExit |-> FALSE, context |-> FALSE,
            onLoad |-> 0, onLoadRag |-> FALSE]

\* The chat object Send keeps: one made for another chat is dropped.
Kept == IF chat # NoAI /\ ai[chat].chat = chatName THEN chat ELSE NoAI

\* AI objects nothing refers to any more once Send has dropped the one it does not keep.
Free == {a \in AIs : /\ Kept # a
                     /\ opening[a] = 0 /\ opened[a] = 0
                     /\ \A t \in DOMAIN turn : Alive(t) => turn[t].ai # a
                     /\ \A i \in InQueue("loaded") : mainQ[i].ai # a}

\* The AI objects once Send has chosen c: the one it keeps or a new one.
Objects(c) == IF Kept # NoAI THEN ai ELSE [ai EXCEPT ![c] = FreshAI]

\* load_model_by_chat_name_prepare returned nil: no model file, no configuration.
SendRefused(r) ==
    /\ Kept = NoAI
    /\ chat' = NoAI
    /\ failed' = failed \cup {r}
    /\ UNCHANGED <<state, predicting, ai, opening, turn, rag>>

\* RAG was asked for: retrieve first, a second Send will follow.
StartRag(r, c) ==
    /\ chat' = c
    /\ ai' = Objects(c)
    /\ state' = "ragIndexLoading"
    /\ rag' = [rag EXCEPT ![r] = "index"]
    /\ UNCHANGED <<predicting, opening, turn, failed>>

\* Mutant of StartLoad: the callback of an earlier load of the model stays in place.
StartLoadOldCallback(r, asRag, c) ==
    /\ ~Objects(c)[c].context
    /\ chat' = c
    /\ ai' = Objects(c)
    /\ state' = "loading"
    /\ opening' = [opening EXCEPT ![c] = @ + 1]
    /\ UNCHANGED <<predicting, turn, rag, failed>>

\* No context yet: load the model, a second Send will follow.
StartLoad(r, asRag, c) ==
    /\ ~Objects(c)[c].context
    /\ chat' = c
    /\ ai' = [Objects(c) EXCEPT ![c].onLoad = r, ![c].onLoadRag = asRag]
    /\ state' = "loading"
    /\ opening' = [opening EXCEPT ![c] = @ + 1]
    /\ UNCHANGED <<predicting, turn, rag, failed>>

\* The model is there: begin a turn.
StartTurn(r, c) ==
    /\ Objects(c)[c].context
    /\ Len(turn) < MaxRequests
    /\ chat' = c
    /\ ai' = [Objects(c) EXCEPT ![c].flagExit = FALSE]
    /\ state' = "completed"
    /\ predicting' = TRUE
    /\ turn' = Append(turn, [ai |-> c, req |-> r, chat |-> chatName, pc |-> "run"])
    /\ UNCHANGED <<opening, rag, failed>>

\* The messages Send appends, in order, before it returns.
SentMessages(r, append, asRag, begins) ==
    messages \o (IF append THEN <<Question(r)>> ELSE << >>)
             \o (IF begins /\ asRag THEN <<RagText(r)>> ELSE << >>)
             \o (IF begins THEN <<Reply(Len(turn) + 1, "none")>> ELSE << >>)

Send(r, append, asRag, useRag) ==
    /\ \/ /\ SendRefused(r)
          /\ messages' = SentMessages(r, append, asRag, FALSE)
       \/ \E c \in IF Kept # NoAI THEN {Kept} ELSE Free :
             \/ /\ useRag
                /\ StartRag(r, c)
                /\ messages' = SentMessages(r, append, asRag, FALSE)
             \/ /\ ~useRag
                /\ StartLoad(r, asRag, c)
                /\ messages' = SentMessages(r, append, asRag, FALSE)
             \/ /\ ~useRag
                /\ StartTurn(r, c)
                /\ messages' = SentMessages(r, append, asRag, TRUE)
    /\ UNCHANGED <<chatName, history, opened, cleared>>

------------------------------------------------------------------------------
(* The user *)

\* The button while nothing is predicted.
UserSend ==
    /\ ~predicting
    /\ nRequests < MaxRequests
    /\ SendWhileBusy \/ Idle
    /\ nRequests' = nRequests + 1
    /\ \E useRag \in {FALSE, UseRag} : Send(nRequests + 1, TRUE, FALSE, useRag)
    /\ UNCHANGED mainQ

\* The same button while a reply is predicted.
UserStop ==
    /\ predicting
    /\ stop_predict(messages, FALSE)
    /\ UNCHANGED <<chatName, state, opening, opened, turn, rag, mainQ, nRequests, ghosts>>

\* The selection is dropped: the chat closes but stays the current one.
CloseChat ==
    /\ stop_predict(messages, FALSE)
    /\ UNCHANGED <<chatName, state, opening, opened, turn, rag, mainQ, nRequests, ghosts>>

\* Mutant of SelectChat: the running reply is not stopped.
SelectChatStillPredicting(c) ==
    /\ history' = [history EXCEPT ![chatName] = StoppedLast(messages, FALSE)]
    /\ chatName' = c
    /\ messages' = load_chat_history(history'[c])
    /\ UNCHANGED <<state, predicting, chat, taskVars, mainQ, nRequests, ghosts>>

\* reload_chat: stop and save under the old name, then show the other history.
SelectChat(c) ==
    /\ ai' = RaiseFlag
    /\ predicting' = FALSE
    /\ history' = [history EXCEPT ![chatName] = StoppedLast(messages, FALSE)]
    /\ chatName' = c
    /\ messages' = load_chat_history(history'[c])
    /\ UNCHANGED <<state, chat, opening, opened, turn, rag, mainQ, nRequests, ghosts>>

\* Mutant of ClearChat: the emptied transcript is not written to the history file.
ClearChatUnsaved ==
    /\ messages' = << >>
    /\ chat' = NoAI
    /\ cleared' = cleared \cup {t \in DOMAIN turn : turn[t].chat = chatName}
    /\ UNCHANGED <<chatName, history, state, predicting, taskVars, mainQ, nRequests, failed>>

\* The Clear button, with hard_reload_chat.  Nothing tells a running prediction.
ClearChat ==
    /\ messages' = << >>
    /\ history' = [history EXCEPT ![chatName] = << >>]
    /\ chat' = NoAI
    /\ cleared' = cleared \cup {t \in DOMAIN turn : turn[t].chat = chatName}
    /\ UNCHANGED <<chatName, state, predicting, taskVars, mainQ, nRequests, failed>>

------------------------------------------------------------------------------
(* Tasks on the dispatch queue: AI.loadModel *)

\* llama_init_from_model: from here on main sees a context.
LoadContext(a) ==
    /\ opening[a] > 0
    /\ opening' = [opening EXCEPT ![a] = @ - 1]
    /\ opened' = [opened EXCEPT ![a] = @ + 1]
    /\ ai' = [ai EXCEPT ![a].context = TRUE]
    /\ UNCHANGED <<uiVars, turn, rag, mainQ, nRequests, ghosts>>

\* Mutant of LoadDone: the completion can be posted again.
LoadDoneAgain(a) ==
    /\ opened[a] > 0
    /\ mainQ' = Append(mainQ, [kind |-> "loaded", ai |-> a, ok |-> TRUE])
    /\ UNCHANGED <<uiVars, taskVars, nRequests, ghosts>>

LoadDone(a) ==
    /\ opened[a] > 0
    /\ opened' = [opened EXCEPT ![a] = @ - 1]
    /\ mainQ' = Append(mainQ, [kind |-> "loaded", ai |-> a, ok |-> TRUE])
    /\ UNCHANGED <<uiVars, ai, opening, turn, rag, nRequests, ghosts>>

\* Mutant of LoadFail: an error is also reported for a load that is already over.
LoadFailAgain(a) ==
    /\ opened' = [opened EXCEPT ![a] = @ - 1]
    /\ mainQ' = Append(mainQ, [kind |-> "loaded", ai |-> a, ok |-> FALSE])
    /\ UNCHANGED <<uiVars, ai, opening, turn, rag, nRequests, ghosts>>

\* load_model throws: before the context exists, or after (the CLIP model).
LoadFail(a) ==
    /\ \/ /\ opening[a] > 0
          /\ opening' = [opening EXCEPT ![a] = @ - 1]
          /\ UNCHANGED opened
       \/ /\ opened[a] > 0
          /\ opened' = [opened EXCEPT ![a] = @ - 1]
          /\ UNCHANGED opening
    /\ mainQ' = Append(mainQ, [kind |-> "loaded", ai |-> a, ok |-> FALSE])
    /\ UNCHANGED <<uiVars, ai, turn, rag, nRequests, ghosts>>

(* Tasks on the dispatch queue: AI.conversation and the loop of Predict *)

SetPc(t, pc) == turn' = [turn EXCEPT ![t].pc = pc]

\* Mutant of PredictExit: the flag is consumed, the prediction goes on.
PredictExitIgnored(t) ==
    /\ turn[t].pc = "run"
    /\ ai[turn[t].ai].flagExit
    /\ ai' = [ai EXCEPT ![turn[t].ai].flagExit = FALSE]
    /\ UNCHANGED <<uiVars, opening, opened, turn, rag, mainQ, nRequests, ghosts>>

\* The token callback of conversation: a raised flag is consumed.
PredictExit(t) ==
    /\ turn[t].pc = "run"
    /\ ai[turn[t].ai].flagExit
    /\ ai' = [ai EXCEPT ![turn[t].ai].flagExit = FALSE]
    /\ SetPc(t, "exit")
    /\ UNCHANGED <<uiVars, opening, opened, rag, mainQ, nRequests, ghosts>>

\* ... and a clear one lets the token through.
PredictToken(t) ==
    /\ turn[t].pc = "run"
    /\ ~ai[turn[t].ai].flagExit
    /\ SetPc(t, "post")
    /\ UNCHANGED <<uiVars, ai, opening, opened, rag, mainQ, nRequests, ghosts>>

\* DispatchQueue.main.async of the token, after the flag was read.
PredictPost(t) ==
    /\ turn[t].pc = "post"
    /\ Len(mainQ) < MaxQueue
    /\ mainQ' = Append(mainQ, [kind |-> "token", turn |-> t])
    /\ SetPc(t, "run")
    /\ UNCHANGED <<uiVars, ai, opening, opened, rag, nRequests, ghosts>>

\* The context is full: the callback gets the mark `C_LIMIT` and its answer is ignored.
PredictLimit(t) ==
    /\ ContextFills
    /\ turn[t].pc = "run"
    /\ ai' = [ai EXCEPT ![turn[t].ai].flagExit = FALSE]
    /\ SetPc(t, IF ai[turn[t].ai].flagExit THEN "run" ELSE "post")
    /\ UNCHANGED <<uiVars, opening, opened, rag, mainQ, nRequests, ghosts>>

\* A C++ exception: the catch block completes the turn once ...
PredictThrow(t) ==
    /\ turn[t].pc = "run"
    /\ mainQ' = Append(mainQ, [kind |-> "finish", turn |-> t, error |-> TRUE])
    /\ SetPc(t, "threw")
    /\ UNCHANGED <<uiVars, ai, opening, opened, rag, nRequests, ghosts>>

\* ... and falls through to the completion every prediction ends with.
PredictEnd(t) ==
    /\ turn[t].pc \in {"run", "exit", "threw"}
    /\ mainQ' = Append(mainQ, [kind |-> "finish", turn |-> t, error |-> FALSE])
    /\ SetPc(t, "done")
    /\ UNCHANGED <<uiVars, ai, opening, opened, rag, nRequests, ghosts>>

(* Tasks on the dispatch queue: GenerateRagLLMQuery *)

RagIndexed(r) ==
    /\ rag[r] = "index"
    /\ rag' = [rag EXCEPT ![r] = "search"]
    /\ mainQ' = Append(mainQ, [kind |-> "ragSearch"])
    /\ UNCHANGED <<uiVars, ai, opening, opened, turn, nRequests, ghosts>>

RagFound(r) ==
    /\ rag[r] = "search"
    /\ rag' = [rag EXCEPT ![r] = "none"]
    /\ mainQ' = Append(mainQ, [kind |-> "send", req |-> r, rag |-> TRUE])
    /\ UNCHANGED <<uiVars, ai, opening, opened, turn, nRequests, ghosts>>

------------------------------------------------------------------------------
(* Blocks on the main queue *)

HeadIs(kind) == mainQ # << >> /\ Head(mainQ).kind = kind

\* Mutant of HandleToken: the token is shown whatever chat is on screen.
HandleTokenAnyChat ==
    /\ HeadIs("token")
    /\ mainQ' = Tail(mainQ)
    /\ messages' = update_last_message(Reply(Head(mainQ).turn, "predicting"))
    /\ UNCHANGED <<chatName, history, state, predicting, chat, taskVars, nRequests, ghosts>>

\* process_predicted_str; with a stop word it is stop_predict that runs instead.
HandleToken ==
    /\ HeadIs("token")
    /\ mainQ' = Tail(mainQ)
    /\ \/ /\ chat # NoAI
          /\ stop_predict(messages, FALSE)
       \/ /\ messages' = IF Current
                         THEN update_last_message(Reply(Head(mainQ).turn, "predicting"))
                         ELSE messages
          /\ UNCHANGED <<ai, predicting, history, chat>>
    /\ UNCHANGED <<chatName, state, opening, opened, turn, rag, nRequests, ghosts>>

\* Mutant of HandleFinish: only a completion that is shown gives the button back.
HandleFinishIfCurrent ==
    /\ HeadIs("finish")
    /\ mainQ' = Tail(mainQ)
    /\ predicting' = IF Current THEN FALSE ELSE predicting
    /\ messages' = IF Current
                   THEN update_last_message(Reply(Head(mainQ).turn, "predicted"))
                   ELSE messages
    /\ history' = [history EXCEPT ![chatName] = messages']
    /\ UNCHANGED <<chatName, state, chat, taskVars, nRequests, ghosts>>

\* Mutant of HandleFinish: the button is never given back.
HandleFinishStillPredicting ==
    /\ HeadIs("finish")
    /\ mainQ' = Tail(mainQ)
    /\ messages' = IF Current
                   THEN update_last_message(Reply(Head(mainQ).turn, "predicted"))
                   ELSE messages
    /\ history' = [history EXCEPT ![chatName] = messages']
    /\ UNCHANGED <<chatName, state, predicting, chat, taskVars, nRequests, ghosts>>

\* Mutant of HandleFinish: the transcript is not saved.
HandleFinishUnsaved ==
    /\ HeadIs("finish")
    /\ mainQ' = Tail(mainQ)
    /\ predicting' = FALSE
    /\ messages' = IF Current
                   THEN update_last_message(Reply(Head(mainQ).turn, "predicted"))
                   ELSE messages
    /\ UNCHANGED <<chatName, history, state, chat, taskVars, nRequests, ghosts>>

\* finish_completion
HandleFinish ==
    /\ HeadIs("finish")
    /\ mainQ' = Tail(mainQ)
    /\ predicting' = FALSE
    /\ LET b == Head(mainQ)
           shown == IF Current
                    THEN update_last_message(Reply(b.turn, "predicted"))
                    ELSE messages
       IN messages' = IF b.error THEN Append(shown, ErrorText) ELSE shown
    /\ history' = [history EXCEPT ![chatName] = messages']
    /\ UNCHANGED <<chatName, state, chat, taskVars, nRequests, ghosts>>

\* Mutant of HandleLoaded: a failed load leaves the progress bar up.
HandleLoadedStillLoading ==
    /\ HeadIs("loaded")
    /\ LET b == Head(mainQ)
           good == b.ok /\ chat # NoAI /\ ai[chat].context
           callback == ai[b.ai]
       IN \/ /\ good
             /\ state' = "completed"
             /\ mainQ' = Append(Tail(mainQ), [kind |-> "send", req |-> callback.onLoad,
                                              rag |-> callback.onLoadRag])
             /\ UNCHANGED <<ai, messages, predicting, history, chat, failed>>
          \/ /\ ~good
             /\ stop_predict(Append(messages, ErrorText), TRUE)
             /\ failed' = failed \cup {callback.onLoad}
             /\ mainQ' = Tail(mainQ)
             /\ UNCHANGED state
    /\ UNCHANGED <<chatName, opening, opened, turn, rag, nRequests, cleared>>

\* after_model_load: it looks at the chat that is current now, and answers for the
\* request the callback of the loaded model holds.
HandleLoaded ==
    /\ HeadIs("loaded")
    /\ state' = "completed"
    /\ LET b == Head(mainQ)
           good == b.ok /\ chat # NoAI /\ ai[chat].context
           callback == ai[b.ai]
       IN \/ /\ good
             /\ mainQ' = Append(Tail(mainQ), [kind |-> "send", req |-> callback.onLoad,
                                              rag |-> callback.onLoadRag])
             /\ UNCHANGED <<ai, messages, predicting, history, chat, failed>>
          \/ /\ ~good
             /\ stop_predict(Append(messages, ErrorText), TRUE)
             /\ failed' = failed \cup {callback.onLoad}
             /\ mainQ' = Tail(mainQ)
    /\ UNCHANGED <<chatName, opening, opened, turn, rag, nRequests, cleared>>

\* The Send a load or a retrieval leads to: it goes to the chat selected by then.
HandleSend ==
    /\ HeadIs("send")
    /\ mainQ' = Tail(mainQ)
    /\ Send(Head(mainQ).req, FALSE, Head(mainQ).rag, FALSE)
    /\ UNCHANGED nRequests

HandleRagSearch ==
    /\ HeadIs("ragSearch")
    /\ mainQ' = Tail(mainQ)
    /\ state' = "ragSearch"
    /\ UNCHANGED <<chatName, messages, history, predicting, chat, taskVars, nRequests, ghosts>>

------------------------------------------------------------------------------

\* A chat is selected, nothing was sent yet.
Init ==
    /\ chatName \in Chats
    /\ messages = << >>
    /\ history = [c \in Chats |-> << >>]
    /\ state = "none"
    /\ predicting = FALSE
    /\ chat = NoAI
    /\ ai = [a \in AIs |-> [chat |-> chatName, flagExit |-> FALSE, context |-> FALSE,
                            onLoad |-> 0, onLoadRag |-> FALSE]]
    /\ opening = [a \in AIs |-> 0]
    /\ opened = [a \in AIs |-> 0]
    /\ turn = << >>
    /\ rag = [r \in Requests |-> "none"]
    /\ mainQ = << >>
    /\ nRequests = 0
    /\ failed = {}
    /\ cleared = {}

User == UserSend \/ UserStop \/ CloseChat \/ ClearChat \/ \E c \in Chats : SelectChat(c)

LoadStep(a) == LoadContext(a) \/ LoadDone(a) \/ LoadFail(a)

PredictStep(t) == \/ PredictExit(t) \/ PredictToken(t) \/ PredictPost(t)
                  \/ PredictLimit(t) \/ PredictThrow(t) \/ PredictEnd(t)

RagStep(r) == RagIndexed(r) \/ RagFound(r)

MainStep == HandleToken \/ HandleFinish \/ HandleLoaded \/ HandleSend \/ HandleRagSearch

Next == \/ User
        \/ MainStep
        \/ \E a \in AIs : LoadStep(a)
        \/ \E t \in DOMAIN turn : PredictStep(t)
        \/ \E r \in Requests : RagStep(r)

Spec == Init /\ [][Next]_vars

\* The system keeps running its queues; the user owes it nothing.
Fairness ==
    /\ WF_vars(MainStep)
    /\ \A a \in AIs : WF_vars(LoadStep(a))
    /\ \A t \in Turns : WF_vars(t \in DOMAIN turn /\ PredictStep(t))
    /\ \A r \in Requests : WF_vars(RagStep(r))

FairSpec == Spec /\ Fairness
------------------------------------------------------------------------------
(* Properties *)

\* Every variable has its type; a block or a turn names only turns that were begun.
TypeOK ==
    /\ chatName \in Chats
    /\ messages \in Seq(Message)
    /\ history \in [Chats -> Seq(Message)]
    /\ state \in {"none", "loading", "ragIndexLoading", "ragSearch", "completed"}
    /\ predicting \in BOOLEAN
    /\ chat \in AIs \cup {NoAI}
    /\ ai \in [AIs -> AIRecord]
    /\ opening \in [AIs -> Nat]
    /\ opened \in [AIs -> Nat]
    /\ turn \in Seq(TurnRecord)
    /\ Len(turn) <= MaxRequests
    /\ rag \in [Requests -> {"none", "index", "search"}]
    /\ mainQ \in Seq(Block)
    /\ nRequests \in 0..MaxRequests
    /\ failed \subseteq 0..MaxRequests
    /\ cleared \subseteq Turns

\* The chat list is locked behind a progress bar while state is "loading"
\* (ChatView): it is only ever locked while some load will still report back,
\* however loads, chats and errors are mixed.
LoadingHasLoad ==
    state = "loading" =>
        \/ \E a \in AIs : opening[a] + opened[a] > 0
        \/ InQueue("loaded") # {}

\* The button only shows "stop" while some prediction runs or its completion is
\* on its way: no order of stops, switches and late completions leaves it behind.
PredictingHasTurn ==
    predicting => \/ \E t \in DOMAIN turn : Alive(t)
                  \/ InQueue("finish") # {}

\* While the button shows "stop", the AI it would stop is one of the chat on screen.
PredictingIsHere ==
    predicting /\ chat # NoAI => ai[chat].chat = chatName

SameMessage(m, n) == m.from = n.from /\ m.id = n.id

\* When nothing is in flight the history file holds the transcript; only questions
\* whose Send was refused at once (no model, no configuration) are not on disk yet.
IdleIsSaved ==
    Idle => LET saved == history[chatName]
            IN /\ Len(saved) <= Len(messages)
               /\ \A i \in DOMAIN saved : SameMessage(saved[i], messages[i])
               /\ \A i \in Len(saved) + 1..Len(messages) :
                    messages[i].from = "user"

\* One llama context is never used by two predictions, nor predicted on while a
\* load task still works on it.
ContextNotShared ==
    \A t \in DOMAIN turn : Alive(t) =>
        /\ \A u \in DOMAIN turn : Alive(u) /\ turn[u].ai = turn[t].ai => u = t
        /\ opening[turn[t].ai] + opened[turn[t].ai] = 0

\* While the button shows "stop", pressing it reaches the AI whose turn is running
\* or just completed - unless the chat was cleared under the turn.
StopReachesTurn ==
    predicting /\ chat # NoAI =>
        \/ \E t \in DOMAIN turn : Alive(t) /\ turn[t].ai = chat
        \/ InQueue("finish") # {}

Pending(r) ==
    \/ rag[r] # "none"
    \/ \E a \in AIs : opening[a] + opened[a] > 0 /\ ai[a].onLoad = r
    \/ \E i \in InQueue("loaded") : ai[mainQ[i].ai].onLoad = r
    \/ \E i \in InQueue("send") : mainQ[i].req = r

\* A question is neither lost nor answered twice: it is on its way to a turn, or has
\* begun exactly one, or was refused.
EachRequestOnce ==
    \A r \in 1..nRequests :
        LET begun == {t \in DOMAIN turn : turn[t].req = r}
        IN /\ Cardinality(begun) <= 1
           /\ Pending(r) \/ begun # {} \/ r \in failed
           /\ ~(Pending(r) /\ begun # {})
           /\ ~(r \in failed /\ begun # {})

Shown(msgs) == {msgs[i].id : i \in {j \in DOMAIN msgs : msgs[j].from = "reply"}}

\* A cleared conversation stays cleared: no reply begun before "Clear" shows up in
\* the transcript or in the history file of its chat again.
ClearedStaysCleared ==
    cleared \cap (Shown(messages) \cup UNION {Shown(history[c]) : c \in Chats}) = {}

\* Nothing a finished app still shows as running: once everything is quiet no
\* message of the transcript is left empty or "predicting".
NothingLeftRunning ==
    Idle => \A i \in DOMAIN messages : messages[i].state \notin {"none", "predicting"}

Extends(old, new) ==
    new # << >> => \A i \in DOMAIN old :
        old[i].from = "error" \/ (i \in DOMAIN new /\ SameMessage(old[i], new[i]))

\* No step but Clear takes a question or a reply out of the transcript or the history
\* of a chat, and none is overwritten by another: late tokens and completions only
\* ever touch their own message.
TranscriptKept ==
    [][/\ chatName' = chatName => Extends(messages, messages')
       /\ \A c \in Chats : Extends(history[c], history'[c])]_vars

\* The progress bar goes away: a load that was started always reports back.
LoadEnds == state = "loading" ~> state # "loading"

Stopping(t) == t \in DOMAIN turn /\ Alive(t) /\ ai[turn[t].ai].flagExit

Ended(t) == t \in DOMAIN turn /\ ~Alive(t)

\* A raised exit flag ends the prediction it was raised for.
StopHonoured == \A t \in Turns : Stopping(t) ~> Ended(t)

============================================================================
