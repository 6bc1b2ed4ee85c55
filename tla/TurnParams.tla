----------------------------- MODULE TurnParams -----------------------------
(***************************************************************************)
(* What a model runs with and what outlives it: the configuration files of *)
(* the chats, the parameters installed in a model while it is made, loaded *)
(* and used, the session file a model may resume from and save to, and the *)
(* history files, which the chat window and Shortcuts intents both write.  *)
(*                                                                         *)
(* A configuration is abstracted to its version (stop words, system prompt *)
(* and the like change with every edit), its save_load_state switch and    *)
(* whether its context is small.  An exchange is one question with its     *)
(* reply; nPast counts exchanges, the cache holds the evaluated ones.  The *)
(* turns of one model follow one another here: how the tasks of a model    *)
(* overlap is ChatSession's subject.                                       *)
(***************************************************************************)
EXTENDS Naturals, FiniteSets

CONSTANTS
    Chats,          \* the chats that have a configuration file at the start
    NoChat,         \* no chat: the empty path, the owner of the default parameters
    Models,         \* identities of the AI objects with their models that are alive at once
    NoModel,        \* self.chat == nil
    MaxExchanges,   \* bound: questions asked by the user and by intents
    MaxEdits,       \* bound: settings saved
    Room,           \* bound: exchanges that fit into a small and into a large context
    Setups          \* what a behaviour may have, with bounds of its own on both

\* "overlap": the user leaves a chat while its model is loading; "intents": questions from
\* Shortcuts in chats that neither the screen nor another intent uses meanwhile; "intents
\* anywhere": in any chat; "context": edits that change the context length; "clip": a load
\* that fails once the context exists (load_clip_model).
Possible == {"overlap", "intents", "intents anywhere", "context", "clip"}

ASSUME TurnParamsAssumption ==
    /\ Chats # {} /\ NoChat \notin Chats /\ NoModel \notin Models
    /\ MaxExchanges \in Nat /\ MaxEdits \in Nat
    /\ Room \in [BOOLEAN -> Nat \ {0}]
    /\ Setups \subseteq [may : SUBSET Possible, exchanges : 0..MaxExchanges, edits : 0..MaxEdits]

VARIABLES
    setup,      \* one of Setups
    config,     \* the chats directory: one configuration per chat
    history,    \* the history files: the exchanges of each chat
    session,    \* the chat_states directory: the session file of each chat
    chatName,   \* AIChatModel.chat_name
    messages,   \* AIChatModel.messages, as exchanges
    chat,       \* AIChatModel.chat
    model,      \* the models with their parameters
    retained,   \* LLaMa_obj: the model that last began to load
    resend,     \* Send tasks started by after_model_load: their exchanges
    asked,      \* history variable: the chat each exchange was asked in
    cleared     \* history variable: what a chat's models and session held when it was cleared

files == <<setup, config, history, session>>
screen == <<chatName, messages, chat, resend>>
ghosts == <<asked, cleared>>
vars == <<files, screen, model, retained, ghosts>>

Exchanges == 1..MaxExchanges
Asked == {e \in Exchanges : asked[e] # NoChat}
AskedIn(c) == {e \in Exchanges : asked[e] = c}

------------------------------------------------------------------------------
(* Values *)

Configuration == [exists : BOOLEAN, version : 0..MaxEdits, save : BOOLEAN, small : BOOLEAN]

\* ModelAndContextParams: whose configuration, which version of it, context,
\* save_load_state and state_dump_path (the chat whose session file it names).
Params == [of : Chats \cup {NoChat}, version : 0..MaxEdits, small : BOOLEAN,
           save : BOOLEAN, path : Chats \cup {NoChat}]

\* A session file: the past it claims (its last token) and the cells it holds.
NoSession == [exists |-> FALSE, nPast |-> 0, cache |-> {}]
Sessions == [exists : BOOLEAN, nPast : Nat, cache : SUBSET Exchanges]

\* An AI object with its model: parameters, where its load stands, whether it has a
\* context and how large, nPast and the cache, the exchange its load callback sends,
\* the exchange being predicted and the one an intent asks (0: none), and the transcript
\* an intent goes on from.
ModelRecord == [chat : Chats \cup {NoChat}, params : Params,
                load : {"idle", "queued", "opening", "opened", "restored"},
                context : BOOLEAN, small : BOOLEAN,
                nPast : Nat, cache : SUBSET Exchanges,
                onLoad : 0..MaxExchanges, turn : 0..MaxExchanges,
                intent : 0..MaxExchanges, transcript : SUBSET Exchanges]

\* ModelAndContextParams.default, which AIChatModel.model_context_param stays at.
DefaultParams == [of |-> NoChat, version |-> 0, small |-> FALSE, save |-> TRUE,
                  path |-> NoChat]

\* get_model_context_param_by_config: never a state_dump_path.
ConfigParams(c, cfg) == [of |-> c, version |-> cfg[c].version, small |-> cfg[c].small,
                         save |-> cfg[c].save, path |-> NoChat]

MadeModel(c, p) == [chat |-> c, params |-> p, load |-> "idle", context |-> FALSE,
                    small |-> FALSE, nPast |-> 0, cache |-> {}, onLoad |-> 0, turn |-> 0,
                    intent |-> 0, transcript |-> {}]

Unused == MadeModel(NoChat, DefaultParams)

------------------------------------------------------------------------------
(* Session files *)

Saves(r) == r.params.save /\ r.params.path # NoChat /\ r.context

\* LLaMa.save_state over the session files s.
SaveState(s, r) ==
    IF Saves(r)
    THEN [s EXCEPT ![r.params.path] = [exists |-> TRUE, nPast |-> r.nPast, cache |-> r.cache]]
    ELSE s

\* LLaMa.load_state: nPast is the last token of the file; the cells come with it
\* unless the cache is too small for them (llama_state_load_file's result is dropped).
Restored(r, s) ==
    IF r.params.save /\ r.params.path # NoChat /\ s[r.params.path].exists
    THEN LET f == s[r.params.path]
         IN  [r EXCEPT !.nPast = f.nPast,
                       !.cache = IF Cardinality(f.cache) <= Room[r.small] THEN f.cache ELSE {}]
    ELSE r

\* Predict: the exchange e enters the cache; at the end of the context the shift
\* gives up an older one.
Evaluated(r, e) ==
    IF r.nPast < Room[r.small]
    THEN {[r EXCEPT !.nPast = @ + 1, !.cache = @ \cup {e}]}
    ELSE {[r EXCEPT !.nPast = Room[r.small], !.cache = (@ \ {d}) \cup {e}] :
             d \in IF r.cache = {} THEN {e} ELSE r.cache}

\* The chat window, its load tasks and predictions, and an intent hold an object.
Held(ms, c, m) == c = m \/ ms[m].load # "idle" \/ ms[m].turn # 0 \/ ms[m].intent # 0

\* The step leaves the models ms, the current one c, the session files s and k as the
\* model LLaMa_obj retains: an object nothing else holds is deallocated, and deinit saves
\* its session.
Release(ms, c, s, k) ==
    LET gone == {m \in Models : ms[m].chat # NoChat /\ ~Held(ms, c, m) /\ m # k}
        Savers(x) == {m \in gone : Saves(ms[m]) /\ ms[m].params.path = x}
    IN  /\ chat' = c /\ retained' = k
        /\ model' = [m \in Models |-> IF m \in gone THEN Unused ELSE ms[m]]
        /\ \E last \in [Chats -> Models \cup {NoModel}] :
              /\ \A x \in Chats : IF Savers(x) = {} THEN last[x] = NoModel
                                                    ELSE last[x] \in Savers(x)
              /\ session' = [x \in Chats |->
                    IF last[x] = NoModel THEN s[x] ELSE SaveState(s, ms[last[x]])[x]]

\* save_chat_history_and_state, the session half: the current model's.
SavedByScreen == IF chat = NoModel THEN session ELSE SaveState(session, model[chat])

------------------------------------------------------------------------------
(* Pieces of AIChatModel *)

\* Mutant of UpdateChatParams: the configuration of the chat on the screen.
UpdateChatParamsOfScreen(ms, cfg) ==
    IF chat # NoModel /\ cfg[chatName].exists
    THEN [ms EXCEPT ![chat].params = ConfigParams(chatName, cfg)]
    ELSE ms

\* update_chat_params: the current object gets its own chat's configuration anew.
UpdateChatParams(ms, cfg) ==
    IF chat # NoModel /\ cfg[ms[chat].chat].exists
    THEN [ms EXCEPT ![chat].params = ConfigParams(ms[chat].chat, cfg)]
    ELSE ms

\* Send drops an object made for another chat.
Kept == IF chat # NoModel /\ model[chat].chat = chatName THEN chat ELSE NoModel

\* load_model_by_chat_name_prepare: a new object with the chat's parameters.
Prepared(m) == IF Kept # NoModel THEN model
               ELSE [model EXCEPT ![m] = MadeModel(chatName, ConfigParams(chatName, config))]

Free == {m \in Models : model[m].chat = NoChat}
Usable == IF Kept # NoModel THEN {Kept} ELSE Free

\* load_model_by_chat_name: name the session file if the switch is on, start the load.
LoadStarted(ms, m, e) ==
    [ms EXCEPT ![m].params.path = IF ms[m].params.save THEN chatName ELSE @,
               ![m].load = "queued",
               ![m].onLoad = e]

\* Mutant of Send: the object of another chat is used as it is.
SendToAnyModel(e) ==
    /\ UNCHANGED <<session, retained>>
    /\ \E m \in IF chat # NoModel THEN {chat} ELSE Usable :
          LET ms == IF chat # NoModel THEN model ELSE Prepared(m)
          IN  IF ms[m].context
              THEN ms[m].turn = 0 /\ model' = [ms EXCEPT ![m].turn = e] /\ chat' = m
              ELSE ms[m].load = "idle" /\ model' = LoadStarted(ms, m, e) /\ chat' = m

\* Send: refuse without a configuration; load without a context; else predict.
Send(e) ==
    \/ /\ Kept = NoModel /\ ~config[chatName].exists
       /\ Release(model, NoModel, session, retained)
    \/ /\ Kept # NoModel \/ config[chatName].exists
       /\ \E m \in Usable :
             LET ms == Prepared(m)
             IN  IF ms[m].context
                 THEN ms[m].turn = 0 /\ Release([ms EXCEPT ![m].turn = e], m, session, retained)
                 ELSE ms[m].load = "idle" /\ Release(LoadStarted(ms, m, e), m, session, retained)

\* stop_predict(is_error: true) of finish_load: save, then give the object up.
GiveUp(ms) ==
    /\ history' = [history EXCEPT ![chatName] = messages]
    /\ Release(ms, NoModel, SavedByScreen, retained)

Loading == \E m \in Models : model[m].load # "idle"

------------------------------------------------------------------------------
(* The user *)

\* The first exchange number not in use.
NextExchange == Cardinality(Asked) + 1

Ask(e, c) == e <= setup.exchanges /\ asked' = [asked EXCEPT ![e] = c]

UserSend ==
    LET e == NextExchange
    IN  /\ \A m \in Models : model[m].turn = 0
        /\ resend = {} /\ ("overlap" \in setup.may \/ ~Loading)
        /\ Ask(e, chatName)
        /\ messages' = messages \cup {e}
        /\ Send(e)
        /\ UNCHANGED <<setup, config, history, chatName, resend, cleared>>

\* An intent has a question in the chat that is not answered yet.
AskedByIntent(c) == \E m \in Models : model[m].intent # 0 /\ model[m].chat = c

\* stop_predict, from the Stop button or when the chat closes: history and session
\* are saved.  The flag it raises is ChatSession's.
StopPredict ==
    /\ "overlap" \in setup.may \/ ~(Loading \/ resend # {})
    /\ history' = [history EXCEPT ![chatName] = messages]
    /\ session' = SavedByScreen
    /\ UNCHANGED <<setup, config, screen, model, retained, ghosts>>

\* Mutant of SelectChat: the name changes before the transcript is saved.
SelectChatNameFirst(c) ==
    /\ history' = [history EXCEPT ![c] = messages]
    /\ session' = SavedByScreen
    /\ chatName' = c
    /\ messages' = history'[c]
    /\ UNCHANGED <<setup, config, chat, model, retained, resend, ghosts>>

\* reload_chat, with the save of stop_predict under the old name.
SelectChat(c) ==
    /\ "overlap" \in setup.may \/ ~(Loading \/ resend # {})
    /\ "intents anywhere" \in setup.may \/ ~AskedByIntent(c)
    /\ history' = [history EXCEPT ![chatName] = messages]
    /\ session' = SavedByScreen
    /\ chatName' = c
    /\ messages' = history'[c]
    /\ UNCHANGED <<setup, config, chat, model, retained, resend, ghosts>>

\* What the models of the chat and its session file hold.
Remembered(c) ==
    session[c].cache \cup UNION {model[m].cache : m \in {n \in Models : model[n].chat = c}}

\* The Clear button, with hard_reload_chat: the session file goes, the current model
\* is told not to save and dropped.
ClearChat ==
    LET ms == IF chat = NoModel THEN model ELSE [model EXCEPT ![chat].params.save = FALSE]
    IN  /\ messages' = {}
        /\ history' = [history EXCEPT ![chatName] = {}]
        /\ cleared' = cleared \cup Remembered(chatName)
        /\ Release(ms, NoModel, [session EXCEPT ![chatName] = NoSession], retained)
        /\ UNCHANGED <<setup, config, chatName, resend, asked>>

\* save_chat_settings of the chat on the screen: write the file, then refresh the list.
EditSettings(save, small) ==
    /\ config[chatName].exists /\ config[chatName].version < setup.edits
    /\ "context" \in setup.may \/ small = config[chatName].small
    /\ config' = [config EXCEPT ![chatName] =
         [exists |-> TRUE, version |-> @.version + 1, save |-> save, small |-> small]]
    /\ model' = UpdateChatParams(model, config')
    /\ UNCHANGED <<setup, history, session, screen, retained, ghosts>>

\* refresh_chat_list on its own (the list appears, a chat is duplicated), and the
\* block save_chat_settings leaves in the main queue.
RefreshChatList ==
    /\ model' = UpdateChatParams(model, config)
    /\ UNCHANGED <<files, screen, retained, ghosts>>

\* deleteChats: only the configuration file goes.
DeleteChat(c) ==
    /\ config[c].exists
    /\ config' = [config EXCEPT ![c].exists = FALSE]
    /\ model' = UpdateChatParams(model, config')
    /\ UNCHANGED <<setup, history, session, screen, retained, ghosts>>

------------------------------------------------------------------------------
(* Loading and predicting *)

\* llm_load_model begins: it reads the context length and takes over LLaMa_obj, whose old
\* model is deallocated if nothing else holds it.
LoadBegin(m) ==
    /\ model[m].load = "queued"
    /\ Release([model EXCEPT ![m].load = "opening", ![m].small = model[m].params.small],
               chat, session, m)
    /\ UNCHANGED <<setup, config, history, chatName, messages, resend, ghosts>>

\* llama_init_from_model: from here on main sees a context.
LoadContext(m) ==
    /\ model[m].load = "opening"
    /\ model' = [model EXCEPT ![m].load = "opened", ![m].context = TRUE]
    /\ UNCHANGED <<files, screen, retained, ghosts>>

LoadState(m) ==
    /\ model[m].load = "opened"
    /\ model' = [model EXCEPT ![m] = [Restored(@, session) EXCEPT !.load = "restored"]]
    /\ UNCHANGED <<files, screen, retained, ghosts>>

\* The completion block of m on the main queue: after_model_load works on whatever
\* object is current, installs the default parameters and sends again.
LoadDone(m) ==
    LET ms == [model EXCEPT ![m].load = "idle"]
    IN  /\ model[m].load = "restored"
        /\ \/ /\ chat # NoModel /\ model[chat].context
              /\ resend' = resend \cup {model[m].onLoad}
              /\ Release([ms EXCEPT ![chat].params = DefaultParams], chat, session, retained)
              /\ UNCHANGED history
           \/ /\ chat # NoModel => ~model[chat].context
              /\ GiveUp(ms)
              /\ UNCHANGED resend
        /\ UNCHANGED <<setup, config, chatName, messages, ghosts>>

\* load_model throws, before the context exists or after it (the CLIP model).
LoadFail(m) ==
    /\ model[m].load \in {"opening"} \cup (IF "clip" \in setup.may THEN {"opened"} ELSE {})
    /\ GiveUp([model EXCEPT ![m].load = "idle"])
    /\ UNCHANGED <<setup, config, chatName, messages, resend, ghosts>>

\* The task after_model_load starts.
SendAgain(e) ==
    /\ e \in resend
    /\ resend' = resend \ {e}
    /\ Send(e)
    /\ UNCHANGED <<setup, config, history, chatName, messages, ghosts>>

\* Predict runs to its end and finish_completion saves history and session.
FinishTurn(m) ==
    /\ model[m].turn # 0
    /\ \E r \in Evaluated(model[m], model[m].turn) :
          LET ms == [model EXCEPT ![m] = [r EXCEPT !.turn = 0]]
          IN  Release(ms, chat, IF chat = NoModel THEN session ELSE SaveState(session, ms[chat]), retained)
    /\ history' = [history EXCEPT ![chatName] = messages]
    /\ UNCHANGED <<setup, config, chatName, messages, resend, ghosts>>

------------------------------------------------------------------------------
(* OneShortQuery: an intent with an object of its own, on the main thread.  Between its two *)
(* steps it may wait for the document index (useRag).                                       *)

MayAsk(c) ==
    /\ config[c].exists
    /\ \/ "intents anywhere" \in setup.may
       \/ "intents" \in setup.may /\ c # chatName /\ ~AskedByIntent(c)

\* The model an intent prepares and loads in chat c, over the session files s.
Loaded(c, useHistory, e, s) ==
    LET p == [ConfigParams(c, config) EXCEPT !.save = @ /\ useHistory,
                                     !.path = IF useHistory THEN c ELSE NoChat]
    IN  Restored([MadeModel(c, p) EXCEPT
                     !.context = TRUE, !.small = config[c].small, !.intent = e,
                     !.transcript = IF useHistory THEN history[c] \cup {e} ELSE {}], s)

\* The session files once the model LLaMa_obj retains has given way.
AfterRetained ==
    IF retained # NoModel /\ ~Held(model, chat, retained)
    THEN SaveState(session, model[retained]) ELSE session

\* Mutant of IntentBegin: the session is not read.
IntentBeginUnread(c, useHistory) ==
    LET e == NextExchange
    IN  /\ MayAsk(c)
        /\ Ask(e, c)
        /\ \E m \in Free :
              Release([model EXCEPT ![m] = Loaded(c, useHistory, e, [x \in Chats |-> NoSession])],
                      chat, session, m)
        /\ UNCHANGED <<setup, config, history, chatName, messages, resend, cleared>>

\* Up to loadModel_sync: the history is read, the old model saves, the session is read.
IntentBegin(c, useHistory) ==
    LET e == NextExchange
    IN  /\ MayAsk(c)
        /\ Ask(e, c)
        /\ \E m \in Free :
              Release([model EXCEPT ![m] = Loaded(c, useHistory, e, AfterRetained)], chat, session, m)
        /\ UNCHANGED <<setup, config, history, chatName, messages, resend, cleared>>

\* From Predict on: with use_history the transcript read at the beginning is saved, the
\* exchange added, and the session with it.
IntentAnswer(m) ==
    /\ model[m].intent # 0
    /\ \E r \in Evaluated(model[m], model[m].intent) :
          LET ms == [model EXCEPT ![m] = [r EXCEPT !.intent = 0, !.transcript = {}]]
          IN  Release(ms, chat, SaveState(session, ms[m]), retained)
    /\ history' = IF model[m].params.path = NoChat THEN history
                  ELSE [history EXCEPT ![model[m].chat] = model[m].transcript]
    /\ UNCHANGED <<setup, config, chatName, messages, resend, ghosts>>

------------------------------------------------------------------------------
Init ==
    /\ setup \in Setups
    /\ \E save \in [Chats -> BOOLEAN] :
          config = [c \in Chats |->
                      [exists |-> TRUE, version |-> 0, save |-> save[c], small |-> FALSE]]
    /\ history = [c \in Chats |-> {}]
    /\ session = [c \in Chats |-> NoSession]
    /\ chatName \in Chats
    /\ messages = {}
    /\ chat = NoModel
    /\ model = [m \in Models |-> Unused]
    /\ retained = NoModel
    /\ resend = {}
    /\ asked = [e \in Exchanges |-> NoChat]
    /\ cleared = {}

Next ==
    \/ UserSend \/ StopPredict \/ ClearChat \/ RefreshChatList
    \/ \E c \in Chats : SelectChat(c) \/ DeleteChat(c)
    \/ \E save, small \in BOOLEAN : EditSettings(save, small)
    \/ \E m \in Models : LoadBegin(m) \/ LoadContext(m) \/ LoadState(m) \/ LoadDone(m) \/ LoadFail(m)
    \/ \E m \in Models : FinishTurn(m) \/ IntentAnswer(m)
    \/ \E e \in Exchanges : SendAgain(e)
    \/ \E c \in Chats, useHistory \in BOOLEAN : IntentBegin(c, useHistory)

Spec == Init /\ [][Next]_vars

------------------------------------------------------------------------------
(* Properties *)

\* Every variable has its type.
TypeOK ==
    /\ setup \in Setups
    /\ config \in [Chats -> Configuration]
    /\ history \in [Chats -> SUBSET Exchanges]
    /\ session \in [Chats -> Sessions]
    /\ chatName \in Chats /\ messages \in SUBSET Exchanges
    /\ chat \in Models \cup {NoModel} /\ retained \in Models \cup {NoModel}
    /\ model \in [Models -> ModelRecord]
    /\ resend \in SUBSET Exchanges
    /\ asked \in [Exchanges -> Chats \cup {NoChat}]
    /\ cleared \in SUBSET Exchanges

\* A model never runs with the configuration of another chat, whatever is selected,
\* loaded, edited or refreshed in between (AIChatModel.update_chat_params).
ParamsOfItsChat ==
    \A m \in Models : model[m].params.of \in {NoChat, model[m].chat}

\* Saved settings reach the model in use: when it runs with a configuration at all, it
\* is the one on disk (ChatSettingsView.save_chat_settings, update_chat_params).
SettingsReachModel ==
    chat # NoModel =>
        LET p == model[chat].params
        IN  p.of # NoChat /\ config[p.of].exists => p.version = config[p.of].version

\* Together: every model runs with its own chat's parameters, as they are on disk.
ParamsCorrect == TypeOK /\ ParamsOfItsChat /\ SettingsReachModel

\* When loads do not overlap, a session file and the model in use hold exchanges of their
\* own chat only, across selection, intents, edits and reloads (LLaMa.save_state,
\* load_state, AIChatModel.Send).
DialogOfItsChat ==
    "overlap" \notin setup.may =>
    /\ \A c \in Chats : session[c].cache \subseteq AskedIn(c)
    /\ chat # NoModel => model[chat].cache \subseteq AskedIn(model[chat].chat)

\* As long as no context shrinks, a model that resumes a session has in its cache the past
\* that nPast claims.
ResumedDialogIsInCache ==
    "context" \notin setup.may => \A m \in Models : model[m].load = "restored" =>
        model[m].nPast = Cardinality(model[m].cache)

\* Together: what a model has read is its own chat's dialog, and all it believes it to be.
DialogCorrect == DialogOfItsChat /\ ResumedDialogIsInCache

\* "Clear chat" resets the state of the chat: what its models and its session file held
\* then is in no session file and not in the model in use after (hard_reload_chat).
ClearedStaysCleared ==
    /\ \A c \in Chats : session[c].cache \cap cleared = {}
    /\ chat # NoModel => model[chat].cache \cap cleared = {}

\* A session file whose past leaves room in the context is replaced only by one that knows
\* the same exchanges, whatever is retained, loaded, cleared and asked by Shortcuts in chats
\* nothing else uses meanwhile: neither a late deinit nor an intent drops the dialog a later
\* load would resume.  (Without room the context shift gives up the oldest.)
SessionKeepsDialog ==
    [][setup.may \cap {"overlap", "clip", "context", "intents anywhere"} = {} =>
        \A c \in Chats :
            session[c].exists /\ session[c].nPast < Room[FALSE] /\ session'[c].exists =>
                session[c].cache \subseteq session'[c].cache]_vars

\* Where the screen and the intents keep out of one another's chats, only the Clear button
\* takes exchanges out of a history file: what an intent wrote survives every later save of
\* the chat window, and the other way round (save_chat_history_and_state, OneShortQuery).
HistoryOnlyGrows ==
    [][\/ ClearChat
       \/ "intents anywhere" \in setup.may
       \/ \A c \in Chats : history[c] \subseteq history'[c]]_vars

\* A prediction runs with the configuration of its chat: its stop words, system prompt
\* and sampling parameters.
TurnUsesItsConfiguration ==
    \A m \in Models : model[m].turn # 0 => model[m].params.of = model[m].chat

=============================================================================
