-------------------------- MODULE PatientUserProofs --------------------------
(***************************************************************************)
(* Proofs about ChatSession with a user who sends the next question when   *)
(* the app is quiet.  Whatever else this user does meanwhile, one piece of *)
(* work is in flight at a time: a retrieval, a load, the callback of       *)
(* either, or a turn; and what a turn leaves in the transcript is its own. *)
(***************************************************************************)
EXTENDS ChatSessionProofs, FiniteSetTheorems

USE ChatSessionAssumption DEF uiVars, taskVars, ghosts, Requests, Turns

------------------------------------------------------------------------------
(* One piece of work *)

NoRag == \A r \in Requests : rag[r] = "none"
NoLoad == \A a \in AIs : opening[a] = 0 /\ opened[a] = 0
NoTurn == \A t \in DOMAIN turn : ~Alive(t)

\* GenerateRagLLMQuery runs for the last question.
Retrieving ==
    /\ NoLoad /\ NoTurn
    /\ \A r \in Requests : rag[r] # "none" <=> r = nRequests
    /\ \A i \in DOMAIN mainQ : mainQ[i].kind = "ragSearch"

\* One model is loading, for the last question.
Loading ==
    /\ NoRag /\ NoTurn /\ mainQ = << >>
    /\ \E a \in AIs :
          /\ ai[a].onLoad = nRequests
          /\ opening[a] + opened[a] = 1
          /\ \A b \in AIs \ {a} : opening[b] = 0 /\ opened[b] = 0

\* A load has ended and reports back.
Loaded ==
    /\ NoRag /\ NoLoad /\ NoTurn
    /\ \E a \in AIs, ok \in BOOLEAN :
          /\ mainQ = << [kind |-> "loaded", ai |-> a, ok |-> ok] >>
          /\ ai[a].onLoad = nRequests

\* The second Send of the last question is due.
Sending ==
    /\ NoRag /\ NoLoad /\ NoTurn
    /\ mainQ # << >> /\ mainQ[Len(mainQ)].kind = "send" /\ mainQ[Len(mainQ)].req = nRequests
    /\ \A i \in 1..Len(mainQ) - 1 : mainQ[i].kind = "ragSearch"

\* The last turn answers the last question, or its blocks are still to be handled.
Turning ==
    /\ NoRag /\ NoLoad
    /\ turn # << >> /\ turn[Len(turn)].req = nRequests
    /\ \A t \in DOMAIN turn : Alive(t) => t = Len(turn)
    /\ \A i \in DOMAIN mainQ : mainQ[i].kind \in {"token", "finish"} /\ mainQ[i].turn = Len(turn)
    /\ ~Alive(Len(turn)) /\ mainQ # << >> => mainQ[Len(mainQ)].kind = "finish"

Begun(r) == \E t \in DOMAIN turn : turn[t].req = r

OnItsWay == nRequests > 0 /\ ~Begun(nRequests) /\ nRequests \notin failed
Dealt == nRequests > 0 => Begun(nRequests) \/ nRequests \in failed

OneWork ==
    \/ OnItsWay /\ (Retrieving \/ Loading \/ Loaded \/ Sending)
    \/ Dealt /\ (Turning \/ Idle)

\* The questions before the last one were answered or refused, none of them twice.
EarlierDealt ==
    /\ \A t \in DOMAIN turn : turn[t].req \in 1..nRequests
    /\ \A t, u \in DOMAIN turn : turn[t].req = turn[u].req => t = u
    /\ failed \subseteq 1..nRequests
    /\ \A r \in failed : ~Begun(r)
    /\ \A r \in 1..nRequests - 1 : Begun(r) \/ r \in failed

WorkInv == OneWork /\ EarlierDealt

------------------------------------------------------------------------------
(* The transcript *)

\* The object in use is the one the last turn runs on, and no other chat's.
TurnIsHere ==
    TurnInFlight =>
        LET last == turn[Len(turn)]
        IN  /\ chat \in {NoAI, last.ai} /\ ai[last.ai].chat = last.chat
            /\ Len(turn) \in cleared => chat = NoAI

\* The transcript of chat c: on the screen, or in its file.
Text(c) == IF c = chatName THEN messages ELSE history[c]

\* A text that ends with an error or with the reply of turn t.
Placed(text, t) ==
    /\ text # << >>
    /\ LET last == text[Len(text)]
       IN  last.from = "error" \/ (last.from = "reply" /\ last.id = t)

\* What the last turn writes goes where its own reply (or an error) is.
TurnHasPlace ==
    TurnInFlight /\ Len(turn) \notin cleared =>
        Placed(Text(turn[Len(turn)].chat), Len(turn))

\* A reply is in the transcript of the chat its turn was begun in.
RepliesOf(c) == {t \in DOMAIN turn : turn[t].chat = c}
RepliesAtHome ==
    /\ Shown(messages) \subseteq RepliesOf(chatName)
    /\ \A c \in Chats : Shown(history[c]) \subseteq RepliesOf(c)
    /\ cleared \subseteq DOMAIN turn

\* The file of the chat on the screen is the beginning of its transcript.
Begins(old, new) ==
    \A i \in DOMAIN old :
        old[i].from = "error" \/ (i \in DOMAIN new /\ SameMessage(old[i], new[i]))

FileBegins == Begins(history[chatName], messages)

\* A message that is shown as running is the last one, and its end is on the way.
RunningEnds ==
    \A i \in DOMAIN messages :
        messages[i].state \in {"none", "predicting"} =>
            i = Len(messages) /\ Current /\ TurnInFlight

TextInv == TurnIsHere /\ TurnHasPlace /\ RepliesAtHome /\ FileBegins /\ RunningEnds

------------------------------------------------------------------------------
(* The work in flight: lemmas *)

\* A turn that is begun becomes the last one.
LEMMA AppendTurn ==
  ASSUME TypeOK, NEW n, turn' = Append(turn, n)
  PROVE  /\ Len(turn') = Len(turn) + 1 /\ DOMAIN turn' = 1..Len(turn')
         /\ turn'[Len(turn')] = n /\ turn' # << >> /\ Len(turn') \in DOMAIN turn'
         /\ Len(turn') \notin DOMAIN turn
         /\ \A t \in DOMAIN turn : t \in DOMAIN turn' /\ turn'[t] = turn[t]
         /\ \A t \in DOMAIN turn' : t = Len(turn') \/ t \in DOMAIN turn
<1>1. turn \in Seq(TurnRecord) /\ Len(turn) \in Nat /\ DOMAIN turn = 1..Len(turn)
  BY TurnFacts DEF TypeOK
<1>2. /\ Len(turn') = Len(turn) + 1 /\ DOMAIN turn' = 1..Len(turn) + 1
      /\ turn'[Len(turn) + 1] = n
      /\ \A t \in 1..Len(turn) : turn'[t] = turn[t]
  BY <1>1
<1>3. Len(turn) + 1 \in 1..Len(turn) + 1 /\ Len(turn) + 1 \notin 1..Len(turn)
  BY <1>1
<1>4. /\ 1..Len(turn) \subseteq 1..Len(turn) + 1
      /\ \A t \in 1..Len(turn) + 1 : t = Len(turn) + 1 \/ t \in 1..Len(turn)
  BY <1>1
<1>5. turn' # << >>
  BY <1>2, <1>3
<1> QED
  BY <1>1, <1>2, <1>3, <1>4, <1>5

\* The last question is one of those the model allows.
LEMMA RequestFacts ==
  ASSUME TypeOK
  PROVE  /\ nRequests \in Nat /\ nRequests <= MaxRequests
         /\ nRequests > 0 => nRequests \in Requests /\ nRequests \in 1..nRequests
<1>1. nRequests \in 0..MaxRequests
  BY DEF TypeOK
<1> QED
  BY <1>1

\* What the work in flight consists of: a user who does not send leaves all of it alone.
WorkKept ==
    /\ UNCHANGED <<opening, opened, turn, rag, mainQ, nRequests, failed>>
    /\ \A a \in AIs : ai'[a].onLoad = ai[a].onLoad

\* A step that leaves all work as it is keeps the invariant about it.
LEMMA WorkKeptStep ==
  ASSUME WorkKept, WorkInv
  PROVE  WorkInv'
<1> USE DEF WorkKept, Begun, Alive
<1>1. Retrieving => Retrieving'
  BY DEF Retrieving, NoLoad, NoTurn
<1>2. Loading => Loading'
  BY DEF Loading, NoRag, NoTurn
<1>3. Loaded => Loaded'
  BY DEF Loaded, NoRag, NoTurn, NoLoad
<1>4. Sending => Sending'
  BY DEF Sending, NoRag, NoTurn, NoLoad
<1>5. Turning => Turning'
  BY DEF Turning, NoRag, NoLoad
<1>6. Idle => Idle'
  BY DEF Idle
<1>7. (OnItsWay => OnItsWay') /\ (Dealt => Dealt')
  BY DEF OnItsWay, Dealt
<1>8. EarlierDealt'
  BY DEF EarlierDealt, WorkInv
<1> QED
  BY <1>1, <1>2, <1>3, <1>4, <1>5, <1>6, <1>7, <1>8 DEF WorkInv, OneWork

\* What a turn was begun for does not change while it runs.
TurnsKept == DOMAIN turn' = DOMAIN turn /\ \A t \in DOMAIN turn : turn'[t].req = turn[t].req

\* Questions before the last stay dealt with while turns stay.
LEMMA EarlierKept ==
  ASSUME TypeOK, EarlierDealt, TurnsKept, nRequests' = nRequests,
         failed' = failed \/ (failed' = failed \cup {nRequests} /\ OnItsWay)
  PROVE  EarlierDealt'
<1>1. \A r : Begun(r)' <=> Begun(r)
  BY DEF TurnsKept, Begun
<1>2. failed \subseteq 1..nRequests /\ \A r \in failed : ~Begun(r)
  BY DEF EarlierDealt
<1>3. failed' \subseteq 1..nRequests /\ \A r \in failed' : ~Begun(r)
  BY <1>2, RequestFacts DEF OnItsWay
<1> QED
  BY <1>1, <1>2, <1>3 DEF TurnsKept, EarlierDealt

\* Only the last question can be on its way, and nothing is once the app is quiet.
LEMMA IdleIsDealt ==
  ASSUME TypeOK, OneWork, Idle
  PROVE  Dealt
<1>1. nRequests > 0 => nRequests \in Requests
  BY RequestFacts
<1>2. nRequests > 0 => ~Retrieving
  BY <1>1 DEF Retrieving, Idle
<1>3. ~Loading
  BY DEF Loading, Idle
<1>4. ~Loaded
  BY DEF Loaded, Idle
<1>5. ~Sending
  BY DEF Sending, Idle
<1> QED
  BY <1>2, <1>3, <1>4, <1>5 DEF OneWork, OnItsWay

------------------------------------------------------------------------------
(* The work in flight: Send *)

\* A Send that finds everything quiet answers, refuses or starts work on its question.
LEMMA SendStarts ==
  ASSUME TypeOK, NEW r \in Requests, NEW append, NEW asRag, NEW useRag,
         Send(r, append, asRag, useRag),
         NoRag, NoLoad, NoTurn, mainQ' = << >>, nRequests' = r, ~Begun(r), r \notin failed
  PROVE  OneWork'
<1> DEFINE n(c) == [ai |-> c, req |-> r, chat |-> chatName, pc |-> "run"]
<1>q. nRequests' > 0 /\ opened' = opened
  BY DEF Send
<1>k. turn' = turn => NoTurn' /\ ~Begun(r)'
  BY DEF NoTurn, Alive, Begun
<1>1. CASE SendRefused(r)
  <2>1. Dealt'
    BY <1>1 DEF SendRefused, Dealt
  <2>2. Idle'
    BY <1>1, <1>q, <1>k DEF SendRefused, Idle, NoLoad, NoRag, NoTurn
  <2> QED
    BY <2>1, <2>2 DEF OneWork
<1>2. ASSUME NEW c \in IF Kept # NoAI THEN {Kept} ELSE Free, StartRag(r, c)
      PROVE  OneWork'
  <2>1. OnItsWay'
    BY <1>2, <1>q, <1>k DEF StartRag, OnItsWay
  <2>2. rag'[r] = "index" /\ \A x \in Requests \ {r} : rag'[x] = rag[x]
    BY <1>2 DEF StartRag, TypeOK
  <2>3. Retrieving'
    BY <1>2, <1>q, <1>k, <2>2 DEF StartRag, Retrieving, NoLoad, NoRag
  <2> QED
    BY <2>1, <2>3 DEF OneWork
<1>3. ASSUME NEW c \in IF Kept # NoAI THEN {Kept} ELSE Free, StartLoad(r, asRag, c)
      PROVE  OneWork'
  <2>1. OnItsWay'
    BY <1>3, <1>q, <1>k DEF StartLoad, OnItsWay
  <2>2. c \in AIs /\ Objects(c) \in [AIs -> AIRecord]
    BY ObjectsType
  <2>3. ai'[c].onLoad = r
    BY <1>3, <2>2 DEF StartLoad, AIRecord
  <2>4. opening'[c] = 1 /\ \A b \in AIs \ {c} : opening'[b] = 0
    BY <1>3, <2>2 DEF StartLoad, NoLoad, TypeOK
  <2>5. \A b \in AIs : opened'[b] = 0
    BY <1>q DEF NoLoad
  <2>6. NoRag' /\ NoTurn' /\ mainQ' = << >>
    BY <1>3, <1>k DEF StartLoad, NoRag
  <2>7. Loading'
    BY <2>2, <2>3, <2>4, <2>5, <2>6 DEF Loading
  <2> QED
    BY <2>1, <2>7 DEF OneWork
<1>4. ASSUME NEW c \in IF Kept # NoAI THEN {Kept} ELSE Free, StartTurn(r, c)
      PROVE  OneWork'
  <2>1. turn' = Append(turn, n(c))
    BY <1>4 DEF StartTurn
  <2>2. /\ Len(turn') = Len(turn) + 1 /\ DOMAIN turn' = 1..Len(turn')
        /\ turn'[Len(turn')] = n(c) /\ turn' # << >>
        /\ \A t \in DOMAIN turn : turn'[t] = turn[t]
    BY <2>1, AppendTurn
  <2>3. \A t \in DOMAIN turn' : t = Len(turn') \/ t \in DOMAIN turn
    BY <2>1, AppendTurn
  <2>4. \A t \in DOMAIN turn' : Alive(t)' => t = Len(turn')
    BY <2>2, <2>3 DEF NoTurn, Alive
  <2>5. Len(turn') \in DOMAIN turn' /\ Alive(Len(turn))' = Alive(Len(turn))'
    BY <2>2, TurnFacts
  <2>6. NoRag' /\ NoLoad'
    BY <1>4, <1>q DEF StartTurn, NoRag, NoLoad
  <2>7. Turning'
    BY <2>2, <2>4, <2>6 DEF Turning
  <2>8. Dealt'
    BY <2>2, <2>5 DEF Dealt, Begun
  <2> QED
    BY <2>7, <2>8 DEF OneWork
<1> QED
  BY <1>1, <1>2, <1>3, <1>4 DEF Send

\* Whatever a Send does with its question, the earlier ones stay as they were.
LEMMA SendEarlier ==
  ASSUME TypeOK, NEW r \in Requests, NEW append, NEW asRag, NEW useRag,
         Send(r, append, asRag, useRag),
         EarlierDealt, ~Begun(r), r \notin failed, nRequests' = r, nRequests <= r,
         \A x \in 1..r - 1 : Begun(x) \/ x \in failed
  PROVE  EarlierDealt'
<1>1. failed' = failed \/ (failed' = failed \cup {r} /\ turn' = turn)
  BY DEF Send, SendRefused, StartRag, StartLoad, StartTurn
<1>2. CASE turn' = turn
  <2>1. \A x : Begun(x)' <=> Begun(x)
    BY <1>2 DEF Begun
  <2>2. 1..nRequests \subseteq 1..r /\ r \in 1..r
    BY RequestFacts
  <2> QED
    BY <1>1, <1>2, <2>1, <2>2 DEF EarlierDealt
<1>3. CASE \E c \in IF Kept # NoAI THEN {Kept} ELSE Free : StartTurn(r, c)
  <2>1. PICK c : turn' = Append(turn, [ai |-> c, req |-> r, chat |-> chatName, pc |-> "run"])
    BY <1>3 DEF StartTurn
  <2>2. /\ Len(turn') = Len(turn) + 1 /\ DOMAIN turn' = 1..Len(turn')
        /\ turn'[Len(turn')].req = r
        /\ \A t \in DOMAIN turn : turn'[t] = turn[t]
    BY <2>1, AppendTurn
  <2>3. \A t \in DOMAIN turn' : t = Len(turn') \/ t \in DOMAIN turn
    BY <2>1, AppendTurn
  <2>4. DOMAIN turn \subseteq DOMAIN turn' /\ Len(turn') \in DOMAIN turn'
    BY <2>2, TurnFacts
  <2>5. 1..nRequests \subseteq 1..r /\ r \in 1..r
    BY RequestFacts
  <2>6. \A t \in DOMAIN turn : turn'[t].req = turn[t].req /\ turn[t].req # r
    BY <2>2 DEF Begun
  <2>7. \A t \in DOMAIN turn' : turn'[t].req \in 1..nRequests'
    BY <2>2, <2>3, <2>5, <2>6 DEF EarlierDealt
  <2>8. \A t, u \in DOMAIN turn' : turn'[t].req = turn'[u].req => t = u
    BY <2>2, <2>3, <2>6 DEF EarlierDealt
  <2>9. \A x : Begun(x)' <=> Begun(x) \/ x = r
    BY <2>2, <2>3, <2>4, <2>6 DEF Begun
  <2>10. failed' = failed
    BY <1>3 DEF StartTurn
  <2> QED
    BY <2>5, <2>7, <2>8, <2>9, <2>10 DEF EarlierDealt
<1> QED
  BY <1>2, <1>3 DEF Send, SendRefused, StartRag, StartLoad

------------------------------------------------------------------------------
\* Raising the exit flag changes nothing else of any AI.
LEMMA RaiseKeeps ==
  ASSUME TypeOK, NEW a \in AIs
  PROVE  /\ RaiseFlag[a].onLoad = ai[a].onLoad /\ RaiseFlag[a].chat = ai[a].chat
         /\ RaiseFlag[a].context = ai[a].context /\ RaiseFlag[a].onLoadRag = ai[a].onLoadRag
         /\ a # chat => RaiseFlag[a] = ai[a]
<1>1. ai \in [AIs -> AIRecord] /\ ai[a] \in AIRecord
  BY DEF TypeOK
<1>2. CASE chat = NoAI \/ a # chat
  <2>1. RaiseFlag[a] = ai[a]
    BY <1>1, <1>2 DEF RaiseFlag
  <2> QED
    BY <1>2, <2>1
<1>3. CASE chat # NoAI /\ a = chat
  <2>1. RaiseFlag[a] = [ai[a] EXCEPT !.flagExit = TRUE]
    BY <1>1, <1>3 DEF RaiseFlag
  <2> QED
    BY <1>1, <1>3, <2>1 DEF AIRecord
<1> QED
  BY <1>2, <1>3

------------------------------------------------------------------------------
(* The work in flight: one lemma for each kind of step *)

\* A patient user begins at most one piece of work.
LEMMA WorkUser ==
  ASSUME ~SendWhileBusy, TypeOK, WorkInv, User
  PROVE  WorkInv'
<1>1. CASE UserSend
  <2>1. PICK useRag \in {FALSE, UseRag} : Send(nRequests + 1, TRUE, FALSE, useRag)
    BY <1>1 DEF UserSend
  <2>2. Idle /\ nRequests' = nRequests + 1 /\ mainQ' = mainQ
    BY <1>1 DEF UserSend
  <2>3. NoRag /\ NoLoad /\ NoTurn /\ mainQ' = << >>
    BY <2>2 DEF Idle, NoRag, NoLoad, NoTurn
  <2>4. nRequests + 1 \in Requests /\ nRequests + 1 \notin 1..nRequests /\ nRequests <= nRequests + 1
    BY <1>1, RequestFacts DEF UserSend
  <2>5. ~Begun(nRequests + 1) /\ nRequests + 1 \notin failed
    BY <2>4 DEF WorkInv, EarlierDealt, Begun
  <2>6. Dealt
    BY <2>2, IdleIsDealt DEF WorkInv
  <2>7. \A x \in 1..(nRequests + 1) - 1 : Begun(x) \/ x \in failed
    <3>1. \A x \in 1..(nRequests + 1) - 1 : x \in 1..nRequests - 1 \/ (x = nRequests /\ nRequests > 0)
      BY RequestFacts
    <3> QED
      BY <2>6, <3>1 DEF WorkInv, EarlierDealt, Dealt
  <2>8. OneWork'
    BY <2>1, <2>2, <2>3, <2>4, <2>5, SendStarts
  <2>9. EarlierDealt'
    BY <2>1, <2>2, <2>4, <2>5, <2>7, SendEarlier DEF WorkInv
  <2> QED
    BY <2>8, <2>9 DEF WorkInv
<1>2. CASE UserStop \/ CloseChat \/ ClearChat \/ \E c \in Chats : SelectChat(c)
  <2>1. ai' = ai \/ ai' = RaiseFlag
    BY <1>2 DEF UserStop, CloseChat, ClearChat, SelectChat, stop_predict
  <2>2. \A a \in AIs : ai'[a].onLoad = ai[a].onLoad
    BY <2>1, RaiseKeeps
  <2>3. UNCHANGED <<opening, opened, turn, rag, mainQ, nRequests, failed>>
    BY <1>2 DEF UserStop, CloseChat, ClearChat, SelectChat
  <2> QED
    BY <2>2, <2>3, WorkKeptStep DEF WorkKept
<1> QED
  BY <1>1, <1>2 DEF User

\* A load passes its one piece of work on to its completion.
LEMMA WorkLoad ==
  ASSUME TypeOK, WorkInv, NEW a \in AIs, LoadStep(a)
  PROVE  WorkInv'
<1>t. opening \in [AIs -> Nat] /\ opened \in [AIs -> Nat] /\ ai \in [AIs -> AIRecord]
  BY DEF TypeOK
<1>1. opening[a] > 0 \/ opened[a] > 0
  BY DEF LoadStep, LoadContext, LoadDone, LoadFail
<1>2. Loading /\ OnItsWay
  BY <1>1 DEF WorkInv, OneWork, Retrieving, Loaded, Sending, Turning, Idle, NoLoad
<1>3. UNCHANGED <<turn, rag, nRequests, failed>>
  BY DEF LoadStep, LoadContext, LoadDone, LoadFail
<1>4. NoRag' /\ NoTurn' /\ OnItsWay'
  BY <1>2, <1>3 DEF Loading, NoRag, NoTurn, Alive, OnItsWay, Begun
<1>5. EarlierDealt'
  BY <1>3, EarlierKept DEF WorkInv, TurnsKept
<1>6. /\ ai[a].onLoad = nRequests
      /\ opening[a] + opened[a] = 1
      /\ \A b \in AIs \ {a} : opening[b] = 0 /\ opened[b] = 0
  BY <1>1, <1>2, <1>t DEF Loading
<1>7. CASE LoadContext(a)
  <2>1. mainQ' = << >>
    BY <1>2, <1>7 DEF Loading, LoadContext
  <2>2. ai'[a].onLoad = nRequests
    BY <1>6, <1>7, <1>t DEF LoadContext, AIRecord
  <2>3. /\ opening'[a] + opened'[a] = 1
        /\ \A b \in AIs \ {a} : opening'[b] = 0 /\ opened'[b] = 0
    BY <1>6, <1>7, <1>t DEF LoadContext
  <2>4. Loading'
    BY <1>3, <1>4, <2>1, <2>2, <2>3 DEF Loading
  <2> QED
    BY <1>4, <1>5, <2>4 DEF WorkInv, OneWork
<1>8. CASE LoadDone(a) \/ LoadFail(a)
  <2>1. PICK ok \in BOOLEAN : mainQ' = Append(mainQ, [kind |-> "loaded", ai |-> a, ok |-> ok])
    BY <1>8 DEF LoadDone, LoadFail
  <2>2. mainQ' = << [kind |-> "loaded", ai |-> a, ok |-> ok] >>
    BY <1>2, <2>1 DEF Loading
  <2>3. opening'[a] = 0 /\ opened'[a] = 0 /\ ai' = ai
    BY <1>6, <1>8, <1>t DEF LoadDone, LoadFail
  <2>4. \A b \in AIs \ {a} : opening'[b] = 0 /\ opened'[b] = 0
    BY <1>6, <1>8, <1>t DEF LoadDone, LoadFail
  <2>5. Loaded'
    BY <1>3, <1>4, <1>6, <2>2, <2>3, <2>4 DEF Loaded, NoLoad
  <2> QED
    BY <1>4, <1>5, <2>5 DEF WorkInv, OneWork
<1> QED
  BY <1>7, <1>8 DEF LoadStep

\* A prediction stays the one piece of work up to its completion.
LEMMA WorkPredict ==
  ASSUME TypeOK, WorkInv, NEW t \in DOMAIN turn, PredictStep(t)
  PROVE  WorkInv'
<1>1. Alive(t)
  BY DEF PredictStep, PredictExit, PredictToken, PredictPost, PredictLimit, PredictThrow,
     PredictEnd, Alive
<1>2. Turning /\ Dealt
  BY <1>1 DEF WorkInv, OneWork, Retrieving, Loading, Loaded, Sending, Idle, NoTurn
<1>3. t = Len(turn) /\ t \in Turns /\ turn[t] \in TurnRecord
  BY <1>1, <1>2, TurnFacts DEF Turning
<1>4. UNCHANGED <<opening, opened, rag, nRequests, failed>>
  BY DEF PredictStep, PredictExit, PredictToken, PredictPost, PredictLimit, PredictThrow,
     PredictEnd
<1>5. PICK pc : SetPc(t, pc)
  BY DEF PredictStep, PredictExit, PredictToken, PredictPost, PredictLimit, PredictThrow,
     PredictEnd
<1>6. /\ DOMAIN turn' = DOMAIN turn /\ Len(turn') = Len(turn)
      /\ turn'[t] = [turn[t] EXCEPT !.pc = pc]
      /\ \A u \in DOMAIN turn \ {t} : turn'[u] = turn[u]
  BY <1>5, TurnFacts DEF SetPc
<1>7. TurnsKept
  BY <1>3, <1>6 DEF TurnsKept, TurnRecord
<1>8. EarlierDealt'
  BY <1>4, <1>7, EarlierKept DEF WorkInv
<1>9. Dealt'
  BY <1>2, <1>4, <1>7 DEF Dealt, Begun, TurnsKept
<1>10. NoRag' /\ NoLoad'
  BY <1>2, <1>4 DEF Turning, NoRag, NoLoad
<1>11. turn' # << >> /\ turn'[Len(turn')].req = nRequests'
  BY <1>2, <1>3, <1>4, <1>6, <1>7, TurnFacts DEF Turning, TurnsKept
<1>12. \A u \in DOMAIN turn' : Alive(u)' => u = Len(turn')
  BY <1>2, <1>3, <1>6 DEF Turning, Alive
<1>m. mainQ \in Seq(Block)
  BY DEF TypeOK
<1>13. ASSUME NEW b \in Block, mainQ' = Append(mainQ, b), b.kind \in {"token", "finish"},
              b.turn = t
       PROVE  /\ \A i \in DOMAIN mainQ' : /\ mainQ'[i].kind \in {"token", "finish"}
                                          /\ mainQ'[i].turn = Len(turn')
              /\ mainQ'[Len(mainQ')] = b
  <2>1. /\ DOMAIN mainQ' = 1..Len(mainQ) + 1 /\ Len(mainQ') = Len(mainQ) + 1
        /\ mainQ'[Len(mainQ) + 1] = b
        /\ \A i \in 1..Len(mainQ) : mainQ'[i] = mainQ[i]
    BY <1>13, <1>m, AppendProperties
  <2>2. \A i \in DOMAIN mainQ' : i = Len(mainQ) + 1 \/ i \in DOMAIN mainQ
    BY <2>1, QueueFacts
  <2> QED
    BY <1>2, <1>3, <1>6, <1>13, <2>1, <2>2, QueueFacts DEF Turning
<1>14. CASE PredictExit(t) \/ PredictToken(t) \/ PredictLimit(t)
  <2>1. mainQ' = mainQ /\ turn'[t].pc # "done"
    BY <1>3, <1>6, <1>14 DEF PredictExit, PredictToken, PredictLimit, SetPc, TurnRecord
  <2>2. Turning'
    BY <1>2, <1>3, <1>6, <1>10, <1>11, <1>12, <2>1 DEF Turning, Alive
  <2> QED
    BY <1>8, <1>9, <2>2 DEF WorkInv, OneWork
<1>15. CASE PredictPost(t) \/ PredictThrow(t)
  <2>1. turn'[t].pc # "done"
    BY <1>3, <1>6, <1>15 DEF PredictPost, PredictThrow, SetPc, TurnRecord
  <2>2. PICK b \in Block : mainQ' = Append(mainQ, b) /\ b.kind \in {"token", "finish"} /\ b.turn = t
    BY <1>3, <1>15, BlockTypes DEF PredictPost, PredictThrow
  <2>3. Turning'
    BY <1>3, <1>6, <1>10, <1>11, <1>12, <1>13, <2>1, <2>2 DEF Turning, Alive
  <2> QED
    BY <1>8, <1>9, <2>3 DEF WorkInv, OneWork
<1>16. CASE PredictEnd(t)
  <2>2. PICK b \in Block : mainQ' = Append(mainQ, b) /\ b.kind = "finish" /\ b.turn = t
    BY <1>3, <1>16, BlockTypes DEF PredictEnd
  <2>3. Turning'
    BY <1>3, <1>6, <1>10, <1>11, <1>12, <1>13, <2>2 DEF Turning, Alive
  <2> QED
    BY <1>8, <1>9, <2>3 DEF WorkInv, OneWork
<1> QED
  BY <1>14, <1>15, <1>16 DEF PredictStep

\* A retrieval passes its one piece of work on to a block in the queue.
LEMMA WorkRag ==
  ASSUME TypeOK, WorkInv, NEW r \in Requests, RagStep(r)
  PROVE  WorkInv'
<1>1. rag[r] # "none"
  BY DEF RagStep, RagIndexed, RagFound
<1>2. Retrieving /\ OnItsWay /\ r = nRequests
  BY <1>1 DEF WorkInv, OneWork, Retrieving, Loading, Loaded, Sending, Turning, Idle, NoRag
<1>3. UNCHANGED <<opening, opened, turn, nRequests, failed>>
  BY DEF RagStep, RagIndexed, RagFound
<1>4. NoLoad' /\ NoTurn' /\ OnItsWay'
  BY <1>2, <1>3 DEF Retrieving, NoLoad, NoTurn, Alive, OnItsWay, Begun
<1>5. EarlierDealt'
  BY <1>3, EarlierKept DEF WorkInv, TurnsKept
<1>6. \A x \in Requests \ {r} : rag'[x] = rag[x]
  BY DEF RagStep, RagIndexed, RagFound, TypeOK
<1>m. mainQ \in Seq(Block)
  BY DEF TypeOK
<1>7. ASSUME NEW b \in Block, mainQ' = Append(mainQ, b)
       PROVE  /\ Len(mainQ') = Len(mainQ) + 1 /\ mainQ' # << >>
              /\ DOMAIN mainQ' = 1..Len(mainQ) + 1 /\ mainQ'[Len(mainQ) + 1] = b
              /\ \A i \in 1..Len(mainQ) : mainQ'[i].kind = "ragSearch"
  <2>1. /\ Len(mainQ') = Len(mainQ) + 1
        /\ DOMAIN mainQ' = 1..Len(mainQ) + 1 /\ mainQ'[Len(mainQ) + 1] = b
        /\ \A i \in 1..Len(mainQ) : mainQ'[i] = mainQ[i]
    BY <1>m, <1>7, AppendProperties
  <2>2. mainQ' # << >>
    BY <2>1, QueueFacts
  <2> QED
    BY <1>2, <2>1, <2>2, QueueFacts DEF Retrieving
<1>8. CASE RagIndexed(r)
  <2>1. rag'[r] # "none"
    BY <1>8 DEF RagIndexed, TypeOK
  <2>2. mainQ' = Append(mainQ, [kind |-> "ragSearch"]) /\ [kind |-> "ragSearch"] \in Block
    BY <1>8, BlockTypes DEF RagIndexed
  <2>3. \A i \in DOMAIN mainQ' : mainQ'[i].kind = "ragSearch"
    <3>1. \A i \in 1..Len(mainQ) + 1 : i \in 1..Len(mainQ) \/ i = Len(mainQ) + 1
      BY QueueFacts
    <3> QED
      BY <1>7, <2>2, <3>1
  <2>4. Retrieving'
    BY <1>2, <1>3, <1>4, <1>6, <2>1, <2>3 DEF Retrieving
  <2> QED
    BY <1>4, <1>5, <2>4 DEF WorkInv, OneWork
<1>9. CASE RagFound(r)
  <2> DEFINE b == [kind |-> "send", req |-> r, rag |-> TRUE]
  <2>1. rag'[r] = "none"
    BY <1>9 DEF RagFound, TypeOK
  <2>2. NoRag'
    BY <1>2, <1>6, <2>1 DEF Retrieving, NoRag
  <2>3. mainQ' = Append(mainQ, b) /\ b \in Block
    <3>1. r \in 0..MaxRequests /\ TRUE \in BOOLEAN
      OBVIOUS
    <3> QED
      BY <1>9, <3>1, BlockTypes DEF RagFound
  <2>4. mainQ' # << >> /\ mainQ'[Len(mainQ')] = b
    BY <1>7, <2>3
  <2>5. \A i \in 1..Len(mainQ') - 1 : mainQ'[i].kind = "ragSearch"
    <3>1. 1..(Len(mainQ) + 1) - 1 = 1..Len(mainQ)
      BY QueueFacts
    <3> QED
      BY <1>7, <2>3, <3>1
  <2>6. Sending'
    BY <1>2, <1>3, <1>4, <2>2, <2>4, <2>5 DEF Sending
  <2> QED
    BY <1>4, <1>5, <2>6 DEF WorkInv, OneWork
<1> QED
  BY <1>8, <1>9 DEF RagStep

\* The head of the queue tells what is in flight.
LEMMA HeadTells ==
  ASSUME TypeOK, WorkInv, mainQ # << >>
  PROVE  /\ Head(mainQ).kind \in {"token", "finish"} => Turning /\ Dealt
         /\ Head(mainQ).kind = "loaded" => Loaded /\ OnItsWay
         /\ Head(mainQ).kind = "send" => Sending /\ OnItsWay /\ Len(mainQ) = 1
         /\ Head(mainQ).kind = "ragSearch" => OnItsWay /\ (Retrieving \/ (Sending /\ Len(mainQ) > 1))
<1>1. Head(mainQ) = mainQ[1] /\ 1 \in DOMAIN mainQ
  BY QueueFacts, PopQueue DEF TypeOK
<1>a. Len(mainQ) # 1 => Len(mainQ) > 1 /\ 1 \in 1..Len(mainQ) - 1
  <2> DEFINE n == Len(mainQ)
  <2>1. n \in 1..n /\ n \in Nat
    BY QueueFacts
  <2> HIDE DEF n
  <2>2. n # 1 => n > 1 /\ 1 \in 1..n - 1
    BY <2>1
  <2> QED
    BY <2>2 DEF n
<1>2. Retrieving => mainQ[1].kind = "ragSearch"
  BY <1>1 DEF Retrieving
<1>3. ~Loading /\ ~Idle
  BY DEF Loading, Idle
<1>4. Loaded => mainQ[1].kind = "loaded"
  BY <1>1 DEF Loaded
<1>5. Sending => /\ Len(mainQ) = 1 => mainQ[1].kind = "send"
                 /\ Len(mainQ) # 1 => mainQ[1].kind = "ragSearch"
  <2>1. Len(mainQ) # 1 => 1 \in 1..Len(mainQ) - 1
    BY <1>a
  <2> QED
    BY <1>1, <2>1 DEF Sending
<1>6. Turning => mainQ[1].kind \in {"token", "finish"}
  BY <1>1 DEF Turning
<1>7. Len(mainQ) # 1 => Len(mainQ) > 1
  BY <1>a
<1> DEFINE k == Head(mainQ).kind
<1>8. k = mainQ[1].kind
  BY <1>1
<1> HIDE DEF k
<1>9. \/ OnItsWay /\ Retrieving /\ k = "ragSearch"
      \/ OnItsWay /\ Loaded /\ k = "loaded"
      \/ OnItsWay /\ Sending /\ (IF Len(mainQ) = 1 THEN k = "send" ELSE k = "ragSearch")
      \/ Dealt /\ Turning /\ k \in {"token", "finish"}
  BY <1>2, <1>3, <1>4, <1>5, <1>6, <1>8 DEF WorkInv, OneWork
<1> QED
  BY <1>7, <1>9 DEF k

\* Taking a block of a turn, or one about a retrieval, leaves the work what it is.
LEMMA WorkPop ==
  ASSUME TypeOK, WorkInv, mainQ # << >>, mainQ' = Tail(mainQ),
         Head(mainQ).kind \in {"token", "finish", "ragSearch"},
         UNCHANGED <<opening, opened, turn, rag, nRequests, failed>>
  PROVE  WorkInv'
<1>1. EarlierDealt'
  BY EarlierKept DEF WorkInv, TurnsKept
<1>2. (OnItsWay => OnItsWay') /\ (Dealt => Dealt')
  BY DEF OnItsWay, Dealt, Begun
<1>3. CASE Head(mainQ).kind \in {"token", "finish"}
  <2>1. Turning /\ Dealt
    BY <1>3, HeadTells
  <2>2. NoRag' /\ NoLoad' /\ \A t \in DOMAIN turn' : Alive(t)' <=> Alive(t)
    BY <2>1 DEF Turning, NoRag, NoLoad, Alive
  <2>3. \A i \in DOMAIN mainQ' : mainQ'[i].kind \in {"token", "finish"} /\ mainQ'[i].turn = Len(turn')
    BY <2>1, PopFacts DEF Turning
  <2>4. ~Alive(Len(turn))' /\ mainQ' # << >> => mainQ'[Len(mainQ')].kind = "finish"
    BY <2>1, PopFacts DEF Turning, Alive
  <2>5. Turning'
    BY <2>1, <2>2, <2>3, <2>4 DEF Turning
  <2> QED
    BY <1>1, <1>2, <2>1, <2>5 DEF WorkInv, OneWork
<1>4. CASE Head(mainQ).kind = "ragSearch"
  <2>1. OnItsWay /\ (Retrieving \/ (Sending /\ Len(mainQ) > 1))
    BY <1>4, HeadTells
  <2>2. NoLoad' /\ NoTurn'
    BY <2>1 DEF Retrieving, Sending, NoLoad, NoTurn, Alive
  <2>3. CASE Retrieving
    <3>1. \A i \in DOMAIN mainQ' : mainQ'[i].kind = "ragSearch"
      BY <2>3, PopFacts DEF Retrieving
    <3>2. Retrieving'
      BY <2>2, <2>3, <3>1 DEF Retrieving
    <3> QED
      BY <1>1, <1>2, <2>1, <3>2 DEF WorkInv, OneWork
  <2>4. CASE Sending /\ Len(mainQ) > 1
    <3>1. NoRag'
      BY <2>4 DEF Sending, NoRag
    <3>2. mainQ' # << >>
      BY <2>4, PopFacts
    <3>3. \A i \in 1..Len(mainQ') - 1 : i + 1 \in 1..Len(mainQ) - 1 /\ i \in DOMAIN mainQ'
      BY PopFacts, QueueFacts
    <3>4. \A i \in 1..Len(mainQ') - 1 : mainQ'[i].kind = "ragSearch"
      BY <2>4, <3>3, PopFacts DEF Sending
    <3>5. Sending'
      BY <2>2, <2>4, <3>1, <3>2, <3>4, PopFacts DEF Sending
    <3> QED
      BY <1>1, <1>2, <2>1, <3>5 DEF WorkInv, OneWork
  <2> QED
    BY <2>1, <2>3, <2>4
<1> QED
  BY <1>3, <1>4

\* A handler ends the one piece of work or passes it on.
LEMMA WorkMain ==
  ASSUME TypeOK, WorkInv, MainStep
  PROVE  WorkInv'
<1> DEFINE b == Head(mainQ)
<1>0. mainQ # << >>
  BY DEF MainStep, HandleToken, HandleFinish, HandleLoaded, HandleSend, HandleRagSearch,
         HeadIs
<1>1. CASE HandleToken \/ HandleFinish \/ HandleRagSearch
  <2>1. /\ mainQ' = Tail(mainQ) /\ b.kind \in {"token", "finish", "ragSearch"}
        /\ UNCHANGED <<opening, opened, turn, rag, nRequests, failed>>
    BY <1>1 DEF HandleToken, HandleFinish, HandleRagSearch, HeadIs
  <2> QED
    BY <1>0, <2>1, WorkPop
<1>2. CASE HandleSend
  <2>1. Sending /\ OnItsWay /\ Len(mainQ) = 1
    BY <1>0, <1>2, HeadTells DEF HandleSend, HeadIs
  <2>2. mainQ' = Tail(mainQ) /\ nRequests' = nRequests /\ Send(b.req, FALSE, b.rag, FALSE)
    BY <1>2 DEF HandleSend
  <2>3. mainQ' = << >> /\ b.req = nRequests
    <3>1. Len(mainQ') = 0 /\ mainQ' \in Seq(Block)
      BY <1>0, <2>1, <2>2, PopFacts
    <3> QED
      BY <1>0, <2>1, <2>2, <3>1, PopFacts, EmptySeq DEF Sending
  <2>4. nRequests \in Requests /\ ~Begun(nRequests) /\ nRequests \notin failed
        /\ nRequests' <= nRequests /\ nRequests <= nRequests
    BY <2>1, <2>2, RequestFacts DEF OnItsWay
  <2>5. OneWork'
    BY <2>1, <2>2, <2>3, <2>4, SendStarts DEF Sending
  <2>6. EarlierDealt'
    BY <2>2, <2>3, <2>4, SendEarlier DEF WorkInv, EarlierDealt
  <2> QED
    BY <2>5, <2>6 DEF WorkInv
<1>3. CASE HandleLoaded
  <2>1. Loaded /\ OnItsWay
    BY <1>0, <1>3, HeadTells DEF HandleLoaded, HeadIs
  <2>2. PICK a \in AIs, ok \in BOOLEAN :
          mainQ = << [kind |-> "loaded", ai |-> a, ok |-> ok] >> /\ ai[a].onLoad = nRequests
    BY <2>1 DEF Loaded
  <2>3. b.ai = a /\ Tail(mainQ) = << >>
    BY <2>2
  <2>4. UNCHANGED <<opening, opened, turn, rag, nRequests>>
    BY <1>3 DEF HandleLoaded
  <2>5. NoRag' /\ NoLoad' /\ NoTurn' /\ \A r : Begun(r)' <=> Begun(r)
    BY <2>1, <2>4 DEF Loaded, NoRag, NoLoad, NoTurn, Alive, Begun
  <2>6. CASE /\ failed' = failed
             /\ mainQ' = Append(Tail(mainQ), [kind |-> "send", req |-> ai[a].onLoad,
                                              rag |-> ai[a].onLoadRag])
    <3>1. mainQ' = << [kind |-> "send", req |-> nRequests, rag |-> ai[a].onLoadRag] >>
      BY <2>2, <2>3, <2>6
    <3>2. Len(mainQ') = 1 /\ mainQ' # << >> /\ 1..Len(mainQ') - 1 = {}
          /\ mainQ'[1].kind = "send" /\ mainQ'[1].req = nRequests
      BY <3>1
    <3>3. Sending'
      BY <2>4, <2>5, <3>2 DEF Sending
    <3>4. OnItsWay'
      BY <2>1, <2>4, <2>5, <2>6 DEF OnItsWay
    <3>5. EarlierDealt'
      BY <2>4, <2>6, EarlierKept DEF WorkInv, TurnsKept
    <3> QED
      BY <3>3, <3>4, <3>5 DEF WorkInv, OneWork
  <2>7. CASE failed' = failed \cup {ai[a].onLoad} /\ mainQ' = Tail(mainQ)
    <3>1. failed' = failed \cup {nRequests} /\ mainQ' = << >>
      BY <2>2, <2>3, <2>7
    <3>2. Dealt'
      BY <2>4, <3>1 DEF Dealt
    <3>3. Idle'
      BY <2>5, <3>1 DEF Idle, NoRag, NoLoad, NoTurn
    <3>4. EarlierDealt'
      BY <2>1, <2>4, <3>1, EarlierKept DEF WorkInv, TurnsKept
    <3> QED
      BY <3>2, <3>3, <3>4 DEF WorkInv, OneWork
  <2> QED
    BY <1>3, <2>3, <2>6, <2>7 DEF HandleLoaded
<1> QED
  BY <1>1, <1>2, <1>3 DEF MainStep

\* At most one piece of work is in flight, whatever the step.
LEMMA WorkStep ==
  ASSUME ~SendWhileBusy, TypeOK, WorkInv, [Next]_vars
  PROVE  WorkInv'
<1>1. CASE UNCHANGED vars
  BY <1>1, WorkKeptStep DEF vars, WorkKept
<1> QED
  BY <1>1, WorkUser, WorkMain, WorkLoad, WorkPredict, WorkRag DEF Next

\* Nothing is in flight at the start.
LEMMA WorkInit == Init => WorkInv
<1> SUFFICES ASSUME Init PROVE WorkInv
  OBVIOUS
<1>1. turn = << >> /\ DOMAIN turn = {} /\ nRequests = 0 /\ failed = {}
  BY DEF Init
<1>2. Idle
  BY <1>1 DEF Init, Idle
<1>3. Dealt
  BY <1>1 DEF Dealt
<1>4. EarlierDealt
  BY <1>1 DEF EarlierDealt
<1> QED
  BY <1>2, <1>3, <1>4 DEF WorkInv, OneWork

\* For a patient user at most one piece of work is ever in flight.
LEMMA WorkAlways ==
  ASSUME ~SendWhileBusy
  PROVE  Spec => [](TypeOK /\ WorkInv)
<1>1. Init => TypeOK /\ WorkInv
  BY TypeInit, WorkInit
<1>2. TypeOK /\ WorkInv /\ [Next]_vars => (TypeOK /\ WorkInv)'
  BY TypeStep, WorkStep
<1> QED
  BY <1>1, <1>2, PTL DEF Spec

\* One llama context serves one turn at a time and is loaded while none runs: the exclusion
\* the code leaves to the user holds for a user who waits until the app is quiet.
THEOREM ContextNotSharedCorrect ==
  ASSUME ~SendWhileBusy
  PROVE  Spec => []ContextNotShared
<1>1. TypeOK /\ WorkInv => ContextNotShared
  <2> SUFFICES ASSUME TypeOK, WorkInv, NEW t \in DOMAIN turn, Alive(t)
               PROVE  /\ \A u \in DOMAIN turn : Alive(u) /\ turn[u].ai = turn[t].ai => u = t
                      /\ opening[turn[t].ai] + opened[turn[t].ai] = 0
    BY DEF ContextNotShared
  <2>1. Turning
    BY DEF WorkInv, OneWork, Retrieving, Loading, Loaded, Sending, Idle, NoTurn
  <2>2. turn[t].ai \in AIs
    BY TurnFacts DEF TurnRecord
  <2> QED
    BY <2>1, <2>2 DEF Turning, NoLoad
<1> QED
  BY <1>1, WorkAlways, PTL

\* Only the last question can be pending, and only while it is on its way.
LEMMA PendingIsOnItsWay ==
  ASSUME TypeOK, WorkInv, NEW r \in 1..nRequests
  PROVE  Pending(r) <=> r = nRequests /\ OnItsWay
<1>1. r \in Requests /\ nRequests \in Requests /\ nRequests > 0
  BY RequestFacts
<1>t. opening \in [AIs -> Nat] /\ opened \in [AIs -> Nat]
  BY DEF TypeOK
<1>q. DOMAIN mainQ = 1..Len(mainQ) /\ Len(mainQ) \in Nat
  BY QueueFacts
<1>n. NoLoad => \A a \in AIs : ~(opening[a] + opened[a] > 0)
  BY DEF NoLoad
<1>2. CASE OnItsWay /\ Retrieving
  <2>1. ~\E i \in InQueue("loaded") : ai[mainQ[i].ai].onLoad = r
    BY <1>2 DEF Retrieving, InQueue
  <2>2. ~\E i \in InQueue("send") : mainQ[i].req = r
    BY <1>2 DEF Retrieving, InQueue
  <2>3. rag[r] # "none" <=> r = nRequests
    BY <1>1, <1>2 DEF Retrieving
  <2> QED
    BY <1>2, <1>n, <2>1, <2>2, <2>3 DEF Pending, Retrieving
<1>3. CASE OnItsWay /\ Loading
  <2>1. rag[r] = "none" /\ InQueue("loaded") = {} /\ InQueue("send") = {}
    BY <1>1, <1>3 DEF Loading, NoRag, InQueue
  <2>2. PICK a \in AIs : /\ ai[a].onLoad = nRequests
                         /\ opening[a] + opened[a] = 1
                         /\ \A b \in AIs \ {a} : opening[b] = 0 /\ opened[b] = 0
    BY <1>3 DEF Loading
  <2>3. \A b \in AIs : opening[b] + opened[b] > 0 <=> b = a
    BY <2>2
  <2> QED
    BY <1>3, <2>1, <2>2, <2>3 DEF Pending
<1>4. CASE OnItsWay /\ Loaded
  <2>1. PICK a \in AIs, ok \in BOOLEAN :
          mainQ = << [kind |-> "loaded", ai |-> a, ok |-> ok] >> /\ ai[a].onLoad = nRequests
    BY <1>4 DEF Loaded
  <2>2. DOMAIN mainQ = {1} /\ mainQ[1].kind = "loaded" /\ mainQ[1].ai = a
    BY <2>1
  <2>3. InQueue("loaded") = {1} /\ InQueue("send") = {}
    BY <2>2 DEF InQueue
  <2>4. rag[r] = "none"
    BY <1>1, <1>4 DEF Loaded, NoRag
  <2> QED
    BY <1>4, <1>n, <2>1, <2>2, <2>3, <2>4 DEF Pending, Loaded
<1>5. CASE OnItsWay /\ Sending
  <2>1. rag[r] = "none"
    BY <1>1, <1>5 DEF Sending, NoRag
  <2>2. Len(mainQ) \in InQueue("send")
    BY <1>5, QueueFacts DEF Sending, InQueue
  <2>3. \A i \in DOMAIN mainQ : i = Len(mainQ) \/ i \in 1..Len(mainQ) - 1
    BY <1>q
  <2>4. \A i \in DOMAIN mainQ : i = Len(mainQ) \/ mainQ[i].kind = "ragSearch"
    BY <1>5, <2>3 DEF Sending
  <2>5. InQueue("send") = {Len(mainQ)} /\ InQueue("loaded") = {}
    BY <1>5, <2>2, <2>4 DEF InQueue, Sending
  <2> QED
    BY <1>5, <1>n, <2>1, <2>5 DEF Pending, Sending
<1>6. CASE Dealt /\ (Turning \/ Idle)
  <2>1. ~OnItsWay
    BY <1>1, <1>6 DEF Dealt, OnItsWay
  <2>2. rag[r] = "none" /\ NoLoad
    BY <1>1, <1>6 DEF Turning, Idle, NoRag, NoLoad
  <2>3. InQueue("loaded") = {} /\ InQueue("send") = {}
    BY <1>6 DEF Turning, Idle, InQueue
  <2> QED
    BY <1>n, <2>1, <2>2, <2>3 DEF Pending
<1> QED
  BY <1>2, <1>3, <1>4, <1>5, <1>6 DEF WorkInv, OneWork

\* A question is never lost and never answered twice, through a retrieval, a load, a switch
\* of chat or an error: until it begins a turn or is refused it is on its way to one Send.
THEOREM EachRequestOnceCorrect ==
  ASSUME ~SendWhileBusy
  PROVE  Spec => []EachRequestOnce
<1>1. TypeOK /\ WorkInv => EachRequestOnce
  <2> SUFFICES ASSUME TypeOK, WorkInv, NEW r \in 1..nRequests
               PROVE  LET begun == {t \in DOMAIN turn : turn[t].req = r}
                      IN /\ Cardinality(begun) <= 1
                         /\ Pending(r) \/ begun # {} \/ r \in failed
                         /\ ~(Pending(r) /\ begun # {})
                         /\ ~(r \in failed /\ begun # {})
    BY DEF EachRequestOnce
  <2> DEFINE begun == {t \in DOMAIN turn : turn[t].req = r}
  <2>1. begun # {} <=> Begun(r)
    BY DEF Begun
  <2>2. Cardinality(begun) <= 1
    <3>1. CASE begun = {}
      BY <3>1, FS_EmptySet
    <3>2. CASE begun # {}
      <4>1. PICK t : t \in begun
        BY <3>2
      <4>2. \A u \in begun : u = t
        BY <4>1 DEF WorkInv, EarlierDealt
      <4>3. begun = {t}
        BY <4>1, <4>2
      <4>4. Cardinality(begun) = 1
        BY <4>3, FS_Singleton, Zenon
      <4> HIDE DEF begun
      <4> QED
        BY <4>4
    <3> QED
      BY <3>1, <3>2
  <2>3. Pending(r) <=> r = nRequests /\ OnItsWay
    BY PendingIsOnItsWay
  <2>4. r = nRequests \/ r \in 1..nRequests - 1
    BY RequestFacts
  <2>5. OnItsWay \/ Dealt
    BY DEF WorkInv, OneWork
  <2>6. nRequests > 0
    BY RequestFacts
  <2>7. r = nRequests => Pending(r) \/ Begun(r) \/ r \in failed
    BY <2>3, <2>5, <2>6 DEF Dealt
  <2>8. r \in 1..nRequests - 1 => Begun(r) \/ r \in failed
    BY DEF WorkInv, EarlierDealt
  <2>9. r \in failed => ~Begun(r)
    BY DEF WorkInv, EarlierDealt
  <2>10. Pending(r) => ~Begun(r)
    BY <2>3 DEF OnItsWay
  <2> QED
    BY <2>1, <2>2, <2>4, <2>7, <2>8, <2>9, <2>10
<1> QED
  BY <1>1, WorkAlways, PTL

------------------------------------------------------------------------------
(* What the steps do to the transcript *)

\* The turns of before are still those; none was begun.
TurnsSame ==
    /\ Len(turn') = Len(turn) /\ DOMAIN turn' = DOMAIN turn
    /\ \A t \in DOMAIN turn : turn'[t].ai = turn[t].ai /\ turn'[t].chat = turn[t].chat

ChatsSame == \A a \in AIs : ai'[a].chat = ai[a].chat

\* Nothing of the transcript or of its files changes.
Background ==
    /\ UNCHANGED <<chatName, messages, history, chat, cleared>>
    /\ TurnsSame /\ ChatsSame /\ (TurnInFlight' <=> TurnInFlight)
    /\ \A a \in AIs : ai'[a].flagExit => ai[a].flagExit

Stops ==
    /\ stop_predict(messages, FALSE)
    /\ UNCHANGED <<chatName, cleared>>
    /\ TurnsSame /\ ChatsSame /\ (TurnInFlight' => TurnInFlight)

Selects ==
    /\ \E c \in Chats : SelectChat(c)
    /\ TurnsSame /\ ChatsSame /\ (TurnInFlight' => TurnInFlight)

Clears == ClearChat /\ TurnsSame /\ ChatsSame /\ (TurnInFlight' => TurnInFlight)

ShowsToken ==
    /\ Current /\ TurnInFlight /\ TurnInFlight'
    /\ messages' = update_last_message(Reply(Len(turn), "predicting"))
    /\ UNCHANGED <<chatName, history, chat, cleared, ai, turn>>

Finishes ==
    /\ TurnInFlight
    /\ \E isError \in BOOLEAN :
          LET shown == IF Current THEN update_last_message(Reply(Len(turn), "predicted"))
                       ELSE messages
          IN  messages' = IF isError THEN Append(shown, ErrorText) ELSE shown
    /\ history' = [history EXCEPT ![chatName] = messages']
    /\ UNCHANGED <<chatName, chat, cleared, ai, turn>>

\* A load failed.
Refuses ==
    /\ ~TurnInFlight /\ ~TurnInFlight'
    /\ stop_predict(Append(messages, ErrorText), TRUE)
    /\ UNCHANGED <<chatName, cleared, turn>>

SendsOnly ==
    /\ ~TurnInFlight /\ ~TurnInFlight'
    /\ Appended(messages', FALSE)
    /\ UNCHANGED <<chatName, history, cleared, turn>>

SendBegins ==
    /\ ~TurnInFlight /\ TurnInFlight'
    /\ Appended(messages', TRUE)
    /\ chat' \in AIs /\ ai'[chat'].chat = chatName /\ ai'[chat'].flagExit = FALSE
    /\ turn' = Append(turn, [ai |-> chat', req |-> nRequests', chat |-> chatName, pc |-> "run"])
    /\ UNCHANGED <<chatName, history, cleared>>

\* A Send that follows no turn either sends on or begins a turn.
LEMMA SendKinds ==
  ASSUME TypeOK, NEW r \in 0..MaxRequests, NEW append \in BOOLEAN,
         NEW asRag \in BOOLEAN, NEW useRag \in BOOLEAN,
         Send(r, append, asRag, useRag), nRequests' = r,
         NoTurn, ~Has(mainQ, "finish"), ~Has(mainQ', "finish")
  PROVE  SendsOnly \/ SendBegins
<1>1. ~TurnInFlight
  BY DEF TurnInFlight, NoTurn
<1>2. UNCHANGED <<chatName, history, cleared>>
  BY DEF Send
<1>3. CASE turn' = turn /\ messages' = SentMessages(r, append, asRag, FALSE)
  <2>1. ~TurnInFlight'
    BY <1>3 DEF TurnInFlight, NoTurn, Alive
  <2>2. Appended(SentMessages(r, append, asRag, FALSE), FALSE)
    BY SentAppends
  <2>3. Appended(messages', FALSE)
    BY <1>3, <2>2
  <2> QED
    BY <1>1, <1>2, <1>3, <2>1, <2>3 DEF SendsOnly
<1>4. ASSUME NEW c \in IF Kept # NoAI THEN {Kept} ELSE Free, StartTurn(r, c),
             messages' = SentMessages(r, append, asRag, TRUE)
      PROVE  SendBegins
  <2>1. c \in AIs /\ Objects(c) \in [AIs -> AIRecord] /\ Objects(c)[c].chat = chatName
    BY ObjectsType
  <2>2. Objects(c)[c] \in AIRecord
    BY <2>1
  <2>3. chat' = c /\ ai' = [Objects(c) EXCEPT ![c].flagExit = FALSE]
    BY <1>4 DEF StartTurn
  <2>4. ai'[c] = [Objects(c)[c] EXCEPT !.flagExit = FALSE]
    BY <2>1, <2>3
  <2>5. ai'[c].chat = chatName /\ ai'[c].flagExit = FALSE
    BY <2>1, <2>2, <2>4 DEF AIRecord
  <2>6. turn' = Append(turn, [ai |-> c, req |-> r, chat |-> chatName, pc |-> "run"])
    BY <1>4 DEF StartTurn
  <2>7. Len(turn) + 1 \in DOMAIN turn' /\ turn'[Len(turn) + 1].pc = "run"
    BY <2>6, TurnFacts
  <2>8. TurnInFlight'
    BY <2>7 DEF TurnInFlight, Alive
  <2>9. Appended(SentMessages(r, append, asRag, TRUE), TRUE)
    BY <1>4, SentAppends DEF StartTurn
  <2>10. Appended(messages', TRUE)
    BY <1>4, <2>9
  <2> QED
    BY <1>1, <1>2, <2>1, <2>3, <2>5, <2>6, <2>8, <2>10 DEF SendBegins
<1> QED
  BY <1>3, <1>4 DEF Send, SendRefused, StartRag, StartLoad

\* Moving a turn on changes nothing else of any turn.
LEMMA SetPcSame ==
  ASSUME TypeOK, NEW t \in DOMAIN turn, NEW pc, SetPc(t, pc)
  PROVE  TurnsSame /\ turn'[t].pc = pc
<1>1. turn[t] \in TurnRecord
  BY TurnFacts
<1>2. /\ DOMAIN turn' = DOMAIN turn /\ Len(turn') = Len(turn)
      /\ turn'[t] = [turn[t] EXCEPT !.pc = pc]
      /\ \A u \in DOMAIN turn \ {t} : turn'[u] = turn[u]
  BY TurnFacts DEF SetPc
<1> QED
  BY <1>1, <1>2 DEF TurnsSame, TurnRecord

\* Lowering a flag or changing a context leaves the AI's chat and raises no flag.
LEMMA FlagSame ==
  ASSUME TypeOK, NEW a \in AIs, NEW x \in BOOLEAN,
         ai' = ai \/ ai' = [ai EXCEPT ![a].flagExit = FALSE] \/ ai' = [ai EXCEPT ![a].context = x]
  PROVE  ChatsSame /\ \A b \in AIs : ai'[b].flagExit => ai[b].flagExit
<1>1. ai \in [AIs -> AIRecord]
  BY DEF TypeOK
<1>2. CASE ai' = ai
  BY <1>2 DEF ChatsSame
<1>3. CASE ai' = [ai EXCEPT ![a].flagExit = FALSE]
  BY <1>1, <1>3 DEF ChatsSame, AIRecord
<1>4. CASE ai' = [ai EXCEPT ![a].context = x]
  BY <1>1, <1>4 DEF ChatsSame, AIRecord
<1> QED
  BY <1>2, <1>3, <1>4

\* A turn in flight is the one piece of work, and the last turn.
LEMMA InFlightIsTurning ==
  ASSUME TypeOK, WorkInv, TurnInFlight
  PROVE  /\ Turning /\ Dealt /\ turn # << >>
         /\ Len(turn) \in DOMAIN turn /\ turn[Len(turn)] \in TurnRecord /\ Len(turn) \in Turns
<1>1. CASE \E t \in DOMAIN turn : Alive(t)
  BY <1>1, TurnFacts DEF WorkInv, OneWork, Retrieving, Loading, Loaded, Sending, Idle, NoTurn, Turning
<1>2. CASE Has(mainQ, "finish")
  <2>1. PICK i \in DOMAIN mainQ : mainQ[i].kind = "finish"
    BY <1>2, QueueFacts DEF Has
  <2>2. ~Retrieving /\ ~Loading /\ ~Idle
    BY <2>1 DEF Retrieving, Loading, Idle
  <2>3. ~Loaded
    <3>1. ASSUME NEW a, NEW ok, mainQ = << [kind |-> "loaded", ai |-> a, ok |-> ok] >>
          PROVE  FALSE
      BY <2>1, <3>1
    <3> QED BY <3>1 DEF Loaded
  <2>4. i = Len(mainQ) \/ i \in 1..Len(mainQ) - 1
    BY QueueFacts
  <2>5. ~Sending
    BY <2>1, <2>4 DEF Sending
  <2> QED
    BY <2>2, <2>3, <2>5, TurnFacts DEF WorkInv, OneWork, Turning
<1> QED
  BY <1>1, <1>2 DEF TurnInFlight

\* While any other work is in flight no turn is.
LEMMA NotTurning ==
  ASSUME TypeOK, WorkInv, Loaded \/ Sending \/ Idle \/ Loading \/ Retrieving
  PROVE  ~TurnInFlight
<1> SUFFICES ASSUME TurnInFlight PROVE FALSE
  OBVIOUS
<1>1. Turning /\ Dealt /\ turn # << >> /\ Len(turn) \in DOMAIN turn
  BY InFlightIsTurning
<1>2. ~Alive(Len(turn))
  BY <1>1 DEF Loaded, Sending, Idle, Loading, Retrieving, NoTurn
<1>3. Has(mainQ, "finish")
  BY <1>1, <1>2 DEF TurnInFlight, Turning
<1>4. PICK i \in DOMAIN mainQ : mainQ[i].kind = "finish"
  BY <1>3, QueueFacts DEF Has
<1>5. ~Retrieving /\ ~Loading /\ ~Idle
  BY <1>4 DEF Retrieving, Loading, Idle
<1>6. ~Sending
  BY <1>1, QueueFacts DEF Sending, Turning
<1>7. ~Loaded
  <2>1. ASSUME NEW a, NEW ok, mainQ = << [kind |-> "loaded", ai |-> a, ok |-> ok] >>
        PROVE  FALSE
    BY <1>4, <2>1
  <2> QED BY <2>1 DEF Loaded
<1> QED
  BY <1>5, <1>6, <1>7

\* The user, as far as the transcript goes.
LEMMA UserKinds ==
  ASSUME ~SendWhileBusy, TypeOK, WorkInv, User
  PROVE  Stops \/ Selects \/ Clears \/ SendsOnly \/ SendBegins
<1>1. CASE UserSend
  <2>1. PICK useRag \in {FALSE, UseRag} : Send(nRequests + 1, TRUE, FALSE, useRag)
    BY <1>1 DEF UserSend
  <2>2. Idle /\ nRequests' = nRequests + 1 /\ mainQ' = mainQ
    BY <1>1 DEF UserSend
  <2>3. NoTurn /\ ~Has(mainQ, "finish")
    BY <2>2, NotTurning DEF Idle, NoTurn, TurnInFlight
  <2>4. nRequests + 1 \in 0..MaxRequests
    BY <1>1, RequestFacts DEF UserSend
  <2>5. TRUE \in BOOLEAN /\ FALSE \in BOOLEAN /\ useRag \in BOOLEAN
    OBVIOUS
  <2> QED
    BY <2>1, <2>2, <2>3, <2>4, <2>5, SendKinds
<1>2. CASE UserStop \/ CloseChat \/ ClearChat \/ \E c \in Chats : SelectChat(c)
  <2>1. ai' = ai \/ ai' = RaiseFlag
    BY <1>2 DEF UserStop, CloseChat, ClearChat, SelectChat, stop_predict
  <2>2. ChatsSame
    BY <2>1, RaiseKeeps DEF ChatsSame
  <2>3. UNCHANGED <<turn, mainQ>>
    BY <1>2 DEF UserStop, CloseChat, ClearChat, SelectChat
  <2>4. TurnsSame /\ (TurnInFlight' => TurnInFlight)
    BY <2>3 DEF TurnsSame, TurnInFlight, Has, Alive
  <2> QED
    BY <1>2, <2>2, <2>4 DEF UserStop, CloseChat, Stops, Selects, Clears
<1> QED
  BY <1>1, <1>2 DEF User

\* The tasks on the dispatch queue.
LEMMA TaskKinds ==
  ASSUME TypeOK, WorkInv,
         \/ \E a \in AIs : LoadStep(a)
         \/ \E t \in DOMAIN turn : PredictStep(t)
         \/ \E r \in Requests : RagStep(r)
  PROVE  Background
<1>1. UNCHANGED <<chatName, messages, history, chat, cleared>>
  BY DEF LoadStep, LoadContext, LoadDone, LoadFail, PredictStep, PredictExit, PredictToken,
     PredictPost, PredictLimit, PredictThrow, PredictEnd, RagStep, RagIndexed, RagFound
<1>2. ASSUME NEW a \in AIs, LoadStep(a) PROVE Background
  <2>1. turn' = turn
    BY <1>2 DEF LoadStep, LoadContext, LoadDone, LoadFail
  <2>2. \/ mainQ' = mainQ
        \/ \E b \in Block : b.kind = "loaded" /\ mainQ' = Append(mainQ, b)
    BY <1>2, BlockTypes DEF LoadStep, LoadContext, LoadDone, LoadFail
  <2>3. Has(mainQ', "finish") <=> Has(mainQ, "finish")
    BY <2>2, HasPosted DEF Has
  <2>4. ai' = ai \/ ai' = [ai EXCEPT ![a].context = TRUE]
    BY <1>2 DEF LoadStep, LoadContext, LoadDone, LoadFail
  <2>5. ChatsSame /\ \A b \in AIs : ai'[b].flagExit => ai[b].flagExit
    BY <2>4, FlagSame
  <2> QED
    BY <1>1, <2>1, <2>3, <2>5 DEF Background, TurnsSame, TurnInFlight, Alive
<1>3. ASSUME NEW r \in Requests, RagStep(r) PROVE Background
  <2>1. turn' = turn /\ ai' = ai
    BY <1>3 DEF RagStep, RagIndexed, RagFound
  <2>2. \E b \in Block : b.kind \in {"ragSearch", "send"} /\ mainQ' = Append(mainQ, b)
    <3>1. r \in 0..MaxRequests /\ TRUE \in BOOLEAN
      OBVIOUS
    <3> QED BY <1>3, <3>1, BlockTypes DEF RagStep, RagIndexed, RagFound
  <2>3. Has(mainQ', "finish") <=> Has(mainQ, "finish")
    BY <2>2, HasPosted
  <2> QED
    BY <1>1, <2>1, <2>3 DEF Background, TurnsSame, ChatsSame, TurnInFlight, Alive
<1>4. ASSUME NEW t \in DOMAIN turn, PredictStep(t) PROVE Background
  <2>1. PICK pc : SetPc(t, pc)
    BY <1>4 DEF PredictStep, PredictExit, PredictToken, PredictPost, PredictLimit,
       PredictThrow, PredictEnd
  <2>2. TurnsSame /\ turn'[t].pc = pc
    BY <2>1, SetPcSame
  <2>3. turn[t].ai \in AIs /\ t \in Turns
    BY TurnFacts DEF TurnRecord
  <2>4. ai' = ai \/ ai' = [ai EXCEPT ![turn[t].ai].flagExit = FALSE]
    BY <1>4 DEF PredictStep, PredictExit, PredictToken, PredictPost, PredictLimit,
       PredictThrow, PredictEnd
  <2>5. ChatsSame /\ \A b \in AIs : ai'[b].flagExit => ai[b].flagExit
    BY <2>3, <2>4, FlagSame
  <2>6. TurnInFlight
    BY <1>4 DEF TurnInFlight, Alive, PredictStep, PredictExit, PredictToken, PredictPost,
       PredictLimit, PredictThrow, PredictEnd
  <2>7. TurnInFlight'
    <3>1. CASE PredictEnd(t)
      <4>1. Has(mainQ', "finish")
        BY <2>3, <3>1, BlockTypes, PostKeeps DEF PredictEnd, TypeOK
      <4> QED
        BY <4>1 DEF TurnInFlight
    <3>2. CASE ~PredictEnd(t)
      <4>1. PICK p : p # "done" /\ SetPc(t, p)
        BY <1>4, <3>2 DEF PredictStep, PredictExit, PredictToken, PredictPost, PredictLimit,
           PredictThrow
      <4>2. turn'[t].pc = p /\ t \in DOMAIN turn'
        BY <4>1, SetPcSame DEF TurnsSame
      <4> QED
        BY <4>1, <4>2 DEF TurnInFlight, Alive
    <3> QED
      BY <3>1, <3>2
  <2> QED
    BY <1>1, <2>2, <2>5, <2>6, <2>7 DEF Background
<1> QED
  BY <1>2, <1>3, <1>4

\* The blocks on the main queue.
LEMMA MainKinds ==
  ASSUME TypeOK, WorkInv, MainStep
  PROVE  \/ Background \/ Stops \/ ShowsToken \/ Finishes \/ Refuses
         \/ SendsOnly \/ SendBegins
<1> DEFINE b == Head(mainQ)
<1>0. mainQ # << >>
  BY DEF MainStep, HandleToken, HandleFinish, HandleLoaded, HandleSend, HandleRagSearch,
         HeadIs
<1>b. b \in Block /\ b = mainQ[1] /\ 1 \in DOMAIN mainQ
  BY <1>0, PopQueue, QueueFacts DEF TypeOK
<1>1. CASE HandleToken
  <2>1. Turning
    BY <1>0, <1>1, HeadTells DEF HandleToken, HeadIs
  <2>2. b.turn = Len(turn) /\ b.kind = "token"
    BY <1>1, <1>b, <2>1 DEF Turning, HandleToken, HeadIs
  <2>3. mainQ' = Tail(mainQ) /\ turn' = turn /\ UNCHANGED <<chatName, cleared>>
    BY <1>1 DEF HandleToken
  <2>4. Has(mainQ', "finish") \/ Alive(Len(turn))
    <3>1. SUFFICES ASSUME ~Alive(Len(turn)) PROVE Has(mainQ', "finish")
      OBVIOUS
    <3>2. Has(mainQ, "finish")
      BY <1>0, <2>1, <3>1, QueueFacts DEF Turning, Has
    <3> QED
      BY <1>0, <2>2, <2>3, <3>2, PopKeeps DEF TypeOK
  <2>5. turn # << >> /\ Len(turn) \in DOMAIN turn
    BY <2>1, TurnFacts DEF Turning
  <2>6. TurnInFlight'
    BY <2>3, <2>4, <2>5 DEF TurnInFlight, Alive
  <2>7. TurnInFlight
    BY <1>0, <2>3, <2>4, <2>5, HasPopped DEF TurnInFlight
  <2>8. TurnsSame
    BY <2>3 DEF TurnsSame
  <2>9. CASE stop_predict(messages, FALSE)
    <3>1. ChatsSame
      BY <2>9, RaiseKeeps DEF ChatsSame, stop_predict
    <3> QED
      BY <2>3, <2>7, <2>8, <2>9, <3>1 DEF Stops
  <2>10. CASE Current /\ messages' = update_last_message(Reply(b.turn, "predicting"))
              /\ UNCHANGED <<ai, predicting, history, chat>>
    BY <2>2, <2>3, <2>6, <2>7, <2>10 DEF ShowsToken
  <2>11. CASE messages' = messages /\ UNCHANGED <<ai, predicting, history, chat>>
    BY <2>3, <2>6, <2>7, <2>8, <2>11 DEF Background, ChatsSame
  <2>12. \/ stop_predict(messages, FALSE)
         \/ /\ messages' = IF Current THEN update_last_message(Reply(b.turn, "predicting"))
                           ELSE messages
            /\ UNCHANGED <<ai, predicting, history, chat>>
    BY <1>1 DEF HandleToken
  <2> QED
    BY <2>9, <2>10, <2>11, <2>12
<1>2. CASE HandleFinish
  <2>1. Turning
    BY <1>0, <1>2, HeadTells DEF HandleFinish, HeadIs
  <2>2. b.turn = Len(turn) /\ b.kind = "finish" /\ b.error \in BOOLEAN
    BY <1>2, <1>b, <2>1, BlockFields DEF Turning, HandleFinish, HeadIs
  <2>3. TurnInFlight
    <3>1. 1 \in 1..Len(mainQ)
      BY <1>b, QueueFacts
    <3> QED
      BY <1>b, <2>2, <3>1 DEF TurnInFlight, Has
  <2> QED
    BY <1>2, <2>2, <2>3 DEF HandleFinish, Finishes
<1>3. CASE HandleLoaded
  <2>1. Loaded
    BY <1>0, <1>3, HeadTells DEF HandleLoaded, HeadIs
  <2>2. ~TurnInFlight
    BY <2>1, NotTurning
  <2>3. UNCHANGED <<chatName, cleared, turn>>
    BY <1>3 DEF HandleLoaded
  <2>4. ~\E t \in DOMAIN turn' : Alive(t)'
    BY <2>1, <2>3 DEF Loaded, NoTurn, Alive
  <2>5. Tail(mainQ) = << >>
    <3>1. ASSUME NEW a, NEW ok, mainQ = << [kind |-> "loaded", ai |-> a, ok |-> ok] >>
          PROVE  Tail(mainQ) = << >>
      BY <3>1
    <3> QED BY <2>1, <3>1 DEF Loaded
  <2>6. CASE stop_predict(Append(messages, ErrorText), TRUE) /\ mainQ' = Tail(mainQ)
    <3>1. ~Has(mainQ', "finish")
      BY <2>5, <2>6 DEF Has
    <3> QED
      BY <2>2, <2>3, <2>4, <2>6, <3>1 DEF Refuses, TurnInFlight
  <2>7. CASE /\ UNCHANGED <<ai, messages, predicting, history, chat, failed>>
             /\ \E x \in 0..MaxRequests, y \in BOOLEAN :
                   mainQ' = Append(Tail(mainQ), [kind |-> "send", req |-> x, rag |-> y])
    <3>1. PICK x, y : mainQ' = Append(<< >>, [kind |-> "send", req |-> x, rag |-> y])
      BY <2>5, <2>7
    <3>2. ~Has(mainQ', "finish")
      BY <3>1 DEF Has
    <3> QED
      BY <2>2, <2>3, <2>4, <2>7, <3>2 DEF Background, TurnsSame, ChatsSame, TurnInFlight
  <2>8. b.ai \in AIs
    BY <1>3, <1>b, BlockFields DEF HandleLoaded, HeadIs
  <2>9. ai[b.ai].onLoad \in 0..MaxRequests /\ ai[b.ai].onLoadRag \in BOOLEAN
    <3>1. ai[b.ai] \in AIRecord
      BY <2>8 DEF TypeOK
    <3> QED BY <3>1 DEF AIRecord
  <2>10. \/ stop_predict(Append(messages, ErrorText), TRUE) /\ mainQ' = Tail(mainQ)
         \/ /\ UNCHANGED <<ai, messages, predicting, history, chat, failed>>
            /\ mainQ' = Append(Tail(mainQ), [kind |-> "send", req |-> ai[b.ai].onLoad,
                                             rag |-> ai[b.ai].onLoadRag])
    BY <1>3 DEF HandleLoaded
  <2> QED
    BY <2>6, <2>7, <2>9, <2>10
<1>4. CASE HandleSend
  <2>1. Sending /\ Len(mainQ) = 1 /\ OnItsWay
    BY <1>0, <1>4, HeadTells DEF HandleSend, HeadIs
  <2>2. mainQ' = Tail(mainQ) /\ nRequests' = nRequests /\ Send(b.req, FALSE, b.rag, FALSE)
    BY <1>4 DEF HandleSend
  <2>3. b.req = nRequests /\ nRequests \in 0..MaxRequests /\ b.rag \in BOOLEAN
    BY <1>4, <1>b, <2>1, BlockFields, RequestFacts DEF Sending, HandleSend, HeadIs
  <2>4. NoTurn /\ ~Has(mainQ, "finish")
    BY <2>1, NotTurning DEF Sending, NoTurn, TurnInFlight
  <2>5. ~Has(mainQ', "finish")
    BY <1>0, <2>2, <2>4, HasPopped
  <2>6. TRUE \in BOOLEAN /\ FALSE \in BOOLEAN
    OBVIOUS
  <2> QED
    BY <2>2, <2>3, <2>4, <2>5, <2>6, SendKinds
<1>5. CASE HandleRagSearch
  <2>1. mainQ' = Tail(mainQ) /\ b.kind = "ragSearch"
        /\ UNCHANGED <<chatName, messages, history, chat, cleared, ai, turn>>
    BY <1>5 DEF HandleRagSearch, HeadIs
  <2>2. Retrieving \/ Sending
    BY <1>0, <2>1, HeadTells
  <2>3. ~TurnInFlight /\ NoTurn
    BY <2>2, NotTurning DEF Retrieving, Sending
  <2>4. ~Has(mainQ', "finish")
    BY <1>0, <2>1, <2>3, HasPopped DEF TurnInFlight
  <2>5. ~TurnInFlight'
    BY <2>1, <2>3, <2>4 DEF TurnInFlight, NoTurn, Alive
  <2> QED
    BY <2>1, <2>3, <2>5 DEF Background, TurnsSame, ChatsSame
<1> QED
  BY <1>1, <1>2, <1>3, <1>4, <1>5 DEF MainStep

\* The nine things a step can do to the transcript.
LEMMA StepKinds ==
  ASSUME ~SendWhileBusy, TypeOK, WorkInv, [Next]_vars
  PROVE  \/ Background \/ Stops \/ Selects \/ Clears \/ ShowsToken \/ Finishes
         \/ Refuses \/ SendsOnly \/ SendBegins
<1>1. CASE UNCHANGED vars
  BY <1>1 DEF vars, Background, TurnsSame, ChatsSame, TurnInFlight, Has, Alive
<1> QED
  BY <1>1, UserKinds, TaskKinds, MainKinds DEF Next

------------------------------------------------------------------------------
(* Texts *)

\* Messages with the same text show the same replies and begin one another.
LEMMA SameTextFacts ==
  ASSUME NEW old \in Seq(Message), NEW new \in Seq(Message), SameText(old, new)
  PROVE  /\ Shown(new) = Shown(old) /\ Begins(old, new)
         /\ old # << >> <=> new # << >>
         /\ old # << >> => SameMessage(old[Len(old)], new[Len(new)])
<1>1. /\ DOMAIN old = 1..Len(old) /\ DOMAIN new = 1..Len(old) /\ Len(new) = Len(old)
      /\ \A i \in 1..Len(old) : new[i].from = old[i].from /\ new[i].id = old[i].id
  BY MessageFacts DEF SameText, SameMessage
<1>2. Shown(new) = Shown(old)
  BY <1>1 DEF Shown
<1>3. Begins(old, new)
  BY <1>1 DEF Begins, SameMessage
<1>4. old # << >> <=> new # << >>
  BY <1>1, MessageFacts
<1>5. old # << >> => SameMessage(old[Len(old)], new[Len(new)])
  BY <1>1, MessageFacts DEF SameMessage
<1> QED
  BY <1>2, <1>3, <1>4, <1>5

\* A transcript begins itself.
LEMMA BeginsSelf ==
  ASSUME NEW text
  PROVE  Begins(text, text)
BY DEF Begins, SameMessage

\* Beginning is transitive.
LEMMA BeginsThrough ==
  ASSUME NEW old, NEW mid, NEW new, Begins(old, mid), Begins(mid, new)
  PROVE  Begins(old, new)
BY DEF Begins, SameMessage

\* A token or a completion takes the place of the last message.
LEMMA UpdateFacts ==
  ASSUME messages \in Seq(Message), NEW m \in Message, messages # << >>,
         NEW new, new = update_last_message(m)
  PROVE  /\ new \in Seq(Message) /\ Len(new) = Len(messages) /\ new # << >>
         /\ new[Len(messages)] = m
         /\ \A i \in 1..Len(messages) : i # Len(messages) => new[i] = messages[i]
<1>1. Len(messages) \in 1..Len(messages) /\ DOMAIN messages = 1..Len(messages)
  BY MessageFacts
<1>2. new = [messages EXCEPT ![Len(messages)] = m]
  BY DEF update_last_message
<1>3. new \in Seq(Message)
  BY UpdateType
<1>4. DOMAIN new = 1..Len(messages)
  BY <1>1, <1>2
<1>5. Len(new) = Len(messages)
  BY <1>3, <1>4, MessageFacts
<1> QED
  BY <1>1, <1>2, <1>3, <1>5, MessageFacts

\* What TranscriptKept says of one step.
KeptByStep ==
    /\ chatName' = chatName => Extends(messages, messages')
    /\ \A c \in Chats : Extends(history[c], history'[c])

TranscriptInv == TextInv /\ ClearedStaysCleared

\* What is on the screen while the last turn may write to it is the chat of that turn.
LEMMA CurrentIsLast ==
  ASSUME TypeOK, WorkInv, TurnIsHere, TurnHasPlace, TurnInFlight, Current
  PROVE  /\ turn[Len(turn)].chat = chatName /\ Len(turn) \notin cleared
         /\ Placed(messages, Len(turn)) /\ Len(turn) \in Turns /\ Len(turn) \in DOMAIN turn
<1>1. Len(turn) \in Turns /\ Len(turn) \in DOMAIN turn
  BY InFlightIsTurning
<1>2. chat # NoAI /\ ai[chat].chat = chatName
  BY DEF Current
<1>3. chat = turn[Len(turn)].ai /\ Len(turn) \notin cleared
  BY <1>2 DEF TurnIsHere
<1>4. turn[Len(turn)].chat = chatName
  BY <1>2, <1>3 DEF TurnIsHere
<1>5. Text(turn[Len(turn)].chat) = messages
  BY <1>4 DEF Text
<1>6. Placed(messages, Len(turn))
  BY <1>3, <1>5 DEF TurnHasPlace, Placed
<1> QED
  BY <1>1, <1>3, <1>4, <1>6

\* What a token or a completion writes replaces the reply it belongs to, or an error.
LEMMA WritesReply ==
  ASSUME TypeOK, Placed(messages, Len(turn)), Len(turn) \in Turns, NEW s \in {"predicting", "predicted"},
         NEW new, new = update_last_message(Reply(Len(turn), s))
  PROVE  /\ new \in Seq(Message) /\ Len(new) = Len(messages) /\ Placed(new, Len(turn))
         /\ Begins(messages, new)
         /\ Shown(new) \subseteq Shown(messages) \cup {Len(turn)}
         /\ new[Len(messages)] = Reply(Len(turn), s)
         /\ \A i \in 1..Len(messages) : i # Len(messages) => new[i] = messages[i]
<1>1. Reply(Len(turn), s) \in Message
  BY PieceTypes
<1>2. messages \in Seq(Message) /\ messages # << >>
  BY DEF Placed, TypeOK
<1>3. /\ new \in Seq(Message) /\ Len(new) = Len(messages) /\ new # << >>
      /\ new[Len(messages)] = Reply(Len(turn), s)
      /\ \A i \in 1..Len(messages) : i # Len(messages) => new[i] = messages[i]
  BY <1>1, <1>2, UpdateFacts
<1>4. Reply(Len(turn), s).from = "reply" /\ Reply(Len(turn), s).id = Len(turn)
  BY DEF Reply
<1>5. Placed(new, Len(turn))
  BY <1>3, <1>4 DEF Placed
<1>6. DOMAIN messages = 1..Len(messages) /\ DOMAIN new = 1..Len(messages)
  BY <1>2, <1>3, MessageFacts
<1>7. Begins(messages, new)
  BY <1>3, <1>4, <1>6 DEF Begins, SameMessage, Placed
<1>8. Shown(new) \subseteq Shown(messages) \cup {Len(turn)}
  BY <1>3, <1>4, <1>6 DEF Shown
<1> QED
  BY <1>3, <1>5, <1>7, <1>8

\* An error message is one more, of no turn, and it does not run.
LEMMA AppendsError ==
  ASSUME NEW text \in Seq(Message), NEW new, new = Append(text, ErrorText)
  PROVE  /\ new \in Seq(Message) /\ Len(new) = Len(text) + 1
         /\ Placed(new, Len(turn)) /\ Begins(text, new) /\ Shown(new) = Shown(text)
         /\ ~Running(new[Len(new)])
         /\ \A i \in 1..Len(text) : new[i] = text[i]
<1>1. ErrorText \in Message /\ ErrorText.from = "error" /\ ~Running(ErrorText)
  BY PieceTypes DEF ErrorText, Running
<1>2. /\ new \in Seq(Message) /\ Len(new) = Len(text) + 1
      /\ new[Len(text) + 1] = ErrorText
      /\ \A i \in 1..Len(text) : new[i] = text[i]
  BY <1>1, AppendProperties
<1>3. DOMAIN text = 1..Len(text) /\ DOMAIN new = 1..Len(text) + 1 /\ Len(text) \in Nat
  BY <1>2, MessageFacts
<1>4. \A i \in 1..Len(text) + 1 : i \in 1..Len(text) \/ i = Len(text) + 1
  BY <1>3
<1>5. 1..Len(text) \subseteq 1..Len(text) + 1
  BY <1>3
<1>6. Placed(new, Len(turn))
  BY <1>1, <1>2, <1>3, MessageFacts DEF Placed
<1>7. Begins(text, new)
  BY <1>2, <1>3, <1>5 DEF Begins, SameMessage
<1>8. {i \in DOMAIN new : new[i].from = "reply"} = {i \in DOMAIN text : text[i].from = "reply"}
  BY <1>1, <1>2, <1>3, <1>4, <1>5
<1>9. Shown(new) = Shown(text)
  BY <1>2, <1>3, <1>8 DEF Shown
<1> QED
  BY <1>1, <1>2, <1>6, <1>7, <1>9

\* A completion shows at most the reply of its own turn, and leaves none running.
LEMMA FinishFacts ==
  ASSUME TypeOK, WorkInv, TextInv, Finishes
  PROVE  /\ messages' \in Seq(Message) /\ Begins(messages, messages')
         /\ Shown(messages') \subseteq Shown(messages) \cup (IF Current THEN {Len(turn)} ELSE {})
         /\ Placed(messages, Len(turn)) => Placed(messages', Len(turn))
         /\ \A i \in 1..Len(messages') : ~Running(messages'[i])
<1> DEFINE shown == IF Current THEN update_last_message(Reply(Len(turn), "predicted"))
                    ELSE messages
<1>m. messages \in Seq(Message)
  BY DEF TypeOK
<1>1. PICK isError \in BOOLEAN : messages' = IF isError THEN Append(shown, ErrorText) ELSE shown
  BY DEF Finishes
<1>2. /\ shown \in Seq(Message) /\ Begins(messages, shown)
      /\ Shown(shown) \subseteq Shown(messages) \cup (IF Current THEN {Len(turn)} ELSE {})
      /\ Placed(messages, Len(turn)) => Placed(shown, Len(turn))
      /\ \A i \in 1..Len(shown) : ~Running(shown[i])
  <2>1. CASE Current
    <3>1. Placed(messages, Len(turn)) /\ Len(turn) \in Turns
      BY <2>1, CurrentIsLast DEF TextInv, Finishes
    <3>2. shown = update_last_message(Reply(Len(turn), "predicted"))
      BY <2>1
    <3> HIDE DEF shown
    <3>3. /\ shown \in Seq(Message) /\ Len(shown) = Len(messages) /\ Placed(shown, Len(turn))
          /\ Begins(messages, shown)
          /\ Shown(shown) \subseteq Shown(messages) \cup {Len(turn)}
          /\ shown[Len(messages)] = Reply(Len(turn), "predicted")
          /\ \A i \in 1..Len(messages) : i # Len(messages) => shown[i] = messages[i]
      BY <3>1, <3>2, WritesReply
    <3>4. ~Running(Reply(Len(turn), "predicted"))
      BY DEF Running, Reply
    <3>5. \A i \in 1..Len(messages) : i # Len(messages) => ~Running(messages[i])
      BY <1>m, MessageFacts DEF TextInv, RunningEnds, Running
    <3>6. \A i \in 1..Len(shown) : ~Running(shown[i])
      BY <3>3, <3>4, <3>5
    <3> QED
      BY <2>1, <3>3, <3>6
  <2>2. CASE ~Current
    <3>1. shown = messages
      BY <2>2
    <3>2. \A i \in 1..Len(messages) : ~Running(messages[i])
      BY <1>m, <2>2, MessageFacts DEF TextInv, RunningEnds, Running
    <3> HIDE DEF shown
    <3> QED
      BY <1>m, <3>1, <3>2, BeginsSelf
  <2> QED
    BY <2>1, <2>2
<1> HIDE DEF shown
<1>3. CASE ~isError
  BY <1>1, <1>2, <1>3
<1>4. CASE isError
  <2>1. messages' = Append(shown, ErrorText)
    BY <1>1, <1>4
  <2>2. /\ messages' \in Seq(Message) /\ Len(messages') = Len(shown) + 1
        /\ Placed(messages', Len(turn)) /\ Begins(shown, messages') /\ Shown(messages') = Shown(shown)
        /\ ~Running(messages'[Len(messages')])
        /\ \A i \in 1..Len(shown) : messages'[i] = shown[i]
    BY <1>2, <2>1, AppendsError
  <2>3. Begins(messages, messages')
    BY <1>2, <2>2, BeginsThrough
  <2>4. \A i \in 1..Len(messages') : i \in 1..Len(shown) \/ i = Len(messages')
    BY <1>2, <2>2, MessageFacts
  <2>5. \A i \in 1..Len(messages') : ~Running(messages'[i])
    BY <1>2, <2>2, <2>4
  <2> QED
    BY <1>2, <2>2, <2>3, <2>5
<1> QED
  BY <1>3, <1>4

------------------------------------------------------------------------------
(* The transcript: one lemma for each kind of step *)

\* The last turn stays where it is while it runs; Clear takes the object away from it.
LEMMA HereKept ==
  ASSUME TypeOK, WorkInv, TurnIsHere, TurnsSame, ChatsSame, TurnInFlight' => TurnInFlight,
         chat' = NoAI \/ UNCHANGED <<chat, cleared>>
  PROVE  TurnIsHere'
<1> SUFFICES ASSUME TurnInFlight'
             PROVE  /\ chat' \in {NoAI, turn'[Len(turn')].ai}
                    /\ ai'[turn'[Len(turn')].ai].chat = turn'[Len(turn')].chat
                    /\ Len(turn') \in cleared' => chat' = NoAI
  BY DEF TurnIsHere
<1>1. Len(turn) \in DOMAIN turn /\ turn[Len(turn)].ai \in AIs
  BY InFlightIsTurning DEF TurnRecord
<1>2. Len(turn') = Len(turn) /\ turn'[Len(turn)].ai = turn[Len(turn)].ai
      /\ turn'[Len(turn)].chat = turn[Len(turn)].chat
  BY <1>1 DEF TurnsSame
<1>3. ai'[turn[Len(turn)].ai].chat = ai[turn[Len(turn)].ai].chat
  BY <1>1 DEF ChatsSame
<1> QED
  BY <1>2, <1>3 DEF TurnIsHere

\* The place of its reply stays if the text it is in does, as far as who wrote what goes.
LEMMA PlaceKept ==
  ASSUME TypeOK, WorkInv, TurnHasPlace, TurnsSame, TurnInFlight' => TurnInFlight,
         cleared \subseteq cleared',
         ASSUME NEW c \in Chats, Len(turn) \notin cleared',
                Len(turn) \in DOMAIN turn, c = turn[Len(turn)].chat,
                Placed(Text(c), Len(turn))
         PROVE  Placed(Text(c)', Len(turn))
  PROVE  TurnHasPlace'
<1> SUFFICES ASSUME TurnInFlight', Len(turn') \notin cleared'
             PROVE  Placed(Text(turn[Len(turn)].chat)', Len(turn'))
  BY DEF TurnHasPlace
<1>1. Len(turn) \in DOMAIN turn /\ turn[Len(turn)].chat \in Chats
  BY InFlightIsTurning DEF TurnRecord
<1>2. Len(turn') = Len(turn) /\ turn'[Len(turn)].chat = turn[Len(turn)].chat
  BY <1>1 DEF TurnsSame
<1>3. Placed(Text(turn[Len(turn)].chat), Len(turn))
  BY <1>2 DEF TurnHasPlace
<1>4. Placed(Text(turn[Len(turn)].chat)', Len(turn))
  <2> DEFINE c == turn[Len(turn)].chat
  <2>1. Placed(Text(c)', Len(turn))
    BY <1>1, <1>2, <1>3
  <2> QED
    BY <1>1, <1>2, <2>1 DEF Text
<1> QED
  BY <1>2, <1>4

\* Only replies of chat c that were not cleared are in a text.
OfItsChat(c, text) == Shown(text) \subseteq RepliesOf(c) \ cleared

\* What it means that replies are at home, of the screen and of each file.
LEMMA HomeMeans ==
  ASSUME TypeOK
  PROVE  RepliesAtHome /\ ClearedStaysCleared <=>
           /\ OfItsChat(chatName, messages)
           /\ \A c \in Chats : OfItsChat(c, history[c])
           /\ cleared \subseteq DOMAIN turn
BY DEF RepliesAtHome, ClearedStaysCleared, OfItsChat

\* Replies stay at home if screen and files hold only those of their chats.
LEMMA HomeKept ==
  ASSUME TypeOK', TurnsSame, cleared' = cleared, cleared \subseteq DOMAIN turn,
         OfItsChat(chatName', messages'), \A c \in Chats : OfItsChat(c, history'[c])
  PROVE  RepliesAtHome' /\ ClearedStaysCleared'
<1>1. \A c : \A t : t \in RepliesOf(c)' <=> t \in RepliesOf(c)
  BY DEF RepliesOf, TurnsSame
<1>2. Shown(messages') \subseteq RepliesOf(chatName)' /\ Shown(messages') \cap cleared' = {}
  BY <1>1 DEF OfItsChat, RepliesOf, TurnsSame
<1>3. \A c \in Chats : Shown(history'[c]) \subseteq RepliesOf(c)' /\ Shown(history'[c]) \cap cleared' = {}
  BY <1>1 DEF OfItsChat
<1>4. cleared' \subseteq DOMAIN turn'
  BY DEF TurnsSame
<1>5. RepliesAtHome'
  BY <1>2, <1>3, <1>4 DEF RepliesAtHome
<1>6. ClearedStaysCleared'
  BY <1>2, <1>3 DEF ClearedStaysCleared
<1> QED
  BY <1>5, <1>6

\* A transcript that begins another is extended by it.
LEMMA ExtendsBegins ==
  ASSUME NEW old, NEW new, Begins(old, new)
  PROVE  Extends(old, new)
BY DEF Begins, Extends

\* Work in the background touches no transcript.
LEMMA BackgroundText ==
  ASSUME TypeOK, WorkInv, TranscriptInv, TypeOK', Background
  PROVE  TranscriptInv' /\ KeptByStep
<1> USE DEF TranscriptInv, TextInv, Background
<1>1. TurnIsHere'
  BY HereKept
<1>2. \A c : Text(c)' = Text(c)
  BY DEF Text
<1>3. TurnHasPlace'
  BY <1>2, PlaceKept
<1>4. RepliesAtHome' /\ ClearedStaysCleared'
  BY HomeMeans, HomeKept
<1>5. FileBegins'
  BY DEF FileBegins
<1>6. Current => Current'
  <2>1. Current => chat \in AIs
    BY DEF Current, TypeOK
  <2>2. ai' \in [AIs -> AIRecord]
    BY DEF TypeOK
  <2> QED
    BY <2>1 DEF Current, ChatsSame
<1>7. RunningEnds'
  BY <1>6 DEF RunningEnds
<1>8. KeptByStep
  BY BeginsSelf, ExtendsBegins DEF KeptByStep
<1> QED
  BY <1>1, <1>3, <1>4, <1>5, <1>7, <1>8

\* Stopping changes how the last message is shown, here and in the file.
LEMMA StopsText ==
  ASSUME TypeOK, WorkInv, TranscriptInv, TypeOK', Stops
  PROVE  TranscriptInv' /\ KeptByStep
<1> USE DEF TranscriptInv, TextInv, Stops
<1>t. messages \in Seq(Message) /\ history \in [Chats -> Seq(Message)] /\ chatName \in Chats
      /\ messages' \in Seq(Message)
  BY DEF TypeOK
<1>1. /\ messages' = StoppedLast(messages, FALSE) /\ chat' = chat
      /\ history' = [history EXCEPT ![chatName] = messages']
  BY DEF stop_predict
<1>2. /\ SameText(messages, messages')
      /\ \A i \in 1..Len(messages) : Running(messages'[i]) => Running(messages[i]) /\ i # Len(messages)
  BY <1>t, <1>1, StoppedFacts
<1>3. Shown(messages') = Shown(messages) /\ Begins(messages, messages')
      /\ (messages # << >> <=> messages' # << >>)
      /\ (messages # << >> => SameMessage(messages[Len(messages)], messages'[Len(messages')]))
  BY <1>t, <1>2, SameTextFacts
<1>4. TurnIsHere'
  BY <1>1, HereKept
<1>5. TurnHasPlace'
  <2>1. ASSUME NEW c \in Chats, Placed(Text(c), Len(turn)) PROVE Placed(Text(c)', Len(turn))
    <3>1. CASE c = chatName
      BY <1>3, <2>1, <3>1 DEF Text, Placed, SameMessage
    <3>2. CASE c # chatName
      BY <1>t, <1>1, <2>1, <3>2 DEF Text
    <3> QED BY <3>1, <3>2
  <2> QED
    BY <2>1, PlaceKept
<1>6. RepliesAtHome' /\ ClearedStaysCleared'
  <2>1. OfItsChat(chatName', messages')
    BY <1>3, HomeMeans DEF OfItsChat
  <2>2. \A c \in Chats : OfItsChat(c, history'[c])
    BY <1>t, <1>1, <2>1, HomeMeans
  <2> QED
    BY <2>1, <2>2, HomeMeans, HomeKept
<1>7. FileBegins'
  BY <1>t, <1>1, BeginsSelf DEF FileBegins
<1>8. RunningEnds'
  BY <1>t, <1>2, MessageFacts DEF RunningEnds, Running, SameText
<1>9. KeptByStep
  <2>1. Begins(history[chatName], history'[chatName])
    BY <1>t, <1>1, <1>3, BeginsThrough DEF FileBegins
  <2>2. \A c \in Chats : Begins(history[c], history'[c])
    BY <1>t, <1>1, <2>1, BeginsSelf
  <2> QED
    BY <1>3, <2>2, ExtendsBegins DEF KeptByStep
<1> QED
  BY <1>4, <1>5, <1>6, <1>7, <1>8, <1>9

\* Selecting a chat reads its file and leaves the transcripts.
LEMMA SelectsText ==
  ASSUME TypeOK, WorkInv, TranscriptInv, TypeOK', Selects
  PROVE  TranscriptInv' /\ KeptByStep
<1> USE DEF TranscriptInv, TextInv, Selects
<1> DEFINE stopped == StoppedLast(messages, FALSE)
<1>t. messages \in Seq(Message) /\ history \in [Chats -> Seq(Message)] /\ chatName \in Chats
      /\ messages' \in Seq(Message) /\ history' \in [Chats -> Seq(Message)] /\ chatName' \in Chats
  BY DEF TypeOK
<1>1. /\ history' = [history EXCEPT ![chatName] = stopped]
      /\ messages' = load_chat_history(history'[chatName']) /\ chat' = chat /\ cleared' = cleared
  BY DEF SelectChat
<1>2. stopped \in Seq(Message) /\ SameText(messages, stopped)
  BY <1>t, StoppedFacts, StoppedLastType
<1> HIDE DEF stopped
<1>3. /\ SameText(history'[chatName'], messages')
      /\ \A i \in 1..Len(history'[chatName']) : ~Running(messages'[i])
  BY <1>t, <1>1, LoadedFacts
<1>4. Shown(stopped) = Shown(messages) /\ Begins(messages, stopped)
      /\ (messages # << >> <=> stopped # << >>)
      /\ (messages # << >> => SameMessage(messages[Len(messages)], stopped[Len(stopped)]))
  BY <1>t, <1>2, SameTextFacts
<1> DEFINE old == history'[chatName']
<1>5. old \in Seq(Message) /\ Shown(messages') = Shown(old) /\ Begins(old, messages')
      /\ (old # << >> <=> messages' # << >>)
      /\ (old # << >> => SameMessage(old[Len(old)], messages'[Len(messages')]))
  BY <1>t, <1>3, SameTextFacts
<1> HIDE DEF old
<1>6. TurnIsHere'
  BY <1>1, HereKept
<1>7. TurnHasPlace'
  <2>1. ASSUME NEW c \in Chats, Placed(Text(c), Len(turn)) PROVE Placed(history'[c], Len(turn))
    <3>1. CASE c = chatName
      <4>1. history'[c] = stopped /\ Text(c) = messages
        BY <1>t, <1>1, <3>1 DEF Text
      <4> QED
        BY <1>4, <2>1, <4>1 DEF Placed, SameMessage
    <3>2. CASE c # chatName
      BY <1>t, <1>1, <2>1, <3>2 DEF Text
    <3> QED BY <3>1, <3>2
  <2>2. ASSUME NEW c \in Chats, Placed(Text(c), Len(turn)) PROVE Placed(Text(c)', Len(turn))
    <3>1. CASE c = chatName'
      <4>1. Placed(old, Len(turn))
        BY <2>1, <2>2, <3>1 DEF old
      <4>2. Placed(messages', Len(turn))
        BY <1>5, <4>1 DEF Placed, SameMessage
      <4> QED
        BY <3>1, <4>2 DEF Text
    <3>2. CASE c # chatName'
      BY <2>1, <2>2, <3>2 DEF Text
    <3> QED BY <3>1, <3>2
  <2> QED
    BY <1>1, <2>2, PlaceKept
<1>8. RepliesAtHome' /\ ClearedStaysCleared'
  <2>1. \A c \in Chats : OfItsChat(c, history'[c])
    BY <1>t, <1>1, <1>4, HomeMeans DEF OfItsChat
  <2>2. OfItsChat(chatName', messages')
    BY <1>t, <1>5, <2>1 DEF OfItsChat, old
  <2> QED
    BY <1>1, <2>1, <2>2, HomeMeans, HomeKept
<1>9. FileBegins'
  BY <1>5 DEF FileBegins, old
<1>10. RunningEnds'
  BY <1>t, <1>3, MessageFacts DEF RunningEnds, Running, SameText
<1>11. KeptByStep
  <2>1. Begins(history[chatName], stopped)
    BY <1>4, BeginsThrough DEF FileBegins
  <2>2. \A c \in Chats : Begins(history[c], history'[c])
    BY <1>t, <1>1, <2>1, BeginsSelf
  <2>3. chatName' = chatName => Begins(messages, messages')
    BY <1>t, <1>1, <1>4, <1>5, BeginsThrough DEF old
  <2> QED
    BY <2>2, <2>3, ExtendsBegins DEF KeptByStep
<1> QED
  BY <1>6, <1>7, <1>8, <1>9, <1>10, <1>11

\* Clear empties one transcript and its file, and notes the turns of it.
LEMMA ClearsText ==
  ASSUME TypeOK, WorkInv, TranscriptInv, TypeOK', Clears
  PROVE  TranscriptInv' /\ KeptByStep
<1> USE DEF TranscriptInv, TextInv, Clears
<1>t. history \in [Chats -> Seq(Message)] /\ chatName \in Chats
  BY DEF TypeOK
<1>1. /\ messages' = << >> /\ history' = [history EXCEPT ![chatName] = << >>]
      /\ chat' = NoAI /\ cleared' = cleared \cup RepliesOf(chatName)
      /\ chatName' = chatName
  BY DEF ClearChat, RepliesOf
<1>2. Shown(<< >>) = {}
  BY DEF Shown
<1>3. TurnIsHere'
  BY <1>1, HereKept
<1>4. TurnHasPlace'
  <2>1. ASSUME NEW c \in Chats, Len(turn) \notin cleared',
               Len(turn) \in DOMAIN turn, c = turn[Len(turn)].chat,
               Placed(Text(c), Len(turn))
        PROVE  Placed(Text(c)', Len(turn))
    <3>1. c # chatName
      BY <1>1, <2>1 DEF RepliesOf
    <3> QED
      BY <1>t, <1>1, <2>1, <3>1 DEF Text
  <2> QED
    BY <1>1, <2>1, PlaceKept
<1>5. RepliesAtHome'
  <2>1. \A c \in Chats : Shown(history'[c]) \subseteq RepliesOf(c)
    BY <1>t, <1>1, <1>2 DEF RepliesAtHome
  <2>2. RepliesOf(chatName) \subseteq DOMAIN turn
    BY DEF RepliesOf
  <2> QED
    BY <1>1, <1>2, <2>1, <2>2 DEF RepliesAtHome, RepliesOf, TurnsSame
<1>6. ClearedStaysCleared'
  <2>1. ASSUME NEW c \in Chats PROVE Shown(history'[c]) \cap cleared' = {}
    <3>1. CASE c = chatName
      BY <1>t, <1>1, <1>2, <3>1
    <3>2. CASE c # chatName
      <4>1. history'[c] = history[c] /\ Shown(history[c]) \subseteq RepliesOf(c)
            /\ Shown(history[c]) \cap cleared = {}
        BY <1>t, <1>1, <3>2, HomeMeans DEF RepliesAtHome, OfItsChat
      <4>2. RepliesOf(c) \cap RepliesOf(chatName) = {}
        BY <3>2 DEF RepliesOf
      <4> QED
        BY <1>1, <4>1, <4>2
    <3> QED BY <3>1, <3>2
  <2> QED
    BY <1>1, <1>2, <2>1 DEF ClearedStaysCleared
<1>7. FileBegins'
  BY <1>t, <1>1, BeginsSelf DEF FileBegins
<1>8. RunningEnds'
  BY <1>1 DEF RunningEnds
<1>9. KeptByStep
  <2>1. \A c \in Chats : history'[c] = << >> \/ history'[c] = history[c]
    BY <1>t, <1>1
  <2> QED
    BY <1>1, <2>1, BeginsSelf, ExtendsBegins DEF KeptByStep, Extends
<1> QED
  BY <1>3, <1>4, <1>5, <1>6, <1>7, <1>8, <1>9

\* A token goes into the reply of its own turn, or nowhere.
LEMMA ShowsTokenText ==
  ASSUME TypeOK, WorkInv, TranscriptInv, TypeOK', ShowsToken
  PROVE  TranscriptInv' /\ KeptByStep
<1> USE DEF TranscriptInv, TextInv, ShowsToken
<1>t. messages \in Seq(Message) /\ chatName \in Chats
  BY DEF TypeOK
<1>0. TurnsSame /\ ChatsSame
  BY DEF TurnsSame, ChatsSame
<1>1. /\ turn[Len(turn)].chat = chatName /\ Len(turn) \notin cleared
      /\ Placed(messages, Len(turn)) /\ Len(turn) \in Turns /\ Len(turn) \in DOMAIN turn
  BY CurrentIsLast
<1>2. /\ messages' \in Seq(Message) /\ Len(messages') = Len(messages) /\ Placed(messages', Len(turn))
      /\ Begins(messages, messages')
      /\ Shown(messages') \subseteq Shown(messages) \cup {Len(turn)}
      /\ \A i \in 1..Len(messages) : i # Len(messages) => messages'[i] = messages[i]
  BY <1>1, WritesReply
<1>3. TurnIsHere'
  BY <1>0, HereKept
<1>4. TurnHasPlace'
  <2>1. ASSUME NEW c \in Chats, Placed(Text(c), Len(turn)) PROVE Placed(Text(c)', Len(turn))
    BY <1>2, <2>1 DEF Text
  <2> QED
    BY <1>0, <2>1, PlaceKept
<1>5. RepliesAtHome' /\ ClearedStaysCleared'
  <2>1. OfItsChat(chatName', messages')
    BY <1>1, <1>2, HomeMeans DEF OfItsChat, RepliesOf
  <2> QED
    BY <1>0, <2>1, HomeMeans, HomeKept
<1>6. FileBegins'
  BY <1>2, BeginsThrough DEF FileBegins
<1>7. RunningEnds'
  BY <1>t, <1>2, MessageFacts DEF RunningEnds, Current
<1>8. KeptByStep
  BY <1>2, BeginsSelf, ExtendsBegins DEF KeptByStep
<1> QED
  BY <1>3, <1>4, <1>5, <1>6, <1>7, <1>8

\* A completion goes into the reply of its own turn, or nowhere.
LEMMA FinishesText ==
  ASSUME TypeOK, WorkInv, TranscriptInv, TypeOK', Finishes
  PROVE  TranscriptInv' /\ KeptByStep
<1> USE DEF TranscriptInv, TextInv
<1>t. messages \in Seq(Message) /\ chatName \in Chats /\ history \in [Chats -> Seq(Message)]
  BY DEF TypeOK
<1>0. /\ TurnsSame /\ ChatsSame /\ TurnInFlight /\ chatName' = chatName /\ chat' = chat
      /\ cleared' = cleared /\ history' = [history EXCEPT ![chatName] = messages']
  BY DEF TurnsSame, ChatsSame, Finishes
<1>1. /\ messages' \in Seq(Message) /\ Begins(messages, messages')
      /\ Shown(messages') \subseteq Shown(messages) \cup (IF Current THEN {Len(turn)} ELSE {})
      /\ Placed(messages, Len(turn)) => Placed(messages', Len(turn))
      /\ \A i \in 1..Len(messages') : ~Running(messages'[i])
  BY FinishFacts
<1>2. TurnIsHere'
  BY <1>0, HereKept
<1>3. TurnHasPlace'
  <2>1. ASSUME NEW c \in Chats, Placed(Text(c), Len(turn)) PROVE Placed(Text(c)', Len(turn))
    BY <1>t, <1>0, <1>1, <2>1 DEF Text
  <2> QED
    BY <1>0, <2>1, PlaceKept
<1>4. RepliesAtHome' /\ ClearedStaysCleared'
  <2>1. OfItsChat(chatName', messages')
    <3>1. CASE Current
      <4>1. /\ turn[Len(turn)].chat = chatName /\ Len(turn) \notin cleared
            /\ Len(turn) \in DOMAIN turn
        BY <1>0, <3>1, CurrentIsLast
      <4> QED
        BY <1>0, <1>1, <4>1, HomeMeans DEF OfItsChat, RepliesOf
    <3>2. CASE ~Current
      BY <1>0, <1>1, <3>2, HomeMeans DEF OfItsChat
    <3> QED BY <3>1, <3>2
  <2>2. \A c \in Chats : OfItsChat(c, history'[c])
    BY <1>t, <1>0, <2>1, HomeMeans
  <2> QED
    BY <1>0, <2>1, <2>2, HomeMeans, HomeKept
<1>5. FileBegins'
  BY <1>t, <1>0, BeginsSelf DEF FileBegins
<1>6. RunningEnds'
  BY <1>1, MessageFacts DEF RunningEnds, Running
<1>7. KeptByStep
  <2>1. Begins(history[chatName], messages')
    BY <1>1, BeginsThrough DEF FileBegins
  <2>2. \A c \in Chats : Begins(history[c], history'[c])
    BY <1>t, <1>0, <2>1, BeginsSelf
  <2> QED
    BY <1>1, <2>2, ExtendsBegins DEF KeptByStep
<1> QED
  BY <1>2, <1>3, <1>4, <1>5, <1>6, <1>7

\* A load that fails adds an error message and stops the last one.
LEMMA RefusesText ==
  ASSUME TypeOK, WorkInv, TranscriptInv, TypeOK', Refuses
  PROVE  TranscriptInv' /\ KeptByStep
<1> USE DEF TranscriptInv, TextInv, Refuses
<1> DEFINE noted == Append(messages, ErrorText)
<1>t. messages \in Seq(Message) /\ chatName \in Chats /\ history \in [Chats -> Seq(Message)]
      /\ messages' \in Seq(Message)
  BY DEF TypeOK
<1>0. TurnsSame
  BY DEF TurnsSame
<1>1. messages' = StoppedLast(noted, TRUE) /\ history' = [history EXCEPT ![chatName] = messages']
  BY DEF stop_predict
<1>2. /\ noted \in Seq(Message) /\ Len(noted) = Len(messages) + 1 /\ Begins(messages, noted)
      /\ Shown(noted) = Shown(messages) /\ ~Running(noted[Len(noted)])
      /\ \A i \in 1..Len(messages) : noted[i] = messages[i]
  BY <1>t, AppendsError
<1> HIDE DEF noted
<1>3. /\ SameText(noted, messages')
      /\ \A i \in 1..Len(noted) : Running(messages'[i]) => Running(noted[i]) /\ i # Len(noted)
  BY <1>1, <1>2, StoppedFacts
<1>4. Shown(messages') = Shown(noted) /\ Begins(noted, messages')
  BY <1>t, <1>2, <1>3, SameTextFacts
<1>5. Begins(messages, messages')
  BY <1>2, <1>4, BeginsThrough
<1>6. TurnIsHere' /\ TurnHasPlace'
  BY DEF TurnIsHere, TurnHasPlace
<1>7. RepliesAtHome' /\ ClearedStaysCleared'
  <2>1. OfItsChat(chatName', messages')
    BY <1>2, <1>4, HomeMeans DEF OfItsChat
  <2>2. \A c \in Chats : OfItsChat(c, history'[c])
    BY <1>t, <1>1, <2>1, HomeMeans
  <2> QED
    BY <1>0, <2>1, <2>2, HomeMeans, HomeKept
<1>8. FileBegins'
  BY <1>t, <1>1, BeginsSelf DEF FileBegins
<1>9. RunningEnds'
  <2>1. \A i \in 1..Len(messages) : ~Running(messages[i])
    BY <1>t, MessageFacts DEF RunningEnds, Running
  <2>2. \A i \in 1..Len(noted) : i # Len(noted) => i \in 1..Len(messages)
    BY <1>t, <1>2, MessageFacts
  <2>3. \A i \in 1..Len(noted) : ~Running(messages'[i])
    BY <1>2, <1>3, <2>1, <2>2
  <2> QED
    BY <1>t, <1>3, <2>3, MessageFacts DEF RunningEnds, Running, SameText
<1>10. KeptByStep
  <2>1. Begins(history[chatName], messages')
    BY <1>5, BeginsThrough DEF FileBegins
  <2>2. \A c \in Chats : Begins(history[c], history'[c])
    BY <1>t, <1>1, <2>1, BeginsSelf
  <2> QED
    BY <1>5, <2>2, ExtendsBegins DEF KeptByStep
<1> QED
  BY <1>6, <1>7, <1>8, <1>9, <1>10

\* Appending hides nothing and brings no reply but that of the turn it begins.
LEMMA AppendedFacts ==
  ASSUME TypeOK, ~TurnInFlight, RunningEnds, NEW new, NEW begins \in BOOLEAN, Appended(new, begins)
  PROVE  /\ Begins(messages, new)
         /\ Shown(new) \subseteq Shown(messages) \cup (IF begins THEN {Len(turn) + 1} ELSE {})
         /\ \A i \in 1..Len(new) : Running(new[i]) => begins /\ i = Len(new)
<1>1. /\ DOMAIN messages = 1..Len(messages) /\ DOMAIN new = 1..Len(new)
      /\ Len(messages) \in Nat /\ Len(new) \in Nat /\ Len(new) >= Len(messages)
  BY MessageFacts DEF TypeOK, Appended
<1>2. \A i \in 1..Len(new) : i \in 1..Len(messages) \/ i \in Len(messages) + 1..Len(new)
  BY <1>1
<1>3. 1..Len(messages) \subseteq 1..Len(new)
  BY <1>1
<1>4. Begins(messages, new)
  BY <1>1, <1>3 DEF Appended, Begins, SameMessage
<1>5. Reply(Len(turn) + 1, "none").id = Len(turn) + 1
  BY DEF Reply
<1>6. ASSUME NEW i \in 1..Len(new), new[i].from = "reply"
      PROVE  new[i].id \in Shown(messages) \cup (IF begins THEN {Len(turn) + 1} ELSE {})
  <2>1. CASE i \in 1..Len(messages)
    BY <1>1, <1>6, <2>1 DEF Appended, Shown
  <2>2. CASE i \in Len(messages) + 1..Len(new)
    BY <1>5, <1>6, <2>2 DEF Appended
  <2> QED BY <1>2, <2>1, <2>2
<1>7. Shown(new) \subseteq Shown(messages) \cup (IF begins THEN {Len(turn) + 1} ELSE {})
  BY <1>1, <1>6 DEF Shown
<1>8. ASSUME NEW i \in 1..Len(new), Running(new[i]) PROVE begins /\ i = Len(new)
  <2>1. CASE i \in 1..Len(messages)
    BY <1>1, <1>8, <2>1 DEF Appended, RunningEnds, Running
  <2>2. CASE i \in Len(messages) + 1..Len(new)
    BY <1>8, <2>2 DEF Appended
  <2> QED BY <1>2, <2>1, <2>2
<1> QED
  BY <1>4, <1>7, <1>8

\* A question that waits for a load or a retrieval is one more message at most.
LEMMA SendsOnlyText ==
  ASSUME TypeOK, WorkInv, TranscriptInv, TypeOK', SendsOnly
  PROVE  TranscriptInv' /\ KeptByStep
<1> USE DEF TranscriptInv, TextInv, SendsOnly
<1>0. TurnsSame
  BY DEF TurnsSame
<1>1. /\ Begins(messages, messages') /\ Shown(messages') \subseteq Shown(messages)
      /\ \A i \in 1..Len(messages') : ~Running(messages'[i])
  BY AppendedFacts
<1>2. TurnIsHere' /\ TurnHasPlace'
  BY DEF TurnIsHere, TurnHasPlace
<1>3. RepliesAtHome' /\ ClearedStaysCleared'
  <2>1. OfItsChat(chatName', messages')
    BY <1>1, HomeMeans DEF OfItsChat
  <2> QED
    BY <1>0, <2>1, HomeMeans, HomeKept
<1>4. FileBegins'
  BY <1>1, BeginsThrough DEF FileBegins
<1>5. RunningEnds'
  BY <1>1, MessageFacts DEF RunningEnds, Running, TypeOK
<1>6. KeptByStep
  BY <1>1, BeginsSelf, ExtendsBegins DEF KeptByStep
<1> QED
  BY <1>2, <1>3, <1>4, <1>5, <1>6

\* A turn that begins has its question and its reply at the end of its chat's transcript.
LEMMA SendBeginsText ==
  ASSUME TypeOK, WorkInv, TranscriptInv, TypeOK', SendBegins
  PROVE  TranscriptInv' /\ KeptByStep
<1> USE DEF TranscriptInv, TextInv, SendBegins
<1> DEFINE n == Len(turn) + 1
<1>1. /\ Begins(messages, messages') /\ Shown(messages') \subseteq Shown(messages) \cup {n}
      /\ \A i \in 1..Len(messages') : Running(messages'[i]) => i = Len(messages')
  BY AppendedFacts
<1>2. /\ Len(turn') = n /\ DOMAIN turn' = 1..n /\ n \in 1..n /\ n \notin DOMAIN turn
      /\ turn'[n] = [ai |-> chat', req |-> nRequests', chat |-> chatName, pc |-> "run"]
      /\ \A t \in DOMAIN turn : t \in DOMAIN turn' /\ turn'[t] = turn[t]
  BY AppendTurn, TurnFacts
<1>3. turn'[n].ai = chat' /\ turn'[n].chat = chatName
  BY <1>2
<1>4. n \notin cleared
  BY <1>2 DEF RepliesAtHome
<1>5. chat' # NoAI /\ chatName' = chatName /\ chatName \in Chats
  BY DEF TypeOK
<1>6. /\ messages' # << >> /\ messages'[Len(messages')] = Reply(n, "none")
      /\ messages' \in Seq(Message)
  <2>1. Len(messages') > Len(messages) /\ Len(messages) \in Nat
    BY MessageFacts DEF Appended, TypeOK
  <2> QED
    BY <2>1, MessageFacts DEF Appended, TypeOK
<1>7. Reply(n, "none").from = "reply" /\ Reply(n, "none").id = n
  BY DEF Reply
<1>8. TurnIsHere'
  BY <1>2, <1>3, <1>4 DEF TurnIsHere
<1>9. TurnHasPlace'
  <2>1. Placed(messages', n)
    BY <1>6, <1>7 DEF Placed
  <2> QED
    BY <1>2, <1>3, <2>1 DEF TurnHasPlace, Text
<1>10. \A c \in Chats : RepliesOf(c) \subseteq {t \in DOMAIN turn' : turn'[t].chat = c}
  BY <1>2 DEF RepliesOf
<1>11. Shown(messages') \subseteq RepliesOf(chatName)' /\ Shown(messages') \cap cleared = {}
  BY <1>1, <1>2, <1>3, <1>4, <1>5, <1>10, HomeMeans DEF OfItsChat, RepliesOf
<1>12. RepliesAtHome'
  BY <1>2, <1>10, <1>11 DEF RepliesAtHome, RepliesOf
<1>13. ClearedStaysCleared'
  BY <1>11, HomeMeans DEF ClearedStaysCleared, OfItsChat
<1>14. FileBegins'
  BY <1>1, BeginsThrough DEF FileBegins
<1>15. Current'
  BY <1>5 DEF Current
<1>16. RunningEnds'
  BY <1>1, <1>6, <1>15, MessageFacts DEF RunningEnds, Running
<1>17. KeptByStep
  BY <1>1, BeginsSelf, ExtendsBegins DEF KeptByStep
<1> QED
  BY <1>8, <1>9, <1>12, <1>13, <1>14, <1>16, <1>17

\* Every step keeps the transcripts, and takes nothing out of one but by Clear.
LEMMA TranscriptStep ==
  ASSUME ~SendWhileBusy, TypeOK, WorkInv, TranscriptInv, TypeOK', [Next]_vars
  PROVE  TranscriptInv' /\ KeptByStep
BY StepKinds, BackgroundText, StopsText, SelectsText, ClearsText, ShowsTokenText, FinishesText,
   RefusesText, SendsOnlyText, SendBeginsText

\* The transcripts are empty at the start.
LEMMA TranscriptInit == Init => TranscriptInv
<1> SUFFICES ASSUME Init PROVE TranscriptInv
  OBVIOUS
<1>1. /\ messages = << >> /\ turn = << >> /\ mainQ = << >> /\ cleared = {}
      /\ history = [c \in Chats |-> << >>] /\ chatName \in Chats
  BY DEF Init
<1>2. ~TurnInFlight
  BY <1>1 DEF TurnInFlight, Has
<1>3. Shown(<< >>) = {}
  BY DEF Shown
<1>4. TurnIsHere /\ TurnHasPlace
  BY <1>2 DEF TurnIsHere, TurnHasPlace
<1>5. RepliesAtHome
  BY <1>1, <1>3 DEF RepliesAtHome
<1>6. FileBegins
  BY <1>1 DEF FileBegins, Begins
<1>7. RunningEnds
  BY <1>1 DEF RunningEnds
<1>8. ClearedStaysCleared
  BY <1>1 DEF ClearedStaysCleared
<1> QED
  BY <1>4, <1>5, <1>6, <1>7, <1>8 DEF TranscriptInv, TextInv

\* The inductive invariant of a session with a user who waits.
PatientInv ==
    /\ TypeOK
    /\ WorkInv
    /\ TranscriptInv
    /\ predicting => TurnInFlight

\* The inductive invariant holds at the start.
LEMMA PatientInit == Init => PatientInv
BY TypeInit, WorkInit, TranscriptInit DEF PatientInv, Init

\* Every step of a patient user keeps the inductive invariant.
LEMMA PatientStep ==
  ASSUME ~SendWhileBusy, PatientInv, [Next]_vars
  PROVE  PatientInv' /\ KeptByStep
BY TypeStep, WorkStep, TranscriptStep, PredictingStep DEF PatientInv

\* The inductive invariant of a patient user.
LEMMA PatientAlways ==
  ASSUME ~SendWhileBusy
  PROVE  Spec => []PatientInv
<1>1. PatientInv /\ [Next]_vars => PatientInv'
  BY PatientStep
<1> QED
  BY <1>1, PatientInit, PTL DEF Spec

\* The stop button always reaches the turn that runs, or one whose completion is on its way:
\* no switch of chat, failed load or late block leaves a turn that cannot be stopped, short
\* of clearing the chat under it.
THEOREM StopReachesTurnCorrect ==
  ASSUME ~SendWhileBusy
  PROVE  Spec => []StopReachesTurn
<1>1. PatientInv => StopReachesTurn
  <2> SUFFICES ASSUME PatientInv, predicting, chat # NoAI, InQueue("finish") = {}
               PROVE  \E t \in DOMAIN turn : Alive(t) /\ turn[t].ai = chat
    BY DEF StopReachesTurn
  <2>1. TypeOK /\ WorkInv /\ TurnIsHere /\ TurnInFlight
    BY DEF PatientInv, TranscriptInv, TextInv
  <2>2. PICK t \in DOMAIN turn : Alive(t)
    BY <2>1, InQueueIsHas DEF TurnInFlight
  <2>3. t = Len(turn)
    BY <2>1, <2>2, InFlightIsTurning DEF Turning
  <2>4. turn[t].ai = chat
    BY <2>1, <2>3 DEF TurnIsHere
  <2> QED
    BY <2>2, <2>4
<1> QED
  BY <1>1, PatientAlways, PTL

\* A cleared conversation stays cleared: what a turn begun before Clear still produces never
\* reaches the screen or a history file, whatever chat is selected by then.
THEOREM ClearedStaysClearedCorrect ==
  ASSUME ~SendWhileBusy
  PROVE  Spec => []ClearedStaysCleared
<1>1. PatientInv => ClearedStaysCleared
  BY DEF PatientInv, TranscriptInv
<1> QED
  BY <1>1, PatientAlways, PTL

\* Nothing is left shown as running once the app is quiet, after any mixture of stops,
\* switches, errors and late tokens.
THEOREM NothingLeftRunningCorrect ==
  ASSUME ~SendWhileBusy
  PROVE  Spec => []NothingLeftRunning
<1>1. PatientInv => NothingLeftRunning
  <2> SUFFICES ASSUME PatientInv, Idle, NEW i \in DOMAIN messages,
                      messages[i].state \in {"none", "predicting"}
               PROVE  FALSE
    BY DEF NothingLeftRunning
  <2>1. TypeOK /\ WorkInv /\ RunningEnds
    BY DEF PatientInv, TranscriptInv, TextInv
  <2>2. ~TurnInFlight
    BY <2>1, NotTurning
  <2> QED
    BY <2>1, <2>2 DEF RunningEnds
<1> QED
  BY <1>1, PatientAlways, PTL

\* No step but Clear takes a message out of a transcript or its file or writes over one that
\* is not its own, however late the tokens and completions come.
THEOREM TranscriptKeptCorrect ==
  ASSUME ~SendWhileBusy
  PROVE  Spec => TranscriptKept
<1>1. PatientInv /\ [Next]_vars =>
        [/\ chatName' = chatName => Extends(messages, messages')
         /\ \A c \in Chats : Extends(history[c], history'[c])]_vars
  BY PatientStep DEF KeptByStep
<1> QED
  BY <1>1, PatientAlways, PTL DEF Spec, TranscriptKept
==============================================================================
