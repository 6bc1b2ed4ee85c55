------------------------------ MODULE RagIndex ------------------------------
(***************************************************************************)
(* The documents of the chats and their similarity indexes (RAG.swift).    *)
(*                                                                         *)
(* Every chat has a directory of documents and one saved index.  In memory *)
(* there is ONE index for all of them, the global similarityIndex, and the *)
(* text of a file on its way into an index goes through globals as well.   *)
(* The documents view, retrieval and the Shortcuts intents are tasks; each *)
(* await and each access to a global is a step of its own, because the     *)
(* functions belong to no actor and run in parallel.                       *)
(***************************************************************************)
EXTENDS Integers, FiniteSets

CONSTANTS
    Chats,     \* chat names, the one of the chat still being created included
    Files,     \* names of documents
    Model,     \* the embedding model a chat is created with
    Default,   \* embeddingModel when the process starts
    Slots,     \* bound: tasks that run at the same time
    Objects,   \* identities of SimilarityIndex objects
    Nil,
    Setups     \* what a behaviour may have, see Setup

\* What may go wrong: the process dies between two steps ("crash"), a write of an index stops
\* halfway ("torn") or fails ("write"), a document cannot be copied or read ("copy") or not be
\* removed ("remove"), and another embedding model is picked for a chat ("picker").
Faults == {"crash", "torn", "write", "copy", "remove", "picker"}

\* The chats that are used, the documents no text can be extracted from, how many
\* operations are started (a bound), and what may go wrong.
Setup == [chats : SUBSET Chats, textless : SUBSET Files, ops : Nat, faults : SUBSET Faults]

Models == {Model[c] : c \in Chats} \cup {Default}

ASSUME RagIndexAssumption ==
    /\ DOMAIN Model = Chats
    /\ Nil \notin Chats \cup Files \cup Objects
    /\ IsFiniteSet(Chats)
    /\ IsFiniteSet(Slots) /\ IsFiniteSet(Objects) /\ Cardinality(Objects) >= Cardinality(Slots) + 2
    /\ Setups \subseteq Setup

VARIABLES
    setup,     \* one of Setups
    docs,      \* chat -> files in documents/<chat>/docs
    disk,      \* chat -> RAG_index.json: is it "missing", "whole" or "torn", and its items
    heap,      \* the SimilarityIndex objects
    global,    \* similarityIndex
    embedding, \* embeddingModel
    contents,  \* folderContents
    textChunks,      \* folderTextChunks
    chatName,  \* AIChatModel.chat_name
    loaded,    \* AIChatModel.ragIndexLoaded
    models,    \* chat -> embedding models picked for it so far: see PickModel
    task,      \* what runs in each slot
    answer,    \* what the last retrieval searched
    behind,    \* chat -> documents a crash or a failure may have left out of step
    unsaved,   \* the last write has failed, and no index was loaded or saved since
    ops

stores == <<docs, disk, behind, unsaved>>
globals == <<heap, global, embedding, contents, textChunks>>
session == <<setup, models, chatName, loaded>>
ragVars == <<stores, globals, session, task, answer, ops>>

------------------------------------------------------------------------------
(* Index objects and their items *)

\* All chunks of one file, which always move together.
IndexItems == [file : Files, chat : Chats, model : Models]

\* How often the index holds them: nothing keeps an item from being added again.
Nothing == [i \in IndexItems |-> 0]

Plus(items, new) == [i \in IndexItems |-> items[i] + (IF i \in new THEN 1 ELSE 0)]

Held(items) == {i \in IndexItems : items[i] > 0}

Sources(items) == {i.file : i \in Held(items)}

removeItem(items, f) == [i \in IndexItems |-> IF i.file = f THEN 0 ELSE items[i]]

addItems(o, new) ==
    [heap EXCEPT ![o].items = Plus(@, {[file |-> n.file, chat |-> n.chat, model |-> heap[o].model] : n \in new})]

\* A new object gets the model of the moment and, until it loads an index, no items.
SimilarityIndex(c, items) == [owner |-> c, model |-> embedding, items |-> items]

New == CHOOSE o \in Objects : o # global /\ \A s \in Slots : task[s].obj # o

------------------------------------------------------------------------------
(* Tasks *)

Idle == [op |-> "none", chat |-> Nil, file |-> Nil, pc |-> "idle", obj |-> Nil, text |-> {}]

Goto(s, pc) == task' = [task EXCEPT ![s].pc = pc]

End(s) == task' = [task EXCEPT ![s] = Idle]

At(s, op, pc) == task[s].op \in op /\ task[s].pc = pc

Begin(s, op, c, f, pc) ==
    /\ task[s].pc = "idle" /\ ops < setup.ops
    /\ ops' = ops + 1
    /\ task' = [task EXCEPT ![s] = [Idle EXCEPT !.op = op, !.chat = c, !.file = f, !.pc = pc]]
    /\ answer' = Nil

LeaveBehind(c, f) == behind' = [behind EXCEPT ![c] = @ \cup {f}]

\* Nobody looks at the outcome of a copy, which leaves a file of that name as it is.
CopyFileToSandbox(c, f) ==
    \/ docs' = [docs EXCEPT ![c] = @ \cup {f}] /\ UNCHANGED behind
    \/ "copy" \in setup.faults /\ f \notin docs[c] /\ UNCHANGED docs /\ LeaveBehind(c, f)

\* Nor at that of a removal.
removeFile(c, f) ==
    \/ docs' = [docs EXCEPT ![c] = @ \ {f}] /\ UNCHANGED behind
    \/ "remove" \in setup.faults /\ UNCHANGED docs /\ LeaveBehind(c, f)

\* DocsView: the chosen file is copied into the directory, the original goes to addFileToIndex.
Import(s, c, f) ==
    /\ Begin(s, "import", c, f, "load")
    /\ CopyFileToSandbox(c, f)
    /\ UNCHANGED <<disk, unsaved, globals, session>>

\* "Question to Doc": the same, and then a retrieval over the index.
DocQuery(s, c, f) ==
    /\ Begin(s, "docquery", c, f, "load")
    /\ CopyFileToSandbox(c, f)
    /\ UNCHANGED <<disk, unsaved, globals, session>>

\* DocsView.delete: the file goes at once, its items in a task.
Delete(s, c, f) ==
    /\ f \in docs[c]
    /\ Begin(s, "delete", c, f, "load")
    /\ removeFile(c, f)
    /\ UNCHANGED <<disk, unsaved, globals, session>>

\* Mutant of Rebuild: the saved index is emptied before the new one is made.
RebuildFromEmpty(s, c) ==
    /\ Begin(s, "rebuild", c, Nil, "fetchDocs")
    /\ embedding' \in models[c]
    /\ disk' = [disk EXCEPT ![c] = [state |-> "whole", items |-> Nothing]]
    /\ UNCHANGED <<docs, behind, unsaved, heap, global, contents, textChunks, session>>

\* The button "Rebuild index".
Rebuild(s, c) ==
    /\ Begin(s, "rebuild", c, Nil, "fetchDocs")
    /\ embedding' \in models[c]
    /\ UNCHANGED <<stores, heap, global, contents, textChunks, session>>

\* The button "Load index".
LoadIndex(s, c) ==
    /\ Begin(s, "load", c, Nil, "load")
    /\ embedding' \in models[c]
    /\ UNCHANGED <<stores, heap, global, contents, textChunks, session>>

\* GenerateRagLLMQuery: a question in the chat window loads the index only once.
Ask(s) ==
    /\ chatName # Nil
    /\ Begin(s, "ask", chatName, Nil, "ask")
    /\ UNCHANGED <<stores, globals, session>>

AskLoaded(s) ==
    /\ task[s].pc = "ask"
    /\ Goto(s, IF loaded THEN "search" ELSE "load")
    /\ embedding' \in IF loaded THEN {embedding} ELSE models[task[s].chat]
    /\ UNCHANGED <<stores, heap, global, contents, textChunks, session, answer, ops>>

\* AIChatModel.reload_chat; nothing waits for a task of the chat before.
SelectChat(c) ==
    /\ chatName' = c /\ loaded' = FALSE
    /\ UNCHANGED <<setup, models, stores, globals, task, answer, ops>>

\* The picker of the embedding model.  The view it is in, the saved configuration and
\* AIChatModel each keep one of the models picked so far, and no index is made anew: an
\* operation may come with any of them.
PickModel(c, m) ==
    /\ "picker" \in setup.faults
    /\ models' = [models EXCEPT ![c] = @ \cup {m}]
    /\ UNCHANGED <<setup, chatName, loaded, stores, globals, task, answer, ops>>

------------------------------------------------------------------------------
(* loadExistingIndex *)

AfterLoad(s) ==
    CASE task[s].op \in {"ask", "question"} -> "search"
      [] task[s].op = "load" -> "idle"
      [] task[s].op \in {"import", "docquery", "delete"} /\ task[s].pc \in {"load", "publish"} -> "scan"
      [] task[s].op \in {"import", "docquery"} /\ task[s].pc \in {"reload", "republish"} -> "take"

Proceed(s) ==
    IF AfterLoad(s) = "idle" THEN End(s)
    ELSE task' = [task EXCEPT ![s].pc = AfterLoad(s), ![s].obj = Nil]

\* LoadRAGIndex notes that the index is loaded, whatever came of it.
NoteLoaded(s) == loaded' = IF task[s].op = "ask" THEN TRUE ELSE loaded

\* A missing file leaves the new object empty; only one that does not decode throws.
Load(s) ==
    /\ task[s].pc \in {"load", "reload"}
    /\ disk[task[s].chat].state # "torn"
    /\ heap' = [heap EXCEPT ![New] = SimilarityIndex(task[s].chat, disk[task[s].chat].items)]
    /\ task' = [task EXCEPT ![s].obj = New, ![s].pc = IF @ = "load" THEN "publish" ELSE "republish"]
    /\ UNCHANGED <<stores, global, embedding, contents, textChunks, session, answer, ops>>

LoadThrows(s) ==
    /\ task[s].pc \in {"load", "reload"}
    /\ disk[task[s].chat].state = "torn"
    /\ Proceed(s) /\ NoteLoaded(s)
    /\ UNCHANGED <<setup, models, stores, globals, chatName, answer, ops>>

Publish(s) ==
    /\ task[s].pc \in {"publish", "republish"}
    /\ global' = task[s].obj
    /\ unsaved' = FALSE
    /\ Proceed(s) /\ NoteLoaded(s)
    /\ UNCHANGED <<setup, models, docs, disk, behind, heap, embedding, contents, textChunks, chatName, answer, ops>>

------------------------------------------------------------------------------
(* removeFileFromIndex, and the check addFileToIndex makes with it *)

FileInIndex(s) == global # Nil /\ task[s].file \in Sources(heap[global].items)

\* Mutant of Imported: the intent relies on the index the import has left.
ImportedNoReload(s) ==
    IF task[s].op = "docquery"
    THEN /\ task' = [task EXCEPT ![s].op = "question", ![s].pc = "search", ![s].obj = Nil, ![s].text = {}]
         /\ UNCHANGED embedding
    ELSE End(s) /\ UNCHANGED embedding

\* The intent goes on to its question when the file is in, or was found to be.
Imported(s) ==
    IF task[s].op = "docquery"
    THEN /\ task' = [task EXCEPT ![s].op = "question", ![s].pc = "load", ![s].obj = Nil, ![s].text = {}]
         /\ embedding' \in models[task[s].chat]
    ELSE End(s) /\ UNCHANGED embedding

CheckFile(s) ==
    /\ At(s, {"import", "docquery"}, "scan")
    /\ IF FileInIndex(s) THEN Imported(s) ELSE Goto(s, "fetch") /\ UNCHANGED embedding
    /\ UNCHANGED <<stores, heap, global, contents, textChunks, session, answer, ops>>

\* Mutant of RemoveItems: the index is not saved.
RemoveItemsUnsaved(s) ==
    /\ At(s, {"delete"}, "scan")
    /\ heap' = IF global = Nil THEN heap
               ELSE [heap EXCEPT ![global].items = removeItem(@, task[s].file)]
    /\ End(s)
    /\ UNCHANGED <<stores, global, embedding, contents, textChunks, session, answer, ops>>

RemoveItems(s) ==
    /\ At(s, {"delete"}, "scan")
    /\ IF global = Nil
       THEN End(s) /\ UNCHANGED heap
       ELSE /\ heap' = [heap EXCEPT ![global].items = removeItem(@, task[s].file)]
            /\ Goto(s, "save")
    /\ UNCHANGED <<stores, global, embedding, contents, textChunks, session, answer, ops>>

------------------------------------------------------------------------------
(* addFileToIndex and BuildNewIndex *)

Fetch(s) ==
    /\ task[s].pc = "fetch"
    /\ contents' = {[file |-> task[s].file, chat |-> task[s].chat]}
    /\ Goto(s, "split")
    /\ UNCHANGED <<stores, heap, global, embedding, textChunks, session, answer, ops>>

\* The original of a document cannot be read.
FetchFails(s) ==
    /\ "copy" \in setup.faults /\ task[s].pc = "fetch"
    /\ contents' = {} /\ LeaveBehind(task[s].chat, task[s].file)
    /\ Goto(s, "split")
    /\ UNCHANGED <<docs, disk, unsaved, heap, global, embedding, textChunks, session, answer, ops>>

FetchDocs(s) ==
    /\ task[s].pc = "fetchDocs"
    /\ contents' = {[file |-> f, chat |-> task[s].chat] : f \in docs[task[s].chat]}
    /\ Goto(s, "splitDocs")
    /\ UNCHANGED <<stores, heap, global, embedding, textChunks, session, answer, ops>>

WithText == {c \in contents : c.file \notin setup.textless}

Split(s) ==
    /\ task[s].pc = "split"
    /\ textChunks' = WithText
    /\ embedding' \in models[task[s].chat]
    /\ Goto(s, "reload")
    /\ UNCHANGED <<stores, heap, global, contents, session, answer, ops>>

\* Mutant of SplitDocs: text of an earlier import is not thrown away.
SplitDocsOnce(s) ==
    /\ task[s].pc = "splitDocs"
    /\ textChunks' = IF textChunks # {} THEN textChunks ELSE WithText
    /\ Goto(s, "generate")
    /\ UNCHANGED <<stores, heap, global, embedding, contents, session, answer, ops>>

SplitDocs(s) ==
    /\ task[s].pc = "splitDocs"
    /\ textChunks' = WithText
    /\ Goto(s, "generate")
    /\ UNCHANGED <<stores, heap, global, embedding, contents, session, answer, ops>>

\* generateIndexFromChunks: the object is complete before it becomes the index.
Generate(s) ==
    /\ task[s].pc = "generate"
    /\ heap' = [heap EXCEPT ![New] = SimilarityIndex(task[s].chat,
           Plus(Nothing, {[file |-> n.file, chat |-> n.chat, model |-> embedding] : n \in textChunks}))]
    /\ task' = [task EXCEPT ![s].obj = New, ![s].pc = "generated"]
    /\ UNCHANGED <<stores, global, embedding, contents, textChunks, session, answer, ops>>

Generated(s) ==
    /\ task[s].pc = "generated"
    /\ global' = task[s].obj
    /\ task' = [task EXCEPT ![s].obj = Nil, ![s].pc = IF task[s].op = "rebuild" THEN "save" ELSE "take"]
    /\ UNCHANGED <<stores, heap, embedding, contents, textChunks, session, answer, ops>>

\* No index could be loaded: build one.  Otherwise add to the one that is there.
Take(s) ==
    /\ task[s].pc = "take"
    /\ IF global = Nil
       THEN Goto(s, "fetchDocs")
       ELSE task' = [task EXCEPT ![s].obj = global, ![s].text = textChunks, ![s].pc = "add"]
    /\ UNCHANGED <<stores, globals, session, answer, ops>>

Add(s) ==
    /\ task[s].pc = "add"
    /\ heap' = addItems(task[s].obj, task[s].text)
    /\ Goto(s, "assign")
    /\ UNCHANGED <<stores, global, embedding, contents, textChunks, session, answer, ops>>

\* Mutant of Assign: addFileToIndex ends without saving.
AssignUnsaved(s) ==
    /\ task[s].pc = "assign"
    /\ global' = task[s].obj
    /\ End(s)
    /\ UNCHANGED <<stores, heap, embedding, contents, textChunks, session, answer, ops>>

Assign(s) ==
    /\ task[s].pc = "assign"
    /\ global' = task[s].obj
    /\ task' = [task EXCEPT ![s].obj = Nil, ![s].pc = "save"]
    /\ UNCHANGED <<stores, heap, embedding, contents, textChunks, session, answer, ops>>

\* saveIndex writes whatever index is global now.
Save(s) ==
    /\ task[s].pc = "save"
    /\ disk' = IF global = Nil THEN disk
               ELSE [disk EXCEPT ![task[s].chat] = [state |-> "whole", items |-> heap[global].items]]
    /\ behind' = IF task[s].op = "rebuild" THEN [behind EXCEPT ![task[s].chat] = {}] ELSE behind
    /\ unsaved' = FALSE
    /\ Imported(s)
    /\ UNCHANGED <<docs, heap, global, contents, textChunks, session, answer, ops>>

\* data.write(to:) is not atomic.
Tear(c) ==
    /\ "torn" \in setup.faults
    /\ disk' = [disk EXCEPT ![c] = [state |-> "torn", items |-> Nothing]]
    /\ behind' = [behind EXCEPT ![c] = Files]

\* The error of a write is printed, and all goes on as if the index had been saved.
SaveFails(s) ==
    /\ "write" \in setup.faults /\ task[s].pc = "save" /\ global # Nil
    /\ \/ UNCHANGED disk /\ behind' = [behind EXCEPT ![task[s].chat] = @ \cup ({task[s].file} \cap Files)]
       \/ Tear(task[s].chat)
    /\ unsaved' = TRUE
    /\ Imported(s)
    /\ UNCHANGED <<docs, heap, global, contents, textChunks, session, answer, ops>>

------------------------------------------------------------------------------
(* searchIndexWithQuery *)

Search(s) ==
    /\ task[s].pc = "search" /\ global # Nil
    /\ task' = [task EXCEPT ![s].obj = global, ![s].pc = "answer"]
    /\ UNCHANGED <<stores, globals, session, answer, ops>>

\* The items are read after the query has been encoded.
Answer(s) ==
    /\ task[s].pc = "answer"
    /\ answer' = [op |-> task[s].op, chat |-> task[s].chat, file |-> task[s].file,
                  model |-> heap[task[s].obj].model, items |-> heap[task[s].obj].items]
    /\ End(s)
    /\ UNCHANGED <<stores, globals, session, ops>>

------------------------------------------------------------------------------
(* The process dies; disk and documents remain *)

Restart ==
    /\ heap' = [o \in Objects |-> [owner |-> Nil, model |-> Default, items |-> Nothing]]
    /\ global' = Nil /\ embedding' = Default /\ contents' = {} /\ textChunks' = {}
    /\ chatName' = Nil /\ loaded' = FALSE /\ unsaved' = FALSE /\ UNCHANGED <<setup, models>>
    /\ task' = [s \in Slots |-> Idle]
    /\ answer' = Nil

\* The documents that were being put in or taken out.
Interrupted(c) ==
    {task[s].file : s \in {r \in Slots : task[r].chat = c /\ task[r].op \in {"import", "docquery", "delete"}}}

Crash ==
    /\ "crash" \in setup.faults /\ \E s \in Slots : task[s].pc # "idle"
    /\ Restart
    /\ behind' = [c \in Chats |-> behind[c] \cup Interrupted(c)]
    /\ UNCHANGED <<docs, disk, ops>>

CrashInSave(s) ==
    /\ "crash" \in setup.faults /\ task[s].pc = "save" /\ global # Nil
    /\ Restart
    /\ Tear(task[s].chat)
    /\ UNCHANGED <<docs, ops>>

\* GenerateRagLLMQuery unwraps the results of a search without an index.
SearchTraps(s) ==
    /\ task[s].pc = "search" /\ global = Nil
    /\ Restart
    /\ behind' = [c \in Chats |-> behind[c] \cup Interrupted(c)]
    /\ UNCHANGED <<docs, disk, ops>>

------------------------------------------------------------------------------
RagInit ==
    /\ setup \in Setups
    /\ docs = [c \in Chats |-> {}]
    /\ disk = [c \in Chats |-> [state |-> "missing", items |-> Nothing]]
    /\ heap = [o \in Objects |-> [owner |-> Nil, model |-> Default, items |-> Nothing]]
    /\ global = Nil /\ embedding = Default /\ contents = {} /\ textChunks = {}
    /\ chatName = Nil /\ loaded = FALSE
    /\ models = [c \in Chats |-> {Model[c]}]
    /\ task = [s \in Slots |-> Idle]
    /\ answer = Nil
    /\ behind = [c \in Chats |-> {}] /\ unsaved = FALSE
    /\ ops = 0

Start(s) ==
    \/ \E c \in setup.chats, f \in Files : Import(s, c, f) \/ DocQuery(s, c, f) \/ Delete(s, c, f)
    \/ \E c \in setup.chats : Rebuild(s, c) \/ LoadIndex(s, c)
    \/ Ask(s)

Step(s) ==
    \/ AskLoaded(s) \/ Load(s) \/ LoadThrows(s) \/ Publish(s)
    \/ CheckFile(s) \/ RemoveItems(s)
    \/ Fetch(s) \/ FetchFails(s) \/ FetchDocs(s) \/ Split(s) \/ SplitDocs(s) \/ Generate(s) \/ Generated(s)
    \/ Take(s) \/ Add(s) \/ Assign(s) \/ Save(s) \/ SaveFails(s)
    \/ Search(s) \/ Answer(s) \/ SearchTraps(s)

RagNext ==
    \/ \E s \in Slots : Start(s) \/ Step(s) \/ CrashInSave(s)
    \/ \E c \in setup.chats : SelectChat(c) \/ \E m \in Models \ models[c] : PickModel(c, m)
    \/ Crash

RagSpec == RagInit /\ [][RagNext]_ragVars

\* A task that has been started is run by the cooperative thread pool.
RagFairSpec == RagSpec /\ \A s \in Slots : WF_ragVars(Step(s))

------------------------------------------------------------------------------
(* Properties.  They are about tasks that run one after the other: Slots has   *)
(* one member.  With two most of them fail, see README.                        *)

RagTypeOK ==
    /\ docs \in [Chats -> SUBSET Files] /\ behind \in [Chats -> SUBSET Files]
    /\ models \in [Chats -> SUBSET Models] /\ unsaved \in BOOLEAN
    /\ disk \in [Chats -> [state : {"missing", "whole", "torn"}, items : [IndexItems -> Nat]]]
    /\ heap \in [Objects -> [owner : Chats \cup {Nil}, model : Models, items : [IndexItems -> Nat]]]
    /\ global \in Objects \cup {Nil} /\ embedding \in Models
    /\ contents \subseteq [file : Files, chat : Chats] /\ textChunks \subseteq [file : Files, chat : Chats]
    /\ chatName \in Chats \cup {Nil} /\ loaded \in BOOLEAN
    /\ \A s \in Slots :
          /\ task[s].chat \in Chats \cup {Nil} /\ task[s].file \in Files \cup {Nil}
          /\ task[s].obj \in Objects \cup {Nil}
          /\ task[s].text \subseteq [file : Files, chat : Chats]
    /\ ops \in 0..setup.ops /\ setup \in Setups

\* The index file is written completely or not at all; else only IndexMatchesDocs is promised.
WritesWhole == "torn" \notin setup.faults

Quiet == \A s \in Slots : task[s].pc = "idle"

\* When nothing runs, the index in memory is the saved index of the chat it was made for: no
\* operation leaves the one changed and the other not, unless its write has failed, and then
\* the next index that is loaded or saved puts it right (RAG.swift, every save).
CacheCoherent ==
    WritesWhole /\ Quiet /\ global # Nil /\ ~unsaved =>
        heap[global].items = disk[heap[global].owner].items

\* When nothing runs, a chat's saved index holds the documents of its directory, but for
\* those that were in hand when the process died or a copy, a removal or a write failed, until
\* the next rebuild; no fault ever harms another document.
IndexMatchesDocs ==
    Quiet => \A c \in Chats : \A f \in Files \ behind[c] :
        f \in Sources(disk[c].items) <=> f \in docs[c] \ setup.textless

\* A saved index holds the documents of its own chat only, each once, under one model, and
\* that one was picked for this chat, although one object, one model and one text buffer serve
\* all chats and a failed operation leaves them as they are.
OwnItemsOnce ==
    WritesWhole => \A c \in Chats : \A i \in Held(disk[c].items) :
        /\ i.chat = c /\ i.model \in models[c] /\ disk[c].items[i] = 1
        /\ \A j \in Held(disk[c].items) : i.file = j.file => i = j

\* Together: memory and saved indexes agree, and each holds what is its chat's.
StoresCorrect == RagTypeOK /\ CacheCoherent /\ OwnItemsOnce

\* A retrieval always finds an index: results! in GenerateRagLLMQuery never traps.
NeverTraps == WritesWhole => \A s \in Slots : task[s].pc = "search" => global # Nil

\* "Question to Doc" searches the index of the chat it was asked for, as saved (also when its
\* own save has failed), with a model that was picked for that chat: as long as only one was,
\* the model the index was made with.
QuestionSearchesItsChat ==
    WritesWhole /\ answer # Nil /\ answer.op = "question" =>
        answer.items = disk[answer.chat].items /\ answer.model \in models[answer.chat]

\* A retrieval, the one of the chat window included, searches what is saved for its chat.
\* It loads the index only once, so this takes every other operation to publish what it
\* saves; with a second chat it does not hold (ragIndexLoaded, AIChatModel.swift), nor after
\* a write that failed.
RetrievalSearchesSaved ==
    Cardinality(setup.chats) = 1 /\ WritesWhole /\ ~unsaved /\ answer # Nil =>
         answer.items = disk[answer.chat].items

\* Together: what a retrieval is given to search.
RetrievalCorrect == NeverTraps /\ QuestionSearchesItsChat /\ RetrievalSearchesSaved

Documents == INSTANCE DocumentIndex WITH
    index <- [c \in Chats |-> Sources(disk[c].items)],
    astray <- [c \in Chats |-> behind[c] \cap Interrupted(c)],
    broken <- ~WritesWhole

\* The saved index only ever follows the directory: but for a document whose own copy or
\* removal has failed, no save takes in one that has been deleted or drops one that is there,
\* crashes between two steps and failed writes included.
FollowsDocs == Documents!Spec

\* Without faults the index always catches up: every document that was copied into a
\* directory gets into the index of its chat, or is deleted again.
EventuallyIndexed ==
    []<>(setup.faults = {} => \A c \in Chats : docs[c] \ setup.textless \subseteq Sources(disk[c].items))
==============================================================================
