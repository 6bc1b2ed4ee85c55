--------------------------- MODULE RagIndexProofs ---------------------------
(***************************************************************************)
(* Proofs about RagIndex for tasks that run one after the other, Slots has *)
(* one member: what the run retrieval checks for two chats and two         *)
(* documents holds for any number of chats, documents, models and          *)
(* operations, with crashes and torn files, copies, removals and writes    *)
(* that fail, and embedding models picked anew.                            *)
(***************************************************************************)
EXTENDS RagIndex, FiniteSetTheorems, TLAPS

Chunk == [file : Files, chat : Chats]

Importing == {"import", "docquery"}

\* Operations that put one document into an index or take it out.
Changing == Importing \cup {"delete"}

Ops == Changing \cup {"none", "rebuild", "load", "ask", "question"}

\* The steps of building an index, and those of addFileToIndex around them.
BuildSteps == {"fetchDocs", "splitDocs", "generate", "generated"}

AddSteps == {"fetch", "split", "reload", "republish", "take", "add", "assign"}

Pcs == BuildSteps \cup AddSteps \cup {"idle", "load", "publish", "scan", "save", "ask", "search", "answer"}

Task ==
    [op : Ops, chat : Chats \cup {Nil}, file : Files \cup {Nil}, pc : Pcs,
     obj : Objects \cup {Nil}, text : SUBSET Chunk]

\* A task is at a step of its operation, which is for a chat that is used and a document.
TaskOK(s) ==
    LET op == task[s].op
        pc == task[s].pc
    IN
    /\ op = "none" <=> pc = "idle"
    /\ pc \in {"load", "publish"} => op \in Changing \cup {"load", "ask", "question"}
    /\ pc = "scan" => op \in Changing
    /\ pc \in AddSteps => op \in Importing
    /\ pc \in BuildSteps => op \in Importing \cup {"rebuild"}
    /\ pc = "save" => op \in Changing \cup {"rebuild"}
    /\ pc = "ask" => op = "ask"
    /\ pc \in {"search", "answer"} => op \in {"ask", "question"}
    /\ op # "none" => task[s].chat \in setup.chats
    /\ op \in Changing => task[s].file \in Files

Typed ==
    /\ RagTypeOK
    /\ task \in [Slots -> Task]
    /\ chatName \in setup.chats \cup {Nil}

------------------------------------------------------------------------------
(* The inductive invariant *)

\* The saved index of the task's chat can be read.
Readable(s) == disk[task[s].chat].state # "torn"

\* Object o is what has just been loaded from that index.
Loaded(s, o) ==
    /\ o \in Objects
    /\ heap[o].owner = task[s].chat
    /\ heap[o].items = disk[task[s].chat].items

\* What an import puts into the index, and a rebuild.
Imports(s) == {[file |-> f, chat |-> task[s].chat] : f \in {task[s].file} \ setup.textless}

Rebuilds(s) == {[file |-> f, chat |-> task[s].chat] : f \in docs[task[s].chat] \ setup.textless}

\* Nothing of a document that could not be read.
Brings(s, new) ==
    new = Imports(s) \/ (new = {} /\ task[s].file \in behind[task[s].chat])

ItemsOf(m, new) == {[file |-> n.file, chat |-> n.chat, model |-> m] : n \in new}

\* Object o is what an operation is about to save.
Changed(s, o) ==
    LET saved == disk[task[s].chat].items IN
    /\ task[s].op = "rebuild" \/ Readable(s) =>
          o \in Objects /\ heap[o].owner = task[s].chat
    /\ task[s].op = "rebuild" \/ (task[s].op \in Importing /\ Readable(s)) =>
          heap[o].model \in models[task[s].chat]
    /\ task[s].op = "rebuild" => heap[o].items = Plus(Nothing, ItemsOf(heap[o].model, Rebuilds(s)))
    /\ task[s].op = "delete" /\ Readable(s) => heap[o].items = removeItem(saved, task[s].file)
    /\ task[s].op \in Importing /\ Readable(s) =>
          heap[o].items = Plus(saved, ItemsOf(heap[o].model, task[s].text))

\* The documents are as the operation left them, a failed copy or removal is noted, and what
\* it wants to add is not there yet.
DocsOfTask(s) ==
    /\ task[s].op \in Importing => task[s].file \in docs[task[s].chat] \cup behind[task[s].chat]
    /\ task[s].op = "delete" => task[s].file \notin docs[task[s].chat] \ behind[task[s].chat]
    /\ task[s].pc \in AddSteps \cup {"save"} /\ task[s].op \in Importing /\ Readable(s) =>
          task[s].file \notin Sources(disk[task[s].chat].items)
    /\ task[s].op \in Importing /\ task[s].pc \in BuildSteps => ~Readable(s)

\* The globals on the way of a text into an index hold what this task has put there.
BuffersOfTask(s) ==
    LET pc == task[s].pc IN
    /\ pc = "split" => \/ contents = {[file |-> task[s].file, chat |-> task[s].chat]}
                       \/ contents = {} /\ task[s].file \in behind[task[s].chat]
    /\ pc \in {"reload", "republish", "take"} /\ Readable(s) => Brings(s, textChunks)
    /\ pc \in {"add", "assign", "save"} /\ task[s].op \in Importing /\ Readable(s) =>
          Brings(s, task[s].text)
    /\ task[s].op = "rebuild" /\ pc = "splitDocs" =>
          contents = {[file |-> f, chat |-> task[s].chat] : f \in docs[task[s].chat]}
    /\ task[s].op = "rebuild" /\ pc = "generate" => textChunks = Rebuilds(s)
    /\ \/ pc = "reload"
       \/ pc = "load" /\ task[s].op = "question"
       \/ pc \in {"fetchDocs", "splitDocs", "generate"} /\ task[s].op = "rebuild"
       => embedding \in models[task[s].chat]

\* The object a task holds, and the global one, are the index of the task's chat.
ObjectsOfTask(s) ==
    LET pc == task[s].pc
        obj == task[s].obj
        op == task[s].op
    IN
    /\ pc \in {"publish", "republish"} => Readable(s) /\ obj # global /\ Loaded(s, obj)
    /\ pc = "republish" \/ (pc = "publish" /\ op = "question") => heap[obj].model \in models[task[s].chat]
    /\ pc = "scan" /\ Readable(s) => Loaded(s, global)
    /\ pc \in {"take", "add"} \/ (pc \in {"search", "answer"} /\ op = "question") =>
          (Readable(s) => Loaded(s, global) /\ heap[global].model \in models[task[s].chat])
    /\ pc \in {"add", "assign", "answer"} => obj = global /\ global \in Objects
    /\ pc = "generated" => obj \in Objects /\ obj # global /\ heap[obj].owner = task[s].chat
    /\ pc \in {"assign", "save"} => Changed(s, global)
    /\ pc = "generated" /\ op = "rebuild" => Changed(s, obj)

\* The index in memory: whose it is, when it is known to be there, when it is as saved.
GlobalInv(s) ==
    /\ global # Nil => global \in Objects /\ heap[global].owner \in setup.chats
    /\ WritesWhole /\ (loaded \/ task[s].pc \in {"search", "answer"}) => global # Nil
    /\ WritesWhole /\ global # Nil /\ ~unsaved /\ task[s].pc \notin {"assign", "save"} =>
          heap[global].items = disk[heap[global].owner].items

\* The document the task is putting in or taking out.
InHand(s, c, f) == task[s].op \in Changing /\ task[s].chat = c /\ task[s].file = f

\* The saved indexes: a torn one promises nothing, a crash spares the other documents.
DiskInv(s) ==
    /\ \A c \in Chats : disk[c].state = "torn" => behind[c] = Files /\ ~WritesWhole
    /\ \A c \in Chats : \A f \in Sources(disk[c].items) :
          WritesWhole \/ f \notin behind[c] => f \notin setup.textless
    /\ \A c \in Chats : \A f \in Files \ behind[c] :
          InHand(s, c, f) \/ (f \in Sources(disk[c].items) <=> f \in docs[c] \ setup.textless)
    /\ OwnItemsOnce

\* The last answer is forgotten when the next operation starts.
AnswerInv(s) ==
    /\ task[s].pc # "idle" => answer = Nil
    /\ answer # Nil => answer.chat \in Chats
    /\ QuestionSearchesItsChat /\ RetrievalSearchesSaved

Inv(s) ==
    /\ Typed /\ TaskOK(s)
    /\ DocsOfTask(s) /\ BuffersOfTask(s) /\ ObjectsOfTask(s)
    /\ GlobalInv(s) /\ DiskInv(s) /\ AnswerInv(s)

------------------------------------------------------------------------------
(* Lemmas about objects and items *)

USE RagIndexAssumption

\* What is picked for a chat are embedding models.
LEMMA ModelTypes ==
  ASSUME RagTypeOK
  PROVE  \A c \in Chats : \A m \in models[c] : m \in Models
  BY DEF RagTypeOK

\* There is always an object that neither the global index nor the task uses.
LEMMA NewFacts ==
  ASSUME NEW s, Slots = {s}
  PROVE  New \in Objects /\ New # global /\ New # task[s].obj
<1> DEFINE used == {global} \cup {task[s].obj}
<1>1. IsFiniteSet(used) /\ Cardinality(used) <= 2
  <2>1. IsFiniteSet({global}) /\ Cardinality({global}) = 1
    BY FS_Singleton, Zenon
  <2>2. IsFiniteSet(used)
    BY <2>1, FS_AddElement, Zenon
  <2>3. Cardinality(used) = IF task[s].obj \in {global} THEN 1 ELSE 1 + 1
    BY <2>1, FS_AddElement, Zenon
  <2> QED
    BY <2>2, <2>3
<1>2. Cardinality(Slots) = 1 /\ Cardinality(Objects) \in Nat /\ Cardinality(used) \in Nat
  BY <1>1, FS_Singleton, FS_CardinalityType
<1>3. ~(Objects \subseteq used)
  BY <1>1, <1>2, FS_Subset
<1>4. \E o \in Objects : o # global /\ \A r \in Slots : task[r].obj # o
  BY <1>3
<1> QED
  BY <1>4 DEF New

\* An empty index has no items.
LEMMA NothingHeld == Nothing \in [IndexItems -> Nat] /\ Sources(Nothing) = {} /\ Held(Nothing) = {}
  BY DEF Nothing, Sources, Held

\* Adding items adds their documents; what was not there before is there once.
LEMMA PlusFacts ==
  ASSUME NEW items \in [IndexItems -> Nat], NEW new \in SUBSET IndexItems
  PROVE  /\ Plus(items, new) \in [IndexItems -> Nat]
         /\ Held(Plus(items, new)) = Held(items) \cup new
         /\ Sources(Plus(items, new)) = Sources(items) \cup {i.file : i \in new}
         /\ \A i \in IndexItems : Plus(items, new)[i] = items[i] + (IF i \in new THEN 1 ELSE 0)
<1>1. Plus(items, new) \in [IndexItems -> Nat]
  BY DEF Plus
<1>2. \A i \in IndexItems : Plus(items, new)[i] = items[i] + (IF i \in new THEN 1 ELSE 0)
  BY DEF Plus
<1>3. Held(Plus(items, new)) = Held(items) \cup new
  BY <1>2 DEF Held
<1> QED
  BY <1>1, <1>2, <1>3 DEF Sources

\* What an index that is built anew holds.
LEMMA BuiltFacts ==
  ASSUME NEW new \in SUBSET IndexItems
  PROVE  /\ Held(Plus(Nothing, new)) = new
         /\ \A i \in IndexItems : Plus(Nothing, new)[i] = Nothing[i] + (IF i \in new THEN 1 ELSE 0)
<1>1. \A i \in IndexItems : Plus(Nothing, new)[i] = Nothing[i] + (IF i \in new THEN 1 ELSE 0)
  BY DEF Plus
<1>2. \A i \in IndexItems : Nothing[i] = 0
  BY DEF Nothing
<1> QED
  BY <1>1, <1>2 DEF Held

\* removeItem takes out the items of one file and no others.
LEMMA RemoveFacts ==
  ASSUME NEW items \in [IndexItems -> Nat], NEW f
  PROVE  /\ removeItem(items, f) \in [IndexItems -> Nat]
         /\ Held(removeItem(items, f)) = {i \in Held(items) : i.file # f}
         /\ Sources(removeItem(items, f)) = Sources(items) \ {f}
         /\ \A i \in IndexItems : i.file # f => removeItem(items, f)[i] = items[i]
<1>1. removeItem(items, f) \in [IndexItems -> Nat]
  BY DEF removeItem
<1>2. \A i \in IndexItems : removeItem(items, f)[i] = IF i.file = f THEN 0 ELSE items[i]
  BY DEF removeItem
<1>3. Held(removeItem(items, f)) = {i \in Held(items) : i.file # f}
  BY <1>2 DEF Held
<1> QED
  BY <1>1, <1>2, <1>3 DEF Sources

\* Chunks of documents, embedded with the model of their chat, are items.
LEMMA ItemsFacts ==
  ASSUME NEW new \in SUBSET Chunk, NEW m \in Models
  PROVE  /\ {[file |-> n.file, chat |-> n.chat, model |-> m] : n \in new} \in SUBSET IndexItems
         /\ {i.file : i \in {[file |-> n.file, chat |-> n.chat, model |-> m] : n \in new}} = {n.file : n \in new}
<1> DEFINE made == {[file |-> n.file, chat |-> n.chat, model |-> m] : n \in new}
<1>1. \A n \in new : n.file \in Files /\ n.chat \in Chats
  BY DEF Chunk
<1>2. made \in SUBSET IndexItems
  BY <1>1 DEF IndexItems
<1>3. {i.file : i \in made} = {n.file : n \in new}
  <2>1. \A x : x \in {i.file : i \in made} <=> \E i \in made : x = i.file
    OBVIOUS
  <2>2. \A x : (\E i \in made : x = i.file) <=> \E n \in new : x = n.file
    <3>1. \A i \in made : \E n \in new : i.file = n.file
      OBVIOUS
    <3>2. \A n \in new : [file |-> n.file, chat |-> n.chat, model |-> m] \in made
      OBVIOUS
    <3>3. \A n \in new : \E i \in made : i.file = n.file
      BY <3>2
    <3> QED
      BY <3>1, <3>3
  <2> QED
    BY <2>1, <2>2
<1> QED
  BY <1>2, <1>3
------------------------------------------------------------------------------
(* What a step does to its task *)

\* The task of slot s after the step.
Moved(s, op, c, f, pc, obj, txt) ==
    /\ task' \in [Slots -> Task]
    /\ task'[s].op = op /\ task'[s].chat = c /\ task'[s].file = f
    /\ task'[s].pc = pc /\ task'[s].obj = obj /\ task'[s].text = txt

\* It goes on to step pc with object obj and text txt.
Advanced(s, pc, obj, txt) == Moved(s, task[s].op, task[s].chat, task[s].file, pc, obj, txt)

Ended(s) == Moved(s, "none", Nil, Nil, "idle", Nil, {})

\* The types, spelled out for the only task.
LEMMA TypeFacts ==
  ASSUME NEW s, Slots = {s}, Typed
  PROVE  /\ docs \in [Chats -> SUBSET Files] /\ behind \in [Chats -> SUBSET Files]
         /\ disk \in [Chats -> [state : {"missing", "whole", "torn"}, items : [IndexItems -> Nat]]]
         /\ heap \in [Objects -> [owner : Chats \cup {Nil}, model : Models, items : [IndexItems -> Nat]]]
         /\ setup.chats \subseteq Chats /\ setup.textless \subseteq Files
         /\ task[s] \in Task
         /\ contents \subseteq Chunk /\ textChunks \subseteq Chunk /\ task[s].text \subseteq Chunk
<1>1. setup \in Setup
  BY RagIndexAssumption DEF Typed, RagTypeOK
<1>2. setup.chats \subseteq Chats /\ setup.textless \subseteq Files
  BY <1>1 DEF Setup
<1>3. task[s] \in Task
  BY DEF Typed
<1> QED
  BY <1>2, <1>3 DEF Typed, RagTypeOK, Chunk, Task

\* Assigning to the only slot sets that task.
LEMMA PutFacts ==
  ASSUME NEW s, Slots = {s}, task \in [Slots -> Task], NEW r \in Task,
         task' = [task EXCEPT ![s] = r]
  PROVE  Moved(s, r.op, r.chat, r.file, r.pc, r.obj, r.text)
  BY DEF Moved

\* The end of an operation leaves the task idle.
LEMMA EndFacts ==
  ASSUME NEW s, Slots = {s}, task \in [Slots -> Task], End(s)
  PROVE  Ended(s)
<1>1. Idle \in Task
  BY DEF Idle, Task, Ops, Pcs
<1> QED
  BY <1>1, PutFacts DEF End, Ended, Idle

\* A new process has no task.
LEMMA RestartFacts ==
  ASSUME NEW s, Slots = {s}, Restart
  PROVE  Ended(s)
<1>1. Idle \in Task
  BY DEF Idle, Task, Ops, Pcs
<1> QED
  BY <1>1 DEF Restart, Ended, Idle, Moved

\* An operation begins with its arguments, and holds nothing yet.
LEMMA BeginFacts ==
  ASSUME NEW s, Slots = {s}, task \in [Slots -> Task], NEW op \in Ops, NEW c \in Chats,
         NEW f \in Files \cup {Nil}, NEW pc \in Pcs, Begin(s, op, c, f, pc)
  PROVE  Moved(s, op, c, f, pc, Nil, {})
<1> DEFINE r == [Idle EXCEPT !.op = op, !.chat = c, !.file = f, !.pc = pc]
<1>1. Idle \in Task /\ Idle.obj = Nil /\ Idle.text = {}
  BY DEF Idle, Task, Ops, Pcs
<1>2. /\ r \in Task /\ r.op = op /\ r.chat = c /\ r.file = f /\ r.pc = pc
      /\ r.obj = Nil /\ r.text = {}
  BY <1>1 DEF Task
<1>3. task' = [task EXCEPT ![s] = r]
  BY DEF Begin
<1> HIDE DEF r
<1>4. Moved(s, r.op, r.chat, r.file, r.pc, r.obj, r.text)
  BY <1>2, <1>3, PutFacts
<1> QED
  BY <1>2, <1>4 DEF Moved

\* Going on moves only the program counter.
LEMMA GotoFacts ==
  ASSUME NEW s, Slots = {s}, task \in [Slots -> Task], NEW pc \in Pcs, Goto(s, pc)
  PROVE  Advanced(s, pc, task[s].obj, task[s].text)
<1> DEFINE r == [task[s] EXCEPT !.pc = pc]
<1>1. task[s] \in Task
  OBVIOUS
<1>2. /\ r \in Task /\ r.op = task[s].op /\ r.chat = task[s].chat /\ r.file = task[s].file
      /\ r.pc = pc /\ r.obj = task[s].obj /\ r.text = task[s].text
  BY <1>1 DEF Task
<1>3. task' = [task EXCEPT ![s] = r]
  BY DEF Goto
<1> HIDE DEF r
<1> QED
  BY <1>2, <1>3, PutFacts DEF Advanced

\* Taking an object moves the program counter and names the object.
LEMMA HoldFacts ==
  ASSUME NEW s, Slots = {s}, task \in [Slots -> Task], NEW pc \in Pcs,
         NEW o \in Objects \cup {Nil},
         task' = [task EXCEPT ![s].obj = o, ![s].pc = pc]
  PROVE  Advanced(s, pc, o, task[s].text)
<1> DEFINE r == [task[s] EXCEPT !.obj = o, !.pc = pc]
<1>1. task[s] \in Task
  OBVIOUS
<1>2. /\ r \in Task /\ r.op = task[s].op /\ r.chat = task[s].chat /\ r.file = task[s].file
      /\ r.pc = pc /\ r.obj = o /\ r.text = task[s].text
  BY <1>1 DEF Task
<1>3. task' = [task EXCEPT ![s] = r]
  OBVIOUS
<1> HIDE DEF r
<1> QED
  BY <1>2, <1>3, PutFacts DEF Advanced

------------------------------------------------------------------------------
(* What a step leaves alone *)

\* While the stores stay as they are, they stay right: only the end of an operation asks for more.
LEMMA DiskFrame ==
  ASSUME NEW s, DiskInv(s), UNCHANGED <<docs, disk, behind, setup>>,
         \A c \in Chats : models[c] \subseteq models'[c],
         task[s].op \in Changing => /\ task'[s].op \in Changing
                                    /\ task'[s].chat = task[s].chat /\ task'[s].file = task[s].file
  PROVE  DiskInv(s)'
<1>1. OwnItemsOnce'
  BY DEF DiskInv, OwnItemsOnce, WritesWhole, Held
<1>2. \A c, f : InHand(s, c, f) => InHand(s, c, f)'
  BY DEF InHand
<1>3. \A c : Sources(disk[c].items)' = Sources(disk[c].items)
  BY DEF Sources, Held
<1> QED
  BY <1>1, <1>2, <1>3 DEF DiskInv, WritesWhole

\* A torn file stays noted with all its documents.
LEMMA TornStays ==
  ASSUME NEW s, DiskInv(s), behind' \in [Chats -> SUBSET Files],
         \A c \in Chats : behind[c] \subseteq behind'[c]
  PROVE  \A c \in Chats : disk[c].state = "torn" => behind'[c] = Files /\ ~WritesWhole
<1> SUFFICES ASSUME NEW c \in Chats, disk[c].state = "torn"
             PROVE  behind'[c] = Files /\ ~WritesWhole
  OBVIOUS
<1>1. behind[c] = Files /\ ~WritesWhole
  BY DEF DiskInv
<1>2. behind'[c] \subseteq Files /\ Files \subseteq behind'[c]
  BY <1>1
<1> QED
  BY <1>1, <1>2

\* Nor does it harm them that more documents are noted as left behind.
LEMMA DiskGrows ==
  ASSUME NEW s, DiskInv(s), UNCHANGED <<docs, disk, setup, models>>,
         behind' \in [Chats -> SUBSET Files], \A c \in Chats : behind[c] \subseteq behind'[c],
         task'[s].op = task[s].op /\ task'[s].chat = task[s].chat /\ task'[s].file = task[s].file
  PROVE  DiskInv(s)'
<1>1. OwnItemsOnce'
  BY DEF DiskInv, OwnItemsOnce, WritesWhole, Held
<1>2. \A c, f : InHand(s, c, f)' <=> InHand(s, c, f)
  BY DEF InHand
<1>3. \A c : Sources(disk[c].items)' = Sources(disk[c].items)
  BY DEF Sources, Held
<1>4. \A c \in Chats : disk[c].state = "torn" => behind'[c] = Files /\ ~WritesWhole
  BY TornStays
<1>5. \A c \in Chats : \A f \in Sources(disk[c].items) :
         WritesWhole \/ f \notin behind'[c] => f \notin setup.textless
  BY DEF DiskInv
<1>6. \A c \in Chats : \A f \in Files \ behind'[c] :
         InHand(s, c, f) \/ (f \in Sources(disk[c].items) <=> f \in docs[c] \ setup.textless)
  BY DEF DiskInv
<1> QED
  BY <1>1, <1>2, <1>3, <1>4, <1>5, <1>6 DEF DiskInv, WritesWhole

\* An answer stays right as long as the saved indexes do not change.
LEMMA AnswerFrame ==
  ASSUME NEW s, AnswerInv(s), UNCHANGED <<disk, answer, setup, unsaved>>,
         \A c \in Chats : models[c] \subseteq models'[c],
         task'[s].pc # "idle" => task[s].pc # "idle"
  PROVE  AnswerInv(s)'
  BY DEF AnswerInv, QuestionSearchesItsChat, RetrievalSearchesSaved, WritesWhole

\* Without an answer there is nothing to say of it.
LEMMA AnswerForgotten ==
  ASSUME NEW s, answer' = Nil
  PROVE  AnswerInv(s)'
  BY DEF AnswerInv, QuestionSearchesItsChat, RetrievalSearchesSaved

\* The index in memory stays as it is while the operation goes on.
LEMMA GlobalFrame ==
  ASSUME NEW s, GlobalInv(s), UNCHANGED <<disk, heap, global, loaded, setup, unsaved>>,
         task'[s].pc \in {"search", "answer"} => task[s].pc \in {"search", "answer"} \/ loaded,
         task[s].pc \in {"assign", "save"} => task'[s].pc \in {"assign", "save"}
  PROVE  GlobalInv(s)'
  BY DEF GlobalInv, WritesWhole

------------------------------------------------------------------------------
(* An operation starts *)

\* An operation that begins on a settled state keeps the invariant.
LEMMA Started ==
  ASSUME NEW s, Slots = {s}, Inv(s), NEW op \in Ops, NEW c \in setup.chats,
         NEW f \in Files \cup {Nil}, NEW pc \in Pcs, Moved(s, op, c, f, pc, Nil, {}),
         task[s].pc = "idle", answer' = Nil, ops' \in 0..setup.ops,
         UNCHANGED <<disk, heap, global, contents, textChunks, setup, models, unsaved, chatName, loaded>>,
         embedding' \in {embedding} \cup models[c],
         op # "none",
         op \in Changing => f \in Files /\ pc = "load",
         op \in Importing => CopyFileToSandbox(c, f),
         op = "delete" => removeFile(c, f),
         op \notin Changing => UNCHANGED <<docs, behind>>,
         op = "rebuild" => pc = "fetchDocs" /\ embedding' \in models[c],
         op = "load" => pc = "load",
         op = "ask" => pc = "ask",
         op # "question"
  PROVE  Inv(s)'
<1>0. c \in Chats /\ task' \in [Slots -> Task]
  BY TypeFacts DEF Inv, Moved
<1>1. /\ docs' \in [Chats -> SUBSET Files] /\ \A b \in Chats \ {c} : docs'[b] = docs[b]
      /\ behind' \in [Chats -> SUBSET Files] /\ \A b \in Chats : behind[b] \subseteq behind'[b]
  <2>1. docs \in [Chats -> SUBSET Files] /\ behind \in [Chats -> SUBSET Files]
    BY TypeFacts DEF Inv
  <2>2. CASE op \in Importing
    BY <1>0, <2>1, <2>2 DEF Changing, CopyFileToSandbox, LeaveBehind
  <2>3. CASE op = "delete"
    BY <1>0, <2>1, <2>3 DEF Changing, removeFile, LeaveBehind
  <2>4. CASE op \notin Changing
    BY <2>1, <2>4
  <2> QED
    BY <2>2, <2>3, <2>4 DEF Changing
<1>2. /\ docs'[c] \ {f} = docs[c] \ {f} /\ (op \notin Changing => docs'[c] = docs[c])
      /\ op \in Importing => f \in docs'[c] \cup behind'[c]
      /\ op = "delete" => f \notin docs'[c] \ behind'[c]
  BY <1>0, TypeFacts DEF Inv, Changing, Importing, CopyFileToSandbox, removeFile, LeaveBehind
<1>3. Typed'
  <2>1. embedding' \in Models
    BY <1>0, ModelTypes DEF Inv, Typed, RagTypeOK
  <2>2. /\ task'[s].chat \in Chats \cup {Nil} /\ task'[s].file \in Files \cup {Nil}
        /\ task'[s].obj \in Objects \cup {Nil}
        /\ task'[s].text \subseteq [file : Files, chat : Chats]
    BY <1>0 DEF Moved
  <2> QED
    BY <1>0, <1>1, <2>1, <2>2 DEF Inv, Typed, RagTypeOK
<1>4. TaskOK(s)'
  BY DEF Moved, TaskOK, Ops, Changing, Importing, AddSteps, BuildSteps
<1>5. DocsOfTask(s)'
  BY <1>0, <1>2 DEF Inv, Moved, DocsOfTask, Ops, Changing, Importing, AddSteps, BuildSteps
<1>6. BuffersOfTask(s)'
  BY DEF Moved, BuffersOfTask, Ops, Changing, Importing
<1>7. ObjectsOfTask(s)'
  BY DEF Moved, ObjectsOfTask, Ops, Changing, Importing
<1>8. GlobalInv(s)'
  BY GlobalFrame DEF Inv, Moved, Ops, Changing, Importing
<1>9. DiskInv(s)'
  <2>1. task[s].op = "none"
    BY DEF Inv, TaskOK
  <2>2. OwnItemsOnce'
    BY DEF Inv, DiskInv, OwnItemsOnce, WritesWhole, Held
  <2>3. \A b \in Chats : Sources(disk[b].items)' = Sources(disk[b].items)
    BY DEF Sources, Held
  <2>4. ASSUME NEW b \in Chats, NEW g \in Files \ behind'[b], ~InHand(s, b, g)'
        PROVE  g \in Sources(disk[b].items) <=> g \in docs'[b] \ setup.textless
    <3>1. g \in Sources(disk[b].items) <=> g \in docs[b] \ setup.textless
      BY <1>1, <2>1, <2>4 DEF Inv, DiskInv, InHand, Changing, Importing
    <3>2. b # c \/ g # f \/ op \notin Changing
      BY <2>4 DEF InHand, Moved
    <3>3. g \in docs'[b] <=> g \in docs[b]
      BY <1>1, <1>2, <3>2
    <3> QED
      BY <3>1, <3>3
  <2>5. \A b \in Chats : disk[b].state = "torn" => behind'[b] = Files /\ ~WritesWhole
    BY <1>1, TornStays DEF Inv
  <2>6. \A b \in Chats : \A g \in Sources(disk[b].items) :
           WritesWhole \/ g \notin behind'[b] => g \notin setup.textless
    BY <1>1 DEF Inv, DiskInv
  <2>7. WritesWhole' = WritesWhole
    BY DEF WritesWhole
  <2> QED
    BY <2>2, <2>3, <2>4, <2>5, <2>6, <2>7 DEF DiskInv
<1> QED
  BY <1>3, <1>4, <1>5, <1>6, <1>7, <1>8, <1>9, AnswerForgotten DEF Inv

\* Every operation begins from a state in which nothing runs.
LEMMA StartStep ==
  ASSUME NEW s, Slots = {s}, Inv(s), Start(s)
  PROVE  Inv(s)'
<1>1. setup.chats \subseteq Chats /\ task \in [Slots -> Task] /\ chatName \in setup.chats \cup {Nil}
  BY TypeFacts DEF Inv, Typed
<1>2. ASSUME NEW op \in Ops, NEW c \in setup.chats, NEW f \in Files \cup {Nil}, NEW pc \in Pcs,
             Begin(s, op, c, f, pc), UNCHANGED <<session, unsaved>>
      PROVE  /\ Moved(s, op, c, f, pc, Nil, {}) /\ task[s].pc = "idle" /\ answer' = Nil
             /\ ops' \in 0..setup.ops /\ UNCHANGED <<setup, models, unsaved, chatName, loaded>>
  <2>1. Moved(s, op, c, f, pc, Nil, {})
    BY <1>1, <1>2, BeginFacts
  <2>2. setup.ops \in Nat
    BY RagIndexAssumption DEF Inv, Typed, RagTypeOK, Setup
  <2> QED
    BY <1>2, <2>1, <2>2 DEF Begin, session, Inv, Typed, RagTypeOK
<1> USE DEF Ops, Changing, Importing, Pcs, BuildSteps, AddSteps, globals, stores
<1>3. ASSUME NEW c \in setup.chats, NEW f \in Files, Import(s, c, f) PROVE Inv(s)'
  <2>1. Begin(s, "import", c, f, "load") /\ UNCHANGED <<session, unsaved>>
    BY <1>3 DEF Import
  <2>2. /\ CopyFileToSandbox(c, f)
        /\ UNCHANGED <<disk, heap, global, contents, textChunks, embedding>>
    BY <1>3 DEF Import
  <2>3. /\ Moved(s, "import", c, f, "load", Nil, {}) /\ task[s].pc = "idle" /\ answer' = Nil
        /\ ops' \in 0..setup.ops /\ UNCHANGED <<setup, models, unsaved, chatName, loaded>>
    BY <1>2, <2>1
  <2> QED
    BY <2>2, <2>3, Started
<1>4. ASSUME NEW c \in setup.chats, NEW f \in Files, DocQuery(s, c, f) PROVE Inv(s)'
  <2>1. Begin(s, "docquery", c, f, "load") /\ UNCHANGED <<session, unsaved>>
    BY <1>4 DEF DocQuery
  <2>2. /\ CopyFileToSandbox(c, f)
        /\ UNCHANGED <<disk, heap, global, contents, textChunks, embedding>>
    BY <1>4 DEF DocQuery
  <2>3. /\ Moved(s, "docquery", c, f, "load", Nil, {}) /\ task[s].pc = "idle" /\ answer' = Nil
        /\ ops' \in 0..setup.ops /\ UNCHANGED <<setup, models, unsaved, chatName, loaded>>
    BY <1>2, <2>1
  <2> QED
    BY <2>2, <2>3, Started
<1>5. ASSUME NEW c \in setup.chats, NEW f \in Files, Delete(s, c, f) PROVE Inv(s)'
  <2>1. Begin(s, "delete", c, f, "load") /\ UNCHANGED <<session, unsaved>>
    BY <1>5 DEF Delete
  <2>2. /\ removeFile(c, f)
        /\ UNCHANGED <<disk, heap, global, contents, textChunks, embedding>>
    BY <1>5 DEF Delete
  <2>3. /\ Moved(s, "delete", c, f, "load", Nil, {}) /\ task[s].pc = "idle" /\ answer' = Nil
        /\ ops' \in 0..setup.ops /\ UNCHANGED <<setup, models, unsaved, chatName, loaded>>
    BY <1>2, <2>1
  <2> QED
    BY <2>2, <2>3, Started
<1>6. ASSUME NEW c \in setup.chats, Rebuild(s, c) PROVE Inv(s)'
  BY <1>2, <1>6, Started DEF Rebuild
<1>7. ASSUME NEW c \in setup.chats, LoadIndex(s, c) PROVE Inv(s)'
  BY <1>2, <1>7, Started DEF LoadIndex
<1>8. CASE Ask(s)
  BY <1>1, <1>2, <1>8, Started DEF Ask
<1> QED
  BY <1>3, <1>4, <1>5, <1>6, <1>7, <1>8 DEF Start

------------------------------------------------------------------------------
(* Loading an index *)

\* The types hold if each variable that changes keeps its own.
LEMMA TypedStep ==
  ASSUME NEW s, Slots = {s}, Typed, task' \in [Slots -> Task],
         docs' = docs, models' = models, unsaved' \in BOOLEAN, behind' \in [Chats -> SUBSET Files],
         disk' \in [Chats -> [state : {"missing", "whole", "torn"}, items : [IndexItems -> Nat]]],
         heap' \in [Objects -> [owner : Chats \cup {Nil}, model : Models, items : [IndexItems -> Nat]]],
         global' \in Objects \cup {Nil}, embedding' \in Models,
         contents' \subseteq Chunk, textChunks' \subseteq Chunk,
         chatName' \in setup.chats \cup {Nil}, loaded' \in BOOLEAN, setup' = setup, ops' = ops
  PROVE  Typed'
<1>1. task'[s] \in Task
  OBVIOUS
<1>2. /\ task'[s].chat \in Chats \cup {Nil} /\ task'[s].file \in Files \cup {Nil}
      /\ task'[s].obj \in Objects \cup {Nil}
      /\ task'[s].text \subseteq [file : Files, chat : Chats]
  BY <1>1 DEF Task, Chunk
<1>3. chatName' \in Chats \cup {Nil}
  BY TypeFacts
<1> QED
  BY <1>2, <1>3 DEF Typed, RagTypeOK, Chunk

\* The operation goes on without touching the documents or the saved indexes.
LEMMA Advances ==
  ASSUME NEW s, Slots = {s}, Inv(s), NEW pc, NEW obj, NEW txt, Advanced(s, pc, obj, txt),
         task[s].pc # "idle", UNCHANGED <<docs, disk, behind, answer, setup, models, ops>>, unsaved' \in BOOLEAN,
         heap' \in [Objects -> [owner : Chats \cup {Nil}, model : Models, items : [IndexItems -> Nat]]],
         global' \in Objects \cup {Nil}, embedding' \in Models,
         contents' \subseteq Chunk, textChunks' \subseteq Chunk,
         chatName' = chatName, loaded' \in BOOLEAN
  PROVE  Typed' /\ DiskInv(s)' /\ AnswerInv(s)'
<1>1. Typed'
  BY TypedStep DEF Inv, Typed, RagTypeOK, Advanced, Moved
<1>2. DiskInv(s)'
  BY DiskFrame DEF Inv, Advanced, Moved
<1>3. AnswerInv(s)'
  BY AnswerForgotten DEF Inv, AnswerInv
<1> QED
  BY <1>1, <1>2, <1>3

\* The types of what a step reads.
LEMMA TypesNow ==
  ASSUME NEW s, Slots = {s}, Inv(s)
  PROVE  /\ heap \in [Objects -> [owner : Chats \cup {Nil}, model : Models, items : [IndexItems -> Nat]]]
         /\ global \in Objects \cup {Nil} /\ embedding \in Models
         /\ contents \subseteq Chunk /\ textChunks \subseteq Chunk /\ loaded \in BOOLEAN
         /\ models \in [Chats -> SUBSET Models] /\ unsaved \in BOOLEAN
         /\ task \in [Slots -> Task]
         /\ task[s].pc # "idle" => task[s].chat \in Chats
  BY TypeFacts DEF Inv, Typed, RagTypeOK, TaskOK

\* A question on a loaded index keeps the invariant.
LEMMA AskLoadedStep ==
  ASSUME NEW s, Slots = {s}, Inv(s), AskLoaded(s)
  PROVE  Inv(s)'
<1>1. task[s].pc = "ask" /\ task[s].op = "ask"
  BY DEF AskLoaded, Inv, TaskOK
<1>2. PICK pc \in {"search", "load"} : /\ Advanced(s, pc, task[s].obj, task[s].text)
                                       /\ pc = "search" => loaded
  BY TypesNow, GotoFacts DEF AskLoaded, Pcs
<1>3. /\ UNCHANGED <<docs, disk, behind, heap, global, contents, textChunks, setup, models, unsaved, chatName, loaded>>
      /\ UNCHANGED <<answer, ops>> /\ embedding' \in Models
  BY <1>1, TypesNow, ModelTypes DEF AskLoaded, stores, session
<1>4. Typed' /\ DiskInv(s)' /\ AnswerInv(s)'
  BY <1>1, <1>2, <1>3, TypesNow, Advances
<1>5. TaskOK(s)'
  BY <1>1, <1>2, <1>3 DEF Inv, TaskOK, Advanced, Moved, Changing, Importing, AddSteps, BuildSteps
<1>6. DocsOfTask(s)' /\ BuffersOfTask(s)' /\ ObjectsOfTask(s)'
  BY <1>1, <1>2 DEF DocsOfTask, BuffersOfTask, ObjectsOfTask, Advanced, Moved, Importing,
     AddSteps, BuildSteps
<1>7. GlobalInv(s)'
  BY <1>1, <1>2, <1>3, GlobalFrame DEF Inv, Advanced, Moved
<1> QED
  BY <1>4, <1>5, <1>6, <1>7 DEF Inv

\* Reading a saved index gives an object its items, or none.
LEMMA LoadStep ==
  ASSUME NEW s, Slots = {s}, Inv(s), Load(s)
  PROVE  Inv(s)'
<1> DEFINE c == task[s].chat
           to == IF task[s].pc = "load" THEN "publish" ELSE "republish"
<1>1. /\ task[s].pc \in {"load", "reload"} /\ Readable(s) /\ c \in Chats
      /\ task[s].op # "none" /\ to \in {"publish", "republish"}
  BY TypesNow DEF Load, Readable, Inv, TaskOK
<1>2. New \in Objects /\ New # global
  BY NewFacts
<1>3. Advanced(s, to, New, task[s].text)
  BY <1>1, <1>2, TypesNow, HoldFacts DEF Load, Pcs, AddSteps
<1>4. /\ UNCHANGED <<docs, disk, behind, global, embedding, contents, textChunks, setup, models, unsaved, chatName, loaded>>
      /\ UNCHANGED <<answer, ops>>
  BY DEF Load, stores, session
<1>5. /\ heap'[New] = [owner |-> c, model |-> embedding, items |-> disk[c].items]
      /\ \A o \in Objects \ {New} : heap'[o] = heap[o]
      /\ heap' \in [Objects -> [owner : Chats \cup {Nil}, model : Models, items : [IndexItems -> Nat]]]
  <2>1. [owner |-> c, model |-> embedding, items |-> disk[c].items] \in
           [owner : Chats \cup {Nil}, model : Models, items : [IndexItems -> Nat]]
    BY <1>1, TypesNow, TypeFacts DEF Inv
  <2> QED
    BY <2>1, <1>2, TypesNow DEF Load, SimilarityIndex
<1>6. Typed' /\ DiskInv(s)' /\ AnswerInv(s)'
  BY <1>1, <1>3, <1>4, <1>5, TypesNow, Advances
<1>7. TaskOK(s)'
  BY <1>1, <1>3, <1>4 DEF Inv, TaskOK, Advanced, Moved, Changing, Importing, AddSteps, BuildSteps
<1>8. DocsOfTask(s)'
  BY <1>1, <1>3, <1>4 DEF Inv, DocsOfTask, Advanced, Moved, Importing, AddSteps, BuildSteps, Readable,
     Sources, Held
<1>9. BuffersOfTask(s)'
  BY <1>1, <1>3, <1>4 DEF Inv, BuffersOfTask, Advanced, Moved, Readable, Imports, Brings
<1>10. ObjectsOfTask(s)'
  BY <1>1, <1>2, <1>3, <1>4, <1>5 DEF Inv, BuffersOfTask, ObjectsOfTask, Advanced, Moved, Readable, Loaded
<1>11. GlobalInv(s)'
  BY <1>1, <1>2, <1>3, <1>4, <1>5 DEF Inv, GlobalInv, Advanced, Moved, WritesWhole
<1> QED
  BY <1>6, <1>7, <1>8, <1>9, <1>10, <1>11 DEF Inv

\* Nothing is asked of a task that has ended.
LEMMA EndedTask ==
  ASSUME NEW s, Ended(s)
  PROVE  TaskOK(s)' /\ DocsOfTask(s)' /\ BuffersOfTask(s)' /\ ObjectsOfTask(s)'
  BY DEF Ended, Moved, TaskOK, DocsOfTask, BuffersOfTask, ObjectsOfTask, Changing, Importing,
     AddSteps, BuildSteps

\* Where the operation goes on after its index has been loaded, or could not be.
AfterLoading(s, pc) ==
    /\ task[s].op # "load"
    /\ pc \in {"search", "scan", "take"}
    /\ pc = "search" <=> task[s].op \in {"ask", "question"}
    /\ pc = "scan" <=> task[s].op \in Changing /\ task[s].pc \in {"load", "publish"}
    /\ pc = "take" <=> task[s].op \in Importing /\ task[s].pc \in {"reload", "republish"}

\* After the load each operation goes on where its code does.
LEMMA Proceeds ==
  ASSUME NEW s, Slots = {s}, Inv(s), Proceed(s),
         task[s].pc \in {"load", "publish", "reload", "republish"}
  PROVE  \/ task[s].op = "load" /\ Ended(s)
         \/ \E pc : AfterLoading(s, pc) /\ Advanced(s, pc, Nil, task[s].text)
<1>1. task \in [Slots -> Task] /\ task[s] \in Task
  BY TypesNow
<1>2. CASE task[s].op = "load"
  <2>1. AfterLoad(s) = "idle"
    BY <1>2 DEF AfterLoad
  <2> QED
    BY <1>1, <1>2, <2>1, EndFacts DEF Proceed
<1>3. CASE task[s].op # "load"
  <2>1. AfterLoading(s, AfterLoad(s))
    BY <1>3, <1>1 DEF AfterLoad, AfterLoading, Inv, TaskOK, Task, Ops, Changing, Importing, AddSteps
  <2> DEFINE r == [task[s] EXCEPT !.pc = AfterLoad(s), !.obj = Nil]
  <2>2. /\ r \in Task /\ r.op = task[s].op /\ r.chat = task[s].chat /\ r.file = task[s].file
        /\ r.pc = AfterLoad(s) /\ r.obj = Nil /\ r.text = task[s].text
    BY <1>1, <2>1 DEF Task, AfterLoading, Pcs, AddSteps
  <2>3. task' = [task EXCEPT ![s] = r]
    BY <1>1, <2>1 DEF Proceed, AfterLoading
  <2> HIDE DEF r
  <2> QED
    BY <1>1, <2>1, <2>2, <2>3, PutFacts DEF Advanced
<1> QED
  BY <1>2, <1>3

\* A file that cannot be read leaves the index of before.
LEMMA LoadThrowsStep ==
  ASSUME NEW s, Slots = {s}, Inv(s), LoadThrows(s)
  PROVE  Inv(s)'
<1>1. /\ task[s].pc \in {"load", "reload"} /\ ~Readable(s) /\ task[s].chat \in Chats
      /\ task[s].op # "none"
  BY TypesNow DEF LoadThrows, Readable, Inv, TaskOK
<1>2. /\ UNCHANGED <<docs, disk, behind, heap, global, embedding, contents, textChunks, setup, models, unsaved, chatName>>
      /\ UNCHANGED <<answer, ops>> /\ loaded' \in BOOLEAN
  BY TypesNow DEF LoadThrows, stores, globals, NoteLoaded
<1>3. ~WritesWhole
  BY <1>1 DEF Readable, Inv, DiskInv
<1>4. GlobalInv(s)'
  BY <1>2, <1>3 DEF Inv, GlobalInv, WritesWhole
<1>5. CASE task[s].op = "load" /\ Ended(s)
  <2>1. Typed'
    BY <1>2, <1>5, TypesNow, TypeFacts, TypedStep DEF Inv, Typed, Ended, Moved
  <2>2. DiskInv(s)' /\ AnswerInv(s)'
    BY <1>1, <1>2, <1>5, DiskFrame, AnswerForgotten DEF Inv, AnswerInv, Ended, Moved, Changing, Importing
  <2> QED
    BY <1>4, <1>5, <2>1, <2>2, EndedTask DEF Inv
<1>6. ASSUME NEW pc, AfterLoading(s, pc), Advanced(s, pc, Nil, task[s].text) PROVE Inv(s)'
  <2>1. Typed' /\ DiskInv(s)' /\ AnswerInv(s)'
    BY <1>1, <1>2, <1>6, TypesNow, Advances
  <2>2. TaskOK(s)'
    BY <1>1, <1>2, <1>6 DEF Inv, TaskOK, AfterLoading, Advanced, Moved, Changing, Importing, AddSteps, BuildSteps
  <2>3. Readable(s)' = FALSE
    BY <1>1, <1>2, <1>6 DEF Advanced, Moved, Readable
  <2>4. DocsOfTask(s)'
    BY <1>2, <1>6, <2>3 DEF Inv, DocsOfTask, Advanced, Moved
  <2>5. BuffersOfTask(s)'
    BY <1>6, <2>3 DEF BuffersOfTask, AfterLoading, Advanced, Moved
  <2>6. ObjectsOfTask(s)'
    BY <1>6, <2>3 DEF ObjectsOfTask, AfterLoading, Advanced, Moved
  <2> QED
    BY <1>4, <2>1, <2>2, <2>4, <2>5, <2>6 DEF Inv
<1> QED
  BY <1>1, <1>5, <1>6, Proceeds DEF LoadThrows

\* The loaded object becomes the global index of the task's chat.
LEMMA PublishStep ==
  ASSUME NEW s, Slots = {s}, Inv(s), Publish(s)
  PROVE  Inv(s)'
<1>1. /\ task[s].pc \in {"publish", "republish"} /\ task[s].chat \in setup.chats
      /\ task[s].chat \in Chats /\ task[s].op # "none" /\ task[s].obj \in Objects
      /\ Readable(s) /\ Loaded(s, task[s].obj)
  BY TypesNow DEF Publish, Inv, TaskOK, ObjectsOfTask, Loaded
<1>2. /\ UNCHANGED <<docs, disk, behind, heap, embedding, contents, textChunks, setup, models, chatName>>
      /\ UNCHANGED <<answer, ops>> /\ loaded' \in BOOLEAN /\ global' = task[s].obj /\ unsaved' = FALSE
  BY TypesNow DEF Publish, stores, NoteLoaded
<1>3. Nil \notin Objects
  BY RagIndexAssumption
<1>4. GlobalInv(s)'
  BY <1>1, <1>2, <1>3 DEF GlobalInv, WritesWhole, Loaded
<1>5. CASE task[s].op = "load" /\ Ended(s)
  <2>1. Typed'
    BY <1>1, <1>2, <1>5, TypesNow, TypeFacts, TypedStep DEF Inv, Typed, Ended, Moved
  <2>2. DiskInv(s)' /\ AnswerInv(s)'
    BY <1>1, <1>2, <1>5, DiskFrame, AnswerForgotten DEF Inv, AnswerInv, Ended, Moved, Changing, Importing
  <2> QED
    BY <1>4, <1>5, <2>1, <2>2, EndedTask DEF Inv
<1>6. ASSUME NEW pc, AfterLoading(s, pc), Advanced(s, pc, Nil, task[s].text) PROVE Inv(s)'
  <2>1. Typed' /\ DiskInv(s)' /\ AnswerInv(s)'
    BY <1>1, <1>2, <1>6, TypesNow, Advances
  <2>2. TaskOK(s)'
    BY <1>1, <1>2, <1>6 DEF Inv, TaskOK, AfterLoading, Advanced, Moved, Changing, Importing, AddSteps, BuildSteps
  <2>3. Readable(s)' /\ Loaded(s, global)'
    BY <1>1, <1>2, <1>6 DEF Advanced, Moved, Readable, Loaded
  <2>4. DocsOfTask(s)'
    BY <1>1, <1>2, <1>6 DEF Inv, DocsOfTask, AfterLoading, Advanced, Moved, Readable, AddSteps, BuildSteps,
       Sources, Held
  <2>5. BuffersOfTask(s)'
    BY <1>1, <1>2, <1>6 DEF Inv, BuffersOfTask, AfterLoading, Advanced, Moved, Readable, Imports, Brings
  <2>6. ObjectsOfTask(s)'
    BY <1>1, <1>2, <1>6, <2>3 DEF Inv, ObjectsOfTask, AfterLoading, Advanced, Moved
  <2> QED
    BY <1>4, <2>1, <2>2, <2>4, <2>5, <2>6 DEF Inv
<1> QED
  BY <1>1, <1>5, <1>6, Proceeds DEF Publish

------------------------------------------------------------------------------
(* removeFileFromIndex, and the check addFileToIndex makes with it *)

\* An operation on a document is over, or goes on as a question.
Finished(s) ==
    \/ Ended(s) /\ embedding' = embedding
    \/ /\ Moved(s, "question", task[s].chat, task[s].file, "load", Nil, {})
       /\ embedding' \in models[task[s].chat]

\* A question to a document ends as the import it began with.
LEMMA ImportedFacts ==
  ASSUME NEW s, Slots = {s}, Inv(s), Imported(s), task[s].pc # "idle"
  PROVE  Finished(s)
<1>1. task \in [Slots -> Task] /\ task[s] \in Task
  BY TypesNow
<1>2. CASE task[s].op = "docquery"
  <2> DEFINE r == [task[s] EXCEPT !.op = "question", !.pc = "load", !.obj = Nil, !.text = {}]
  <2>1. /\ r \in Task /\ r.op = "question" /\ r.chat = task[s].chat /\ r.file = task[s].file
        /\ r.pc = "load" /\ r.obj = Nil /\ r.text = {}
    BY <1>1 DEF Task, Ops, Pcs
  <2>2. task' = [task EXCEPT ![s] = r] /\ embedding' \in models[task[s].chat]
    BY <1>1, <1>2 DEF Imported
  <2> HIDE DEF r
  <2>3. Moved(s, r.op, r.chat, r.file, r.pc, r.obj, r.text)
    BY <1>1, <2>1, <2>2, PutFacts
  <2> QED
    BY <2>1, <2>2, <2>3 DEF Finished, Moved
<1>3. CASE task[s].op # "docquery"
  BY <1>1, <1>3, EndFacts DEF Imported, Finished
<1> QED
  BY <1>2, <1>3

\* What is then left to show of the invariant is about the saved indexes and the global one.
LEMMA FinishedTask ==
  ASSUME NEW s, Slots = {s}, Inv(s), Finished(s), task[s].pc # "idle",
         UNCHANGED <<docs, heap, global, contents, textChunks, setup, models, chatName, loaded, answer, ops>>,
         unsaved' \in BOOLEAN, behind' \in [Chats -> SUBSET Files],
         disk' \in [Chats -> [state : {"missing", "whole", "torn"}, items : [IndexItems -> Nat]]]
  PROVE  /\ Typed' /\ TaskOK(s)' /\ DocsOfTask(s)' /\ BuffersOfTask(s)' /\ ObjectsOfTask(s)'
         /\ AnswerInv(s)'
         /\ task'[s].op \notin Changing /\ task'[s].pc \in {"idle", "load"}
<1>1. task[s].chat \in setup.chats /\ task[s].chat \in Chats /\ answer = Nil
  BY TypesNow DEF Inv, TaskOK, AnswerInv
<1>2. AnswerInv(s)'
  BY <1>1, AnswerForgotten
<1>3. CASE Ended(s) /\ embedding' = embedding
  <2>1. Typed'
    BY <1>3, TypesNow, TypedStep DEF Inv, Typed, Ended, Moved
  <2> QED
    BY <1>2, <1>3, <2>1, EndedTask DEF Ended, Moved, Changing, Importing
<1>4. CASE /\ Moved(s, "question", task[s].chat, task[s].file, "load", Nil, {})
           /\ embedding' \in models[task[s].chat]
  <2>1. Typed'
    BY <1>1, <1>4, ModelTypes, TypesNow, TypedStep DEF Inv, Typed, Moved
  <2>2. TaskOK(s)'
    BY <1>1, <1>4 DEF TaskOK, Moved, Changing, Importing, AddSteps, BuildSteps
  <2>3. DocsOfTask(s)' /\ BuffersOfTask(s)' /\ ObjectsOfTask(s)'
    BY <1>4 DEF DocsOfTask, BuffersOfTask, ObjectsOfTask, Moved, Importing, AddSteps, BuildSteps
  <2> QED
    BY <1>2, <1>4, <2>1, <2>2, <2>3 DEF Moved, Changing, Importing
<1> QED
  BY <1>3, <1>4 DEF Finished

\* The saved index of the task's chat is right about the document the task was for.
Settled(s) ==
    LET c == task[s].chat
        f == task[s].file
    IN
    f \in behind[c] \/ (f \in Sources(disk[c].items) <=> f \in docs[c] \ setup.textless)

\* The saved indexes stay right where neither they nor the directory change.
LEMMA DiskSettled ==
  ASSUME NEW s, Inv(s), Settled(s), UNCHANGED <<docs, disk, behind, setup, models>>
  PROVE  DiskInv(s)'
<1>1. OwnItemsOnce'
  BY DEF Inv, DiskInv, OwnItemsOnce, WritesWhole, Held
<1>2. \A c : Sources(disk[c].items)' = Sources(disk[c].items)
  BY DEF Sources, Held
<1>3. \A c \in Chats : \A f \in Files \ behind[c] :
         f \in Sources(disk[c].items) <=> f \in docs[c] \ setup.textless
  BY DEF Inv, DiskInv, Settled, InHand
<1> QED
  BY <1>1, <1>2, <1>3 DEF Inv, DiskInv, WritesWhole

\* The check for the file's items goes on to remove or to split.
LEMMA CheckFileStep ==
  ASSUME NEW s, Slots = {s}, Inv(s), CheckFile(s)
  PROVE  Inv(s)'
<1>1. /\ task[s].pc = "scan" /\ task[s].op \in Importing /\ task[s].chat \in Chats
      /\ task[s].file \in Files
  BY TypesNow DEF CheckFile, At, Importing, Changing, Inv, TaskOK
<1>2. /\ UNCHANGED <<docs, disk, behind, heap, global, contents, textChunks, setup, models, unsaved, chatName, loaded>>
      /\ UNCHANGED <<answer, ops>>
  BY DEF CheckFile, stores, session
<1>3. Readable(s) => Loaded(s, global)
  BY <1>1 DEF Inv, ObjectsOfTask
<1>4. ~Readable(s) => task[s].file \in behind[task[s].chat]
  BY <1>1, TypeFacts DEF Inv, DiskInv, Readable
<1>5. CASE FileInIndex(s)
  <2>1. Finished(s)
    BY <1>1, <1>5, ImportedFacts DEF CheckFile
  <2>2. Settled(s)
    <3>1. task[s].file \in docs[task[s].chat] \cup behind[task[s].chat]
      BY <1>1 DEF Inv, DocsOfTask
    <3>2. Readable(s) => task[s].file \in Sources(disk[task[s].chat].items)
      BY <1>3, <1>5 DEF FileInIndex, Loaded
    <3> QED
      BY <1>1, <1>4, <3>1, <3>2 DEF Settled, Inv, DiskInv
  <2>3. DiskInv(s)'
    BY <1>2, <2>2, DiskSettled
  <2>4. /\ Typed' /\ TaskOK(s)' /\ DocsOfTask(s)' /\ BuffersOfTask(s)' /\ ObjectsOfTask(s)'
        /\ AnswerInv(s)' /\ task'[s].pc \in {"idle", "load"}
    BY <1>1, <1>2, <2>1, TypeFacts, TypesNow, FinishedTask DEF Inv
  <2>5. GlobalInv(s)'
    BY <1>1, <1>2, <2>4, GlobalFrame DEF Inv
  <2> QED
    BY <2>3, <2>4, <2>5 DEF Inv
<1>6. CASE ~FileInIndex(s)
  <2>1. Advanced(s, "fetch", task[s].obj, task[s].text) /\ embedding' = embedding
    BY <1>6, TypesNow, GotoFacts DEF CheckFile, Pcs, AddSteps
  <2>2. Typed' /\ DiskInv(s)' /\ AnswerInv(s)'
    BY <1>1, <1>2, <2>1, TypesNow, Advances
  <2>3. TaskOK(s)'
    BY <1>1, <1>2, <2>1 DEF Inv, TaskOK, Advanced, Moved, Changing, Importing, AddSteps, BuildSteps
  <2>4. Readable(s) => task[s].file \notin Sources(disk[task[s].chat].items)
    BY <1>3, <1>6, RagIndexAssumption DEF FileInIndex, Loaded
  <2>5. DocsOfTask(s)'
    BY <1>1, <1>2, <2>1, <2>4 DEF Inv, DocsOfTask, Advanced, Moved, Readable, AddSteps, BuildSteps, Importing,
       Sources, Held
  <2>6. BuffersOfTask(s)' /\ ObjectsOfTask(s)'
    BY <2>1 DEF BuffersOfTask, ObjectsOfTask, Advanced, Moved
  <2>7. GlobalInv(s)'
    BY <1>1, <1>2, <2>1, GlobalFrame DEF Inv, Advanced, Moved
  <2> QED
    BY <2>2, <2>3, <2>5, <2>6, <2>7 DEF Inv
<1> QED
  BY <1>5, <1>6

\* Removing a document takes exactly its items out of the index in memory.
LEMMA RemoveItemsStep ==
  ASSUME NEW s, Slots = {s}, Inv(s), RemoveItems(s)
  PROVE  Inv(s)'
<1>1. /\ task[s].pc = "scan" /\ task[s].op = "delete" /\ task[s].chat \in Chats
      /\ task[s].file \in Files
  BY TypesNow DEF RemoveItems, At, Importing, Changing, Inv, TaskOK
<1>2. /\ UNCHANGED <<docs, disk, behind, global, embedding, contents, textChunks, setup, models, unsaved, chatName, loaded>>
      /\ UNCHANGED <<answer, ops>>
  BY DEF RemoveItems, stores, session
<1>3. Readable(s) => Loaded(s, global)
  BY <1>1 DEF Inv, ObjectsOfTask
<1>4. ~Readable(s) => task[s].file \in behind[task[s].chat]
  BY <1>1, TypeFacts DEF Inv, DiskInv, Readable
<1>5. CASE global = Nil
  <2>1. Finished(s) /\ heap' = heap
    BY <1>2, <1>5, TypesNow, EndFacts DEF RemoveItems, Finished
  <2>2. Settled(s)
    BY <1>3, <1>4, <1>5, RagIndexAssumption DEF Settled, Loaded
  <2>3. DiskInv(s)'
    BY <1>2, <2>2, DiskSettled
  <2>4. /\ Typed' /\ TaskOK(s)' /\ DocsOfTask(s)' /\ BuffersOfTask(s)' /\ ObjectsOfTask(s)'
        /\ AnswerInv(s)' /\ task'[s].pc \in {"idle", "load"}
    BY <1>1, <1>2, <2>1, TypeFacts, TypesNow, FinishedTask DEF Inv
  <2>5. GlobalInv(s)'
    BY <1>1, <1>2, <2>1, <2>4, GlobalFrame DEF Inv
  <2> QED
    BY <2>3, <2>4, <2>5 DEF Inv
<1>6. CASE global # Nil
  <2>1. Advanced(s, "save", task[s].obj, task[s].text)
    BY <1>6, TypesNow, GotoFacts DEF RemoveItems, Pcs
  <2>2. global \in Objects /\ heap[global].items \in [IndexItems -> Nat]
    BY <1>6, TypesNow
  <2>3. heap' = [heap EXCEPT ![global].items = removeItem(@, task[s].file)]
    BY <1>6 DEF RemoveItems
  <2>4. /\ heap' \in [Objects -> [owner : Chats \cup {Nil}, model : Models, items : [IndexItems -> Nat]]]
        /\ heap'[global].owner = heap[global].owner
        /\ heap'[global].items = removeItem(heap[global].items, task[s].file)
    BY <2>2, <2>3, TypesNow, RemoveFacts
  <2>5. Typed' /\ DiskInv(s)' /\ AnswerInv(s)'
    BY <1>1, <1>2, <2>1, <2>4, TypesNow, Advances
  <2>6. TaskOK(s)'
    BY <1>1, <1>2, <2>1 DEF Inv, TaskOK, Advanced, Moved, Changing, Importing, AddSteps, BuildSteps
  <2>7. DocsOfTask(s)'
    BY <1>1, <1>2, <2>1 DEF Inv, DocsOfTask, Advanced, Moved, AddSteps, BuildSteps, Importing
  <2>8. BuffersOfTask(s)'
    BY <1>1, <2>1 DEF BuffersOfTask, Advanced, Moved, Importing
  <2>9. Changed(s, global)'
    BY <1>1, <1>2, <1>3, <2>1, <2>2, <2>4 DEF Changed, Loaded, Readable, Advanced, Moved, removeItem, Importing
  <2>10. ObjectsOfTask(s)'
    BY <1>1, <2>1, <2>9 DEF ObjectsOfTask, Advanced, Moved
  <2>11. GlobalInv(s)'
    BY <1>1, <1>2, <2>1, <2>2, <2>4 DEF Inv, GlobalInv, Advanced, Moved, WritesWhole
  <2> QED
    BY <2>5, <2>6, <2>7, <2>8, <2>10, <2>11 DEF Inv
<1> QED
  BY <1>5, <1>6

------------------------------------------------------------------------------
(* addFileToIndex and BuildNewIndex *)

\* A step that only fills the globals on the way of a text.
LEMMA BufferStep ==
  ASSUME NEW s, Slots = {s}, Inv(s), NEW pc \in Pcs, Goto(s, pc),
         task[s].pc \in {"fetch", "split", "fetchDocs", "splitDocs"},
         pc = "split" <=> task[s].pc = "fetch",
         pc = "reload" <=> task[s].pc = "split",
         pc = "splitDocs" <=> task[s].pc = "fetchDocs",
         pc = "generate" <=> task[s].pc = "splitDocs",
         UNCHANGED <<docs, disk, heap, global, setup, models, unsaved, chatName, loaded, answer, ops>>,
         behind' \in [Chats -> SUBSET Files], \A c \in Chats : behind[c] \subseteq behind'[c],
         contents' \subseteq Chunk, textChunks' \subseteq Chunk, embedding' \in Models,
         BuffersOfTask(s)'
  PROVE  Inv(s)'
<1>1. Advanced(s, pc, task[s].obj, task[s].text)
  BY TypesNow, GotoFacts
<1>2. Typed' /\ DiskInv(s)' /\ AnswerInv(s)'
  <2>1. Typed'
    BY <1>1, TypesNow, TypedStep, TypeFacts DEF Inv, Typed, RagTypeOK, Advanced, Moved
  <2>3. DiskInv(s)'
    BY <1>1, DiskGrows DEF Inv, Advanced, Moved
  <2>4. AnswerInv(s)'
    BY AnswerForgotten DEF Inv, AnswerInv
  <2> QED
    BY <2>1, <2>3, <2>4
<1>3. pc \in {"split", "reload", "splitDocs", "generate"}
  OBVIOUS
<1>4. TaskOK(s)'
  BY <1>1, <1>3 DEF Inv, TaskOK, Advanced, Moved, Changing, Importing, AddSteps, BuildSteps
<1>5. DocsOfTask(s)'
  <2>1. task[s].chat \in Chats
    BY TypesNow
  <2> QED
    BY <1>1, <1>3, <2>1 DEF Inv, DocsOfTask, Advanced, Moved, Readable, AddSteps, BuildSteps, Sources, Held
<1>6. ObjectsOfTask(s)'
  BY <1>1, <1>3 DEF ObjectsOfTask, Advanced, Moved
<1>7. GlobalInv(s)'
  BY <1>1, <1>3, GlobalFrame DEF Inv, Advanced, Moved
<1> QED
  BY <1>2, <1>4, <1>5, <1>6, <1>7 DEF Inv

\* What has been left behind are documents.
LEMMA BehindType ==
  ASSUME NEW s, Slots = {s}, Inv(s)
  PROVE  behind \in [Chats -> SUBSET Files]
  BY TypeFacts DEF Inv

\* Looking up the document keeps the invariant.
LEMMA FetchStep ==
  ASSUME NEW s, Slots = {s}, Inv(s), Fetch(s)
  PROVE  Inv(s)'
<1>1. /\ task[s].pc = "fetch" /\ Goto(s, "split") /\ task[s].chat \in Chats /\ task[s].file \in Files
  BY TypesNow DEF Fetch, Inv, TaskOK, AddSteps, Importing, Changing
<1>2. /\ UNCHANGED <<docs, disk, behind, heap, global, setup, models, unsaved, chatName, loaded, answer, ops>>
      /\ UNCHANGED <<embedding, textChunks>>
      /\ contents' = {[file |-> task[s].file, chat |-> task[s].chat]}
  BY DEF Fetch, stores, session
<1>3. contents' \subseteq Chunk
  BY <1>1, <1>2 DEF Chunk
<1>4. BuffersOfTask(s)'
  <2>1. Advanced(s, "split", task[s].obj, task[s].text)
    BY <1>1, TypesNow, GotoFacts DEF Pcs, AddSteps
  <2> QED
    BY <1>1, <1>2, <2>1 DEF BuffersOfTask, Advanced, Moved
<1> QED
  BY <1>1, <1>2, <1>3, <1>4, TypesNow, BehindType, BufferStep DEF Pcs, AddSteps

\* A document that cannot be read is noted, and nothing is split.
LEMMA FetchFailsStep ==
  ASSUME NEW s, Slots = {s}, Inv(s), FetchFails(s)
  PROVE  Inv(s)'
<1>1. /\ task[s].pc = "fetch" /\ Goto(s, "split") /\ task[s].chat \in Chats /\ task[s].file \in Files
  BY TypesNow DEF FetchFails, Inv, TaskOK, AddSteps, Importing, Changing
<1>2. /\ UNCHANGED <<docs, disk, heap, global, setup, models, unsaved, chatName, loaded, answer, ops>>
      /\ UNCHANGED <<embedding, textChunks>> /\ contents' = {}
      /\ LeaveBehind(task[s].chat, task[s].file)
  BY DEF FetchFails, session
<1>3. /\ behind' \in [Chats -> SUBSET Files] /\ \A c \in Chats : behind[c] \subseteq behind'[c]
      /\ task[s].file \in behind'[task[s].chat]
  BY <1>1, <1>2, TypeFacts DEF LeaveBehind, Inv
<1>4. BuffersOfTask(s)'
  <2>1. Advanced(s, "split", task[s].obj, task[s].text)
    BY <1>1, TypesNow, GotoFacts DEF Pcs, AddSteps
  <2> QED
    BY <1>1, <1>2, <1>3, <2>1 DEF BuffersOfTask, Advanced, Moved
<1>5. contents' \subseteq Chunk
  BY <1>2
<1> QED
  BY <1>1, <1>2, <1>3, <1>4, <1>5, TypesNow, BehindType, BufferStep DEF Pcs, AddSteps

\* A rebuild takes up the documents of its own directory.
LEMMA FetchDocsStep ==
  ASSUME NEW s, Slots = {s}, Inv(s), FetchDocs(s)
  PROVE  Inv(s)'
<1>1. /\ task[s].pc = "fetchDocs" /\ Goto(s, "splitDocs") /\ task[s].chat \in Chats
  BY TypesNow DEF FetchDocs, Inv, TaskOK, BuildSteps, Importing
<1>2. /\ UNCHANGED <<docs, disk, behind, heap, global, setup, models, unsaved, chatName, loaded, answer, ops>>
      /\ UNCHANGED <<embedding, textChunks>>
      /\ contents' = {[file |-> f, chat |-> task[s].chat] : f \in docs[task[s].chat]}
  BY DEF FetchDocs, stores, session
<1>3. contents' \subseteq Chunk
  BY <1>1, <1>2, TypeFacts DEF Chunk, Inv
<1>4. BuffersOfTask(s)'
  <2>1. Advanced(s, "splitDocs", task[s].obj, task[s].text)
    BY <1>1, TypesNow, GotoFacts DEF Pcs, BuildSteps
  <2> QED
    BY <1>1, <1>2, <2>1 DEF BuffersOfTask, Advanced, Moved, Inv
<1> QED
  BY <1>1, <1>2, <1>3, <1>4, TypesNow, BehindType, BufferStep DEF Pcs, BuildSteps

\* The chunks that are split are the document's, or none of a document without text.
LEMMA SplitStep ==
  ASSUME NEW s, Slots = {s}, Inv(s), Split(s)
  PROVE  Inv(s)'
<1>1. /\ task[s].pc = "split" /\ Goto(s, "reload") /\ task[s].chat \in Chats /\ task[s].file \in Files
  BY TypesNow DEF Split, Inv, TaskOK, AddSteps, Importing, Changing
<1>2. /\ UNCHANGED <<docs, disk, behind, heap, global, setup, models, unsaved, chatName, loaded, answer, ops>>
      /\ UNCHANGED contents /\ embedding' \in models[task[s].chat] /\ textChunks' = WithText
  BY DEF Split, stores, session
<1>3. textChunks' \subseteq Chunk /\ embedding' \in Models
  BY <1>1, <1>2, TypesNow, ModelTypes DEF WithText
<1>4. WithText = Imports(s) \/ (WithText = {} /\ task[s].file \in behind[task[s].chat])
  BY <1>1 DEF Inv, BuffersOfTask, WithText, Imports
<1>5. BuffersOfTask(s)'
  <2>1. Advanced(s, "reload", task[s].obj, task[s].text)
    BY <1>1, TypesNow, GotoFacts DEF Pcs, AddSteps
  <2> QED
    BY <1>1, <1>2, <1>4, <2>1 DEF BuffersOfTask, Advanced, Moved, Imports, Brings
<1> QED
  BY <1>1, <1>2, <1>3, <1>5, TypesNow, BehindType, BufferStep DEF Pcs, AddSteps

\* The chunks of a rebuild are those of its directory.
LEMMA SplitDocsStep ==
  ASSUME NEW s, Slots = {s}, Inv(s), SplitDocs(s)
  PROVE  Inv(s)'
<1>1. /\ task[s].pc = "splitDocs" /\ Goto(s, "generate") /\ task[s].chat \in Chats
  BY TypesNow DEF SplitDocs, Inv, TaskOK, BuildSteps, Importing
<1>2. /\ UNCHANGED <<docs, disk, behind, heap, global, setup, models, unsaved, chatName, loaded, answer, ops>>
      /\ UNCHANGED <<contents, embedding>> /\ textChunks' = WithText
  BY DEF SplitDocs, stores, session
<1>3. textChunks' \subseteq Chunk
  BY <1>1, <1>2, TypesNow DEF WithText
<1>4. task[s].op = "rebuild" => WithText = Rebuilds(s)
  BY <1>1 DEF Inv, BuffersOfTask, WithText, Rebuilds
<1>5. BuffersOfTask(s)'
  <2>1. Advanced(s, "generate", task[s].obj, task[s].text)
    BY <1>1, TypesNow, GotoFacts DEF Pcs, BuildSteps
  <2> QED
    BY <1>1, <1>2, <1>4, <2>1 DEF BuffersOfTask, Advanced, Moved, Rebuilds, Inv
<1> QED
  BY <1>1, <1>2, <1>3, <1>5, TypesNow, BehindType, BufferStep DEF Pcs, BuildSteps

\* A rebuild begins a new object for its own chat and model.
LEMMA GenerateStep ==
  ASSUME NEW s, Slots = {s}, Inv(s), Generate(s)
  PROVE  Inv(s)'
<1> DEFINE c == task[s].chat
           new == {[file |-> n.file, chat |-> n.chat, model |-> embedding] : n \in textChunks}
<1>1. task[s].pc = "generate" /\ c \in Chats /\ task[s].op \in Importing \cup {"rebuild"}
  BY TypesNow DEF Generate, Inv, TaskOK, BuildSteps, Importing
<1>2. New \in Objects /\ New # global
  BY NewFacts
<1>3. Advanced(s, "generated", New, task[s].text)
  BY <1>2, TypesNow, HoldFacts DEF Generate, Pcs, BuildSteps
<1>4. /\ UNCHANGED <<docs, disk, behind, global, embedding, contents, textChunks, setup, models, unsaved, chatName, loaded>>
      /\ UNCHANGED <<answer, ops>>
  BY DEF Generate, stores, session
<1>5. Plus(Nothing, new) \in [IndexItems -> Nat]
  <2>1. new \in SUBSET IndexItems
    BY TypesNow, ItemsFacts
  <2> HIDE DEF new
  <2> QED
    BY <2>1, PlusFacts, NothingHeld
<1>6. /\ heap'[New] = [owner |-> c, model |-> embedding, items |-> Plus(Nothing, new)]
      /\ \A o \in Objects \ {New} : heap'[o] = heap[o]
      /\ heap' \in [Objects -> [owner : Chats \cup {Nil}, model : Models, items : [IndexItems -> Nat]]]
  <2> DEFINE r == [owner |-> c, model |-> embedding, items |-> Plus(Nothing, new)]
  <2>1. r \in [owner : Chats \cup {Nil}, model : Models, items : [IndexItems -> Nat]]
    BY <1>1, <1>5, TypesNow
  <2>2. heap' = [heap EXCEPT ![New] = r]
    BY DEF Generate, SimilarityIndex
  <2> HIDE DEF r
  <2>3. /\ heap'[New] = r /\ \A o \in Objects \ {New} : heap'[o] = heap[o]
        /\ heap' \in [Objects -> [owner : Chats \cup {Nil}, model : Models, items : [IndexItems -> Nat]]]
    BY <2>1, <2>2, <1>2, TypesNow
  <2> QED
    BY <2>3 DEF r
<1>7. Typed' /\ DiskInv(s)' /\ AnswerInv(s)'
  BY <1>1, <1>3, <1>4, <1>6, TypesNow, Advances
<1>8. TaskOK(s)'
  BY <1>1, <1>3, <1>4 DEF Inv, TaskOK, Advanced, Moved, Changing, Importing, AddSteps, BuildSteps
<1>9. DocsOfTask(s)'
  BY <1>1, <1>3, <1>4 DEF Inv, DocsOfTask, Advanced, Moved, Importing, AddSteps, BuildSteps, Readable
<1>10. BuffersOfTask(s)'
  BY <1>1, <1>3, <1>4 DEF BuffersOfTask, Advanced, Moved
<1>11. task[s].op = "rebuild" => new = ItemsOf(embedding, Rebuilds(s)) /\ embedding \in models[c]
  BY <1>1 DEF Inv, BuffersOfTask, ItemsOf
<1>12. task[s].op = "rebuild" => Changed(s, task[s].obj)'
  BY <1>1, <1>2, <1>3, <1>4, <1>6, <1>11 DEF Changed, ItemsOf, Rebuilds, Nothing, Plus, Advanced, Moved, Importing
<1>13. ObjectsOfTask(s)'
  BY <1>1, <1>2, <1>3, <1>4, <1>6, <1>12 DEF ObjectsOfTask, Advanced, Moved
<1>14. GlobalInv(s)'
  BY <1>1, <1>2, <1>3, <1>4, <1>6, TypesNow DEF Inv, GlobalInv, Advanced, Moved, WritesWhole
<1> QED
  BY <1>7, <1>8, <1>9, <1>10, <1>13, <1>14 DEF Inv

\* The object that was built becomes the global index of the task's chat.
LEMMA GeneratedStep ==
  ASSUME NEW s, Slots = {s}, Inv(s), Generated(s)
  PROVE  Inv(s)'
<1> DEFINE to == IF task[s].op = "rebuild" THEN "save" ELSE "take"
<1>1. /\ task[s].pc = "generated" /\ task[s].op \in Importing \cup {"rebuild"}
      /\ task[s].obj \in Objects /\ heap[task[s].obj].owner = task[s].chat
      /\ task[s].chat \in setup.chats /\ to \in Pcs
  BY TypesNow DEF Generated, Inv, TaskOK, ObjectsOfTask, BuildSteps, AddSteps, Importing, Pcs
<1>2. Advanced(s, to, Nil, task[s].text)
  BY <1>1, TypesNow, HoldFacts DEF Generated
<1>3. /\ UNCHANGED <<docs, disk, behind, heap, embedding, contents, textChunks, setup, models, unsaved, chatName, loaded>>
      /\ UNCHANGED <<answer, ops>> /\ global' = task[s].obj
  BY DEF Generated, stores, session
<1>4. task[s].op = "rebuild" \/ ~Readable(s)
  BY <1>1 DEF Inv, DocsOfTask, BuildSteps
<1>5. Typed' /\ DiskInv(s)' /\ AnswerInv(s)'
  BY <1>1, <1>2, <1>3, TypesNow, Advances
<1>6. TaskOK(s)'
  BY <1>1, <1>2, <1>3 DEF Inv, TaskOK, Advanced, Moved, Changing, Importing, AddSteps, BuildSteps
<1>7. DocsOfTask(s)'
  BY <1>1, <1>2, <1>3, <1>4 DEF Inv, DocsOfTask, Advanced, Moved, Importing, AddSteps, BuildSteps, Readable
<1>8. BuffersOfTask(s)'
  BY <1>1, <1>2, <1>3, <1>4 DEF BuffersOfTask, Advanced, Moved, Readable, Importing
<1>9. task[s].op = "rebuild" => Changed(s, global)'
  <2>1. task[s].op = "rebuild" => Changed(s, task[s].obj)
    BY <1>1 DEF Inv, ObjectsOfTask
  <2> QED
    BY <1>1, <1>2, <1>3, <2>1 DEF Changed, ItemsOf, Rebuilds, Advanced, Moved, Importing
<1>10. ObjectsOfTask(s)'
  BY <1>1, <1>2, <1>3, <1>4, <1>9 DEF ObjectsOfTask, Advanced, Moved, Readable
<1>11. GlobalInv(s)'
  <2>1. task[s].op # "rebuild" => ~WritesWhole
    BY <1>1, <1>4, TypesNow DEF Inv, DiskInv, Readable, Importing
  <2> QED
    BY <1>1, <1>2, <1>3, <2>1, RagIndexAssumption DEF GlobalInv, Advanced, Moved, WritesWhole
<1> QED
  BY <1>5, <1>6, <1>7, <1>8, <1>10, <1>11 DEF Inv

\* An import takes the global index, which is that of its chat.
LEMMA TakeStep ==
  ASSUME NEW s, Slots = {s}, Inv(s), Take(s)
  PROVE  Inv(s)'
<1>1. task[s].pc = "take" /\ task[s].op \in Importing /\ task[s].chat \in Chats
  BY TypesNow DEF Take, Inv, TaskOK, AddSteps, Importing
<1>2. /\ UNCHANGED <<docs, disk, behind, heap, global, embedding, contents, textChunks, setup, models, unsaved, chatName, loaded>>
      /\ UNCHANGED <<answer, ops>>
  BY DEF Take, stores, session, globals
<1>3. Readable(s) => Loaded(s, global) /\ heap[global].model \in models[task[s].chat]
  BY <1>1 DEF Inv, ObjectsOfTask
<1>4. CASE global = Nil
  <2>1. Advanced(s, "fetchDocs", task[s].obj, task[s].text)
    BY <1>4, TypesNow, GotoFacts DEF Take, Pcs, BuildSteps
  <2>2. ~Readable(s)
    BY <1>3, <1>4, RagIndexAssumption DEF Loaded
  <2>3. Typed' /\ DiskInv(s)' /\ AnswerInv(s)'
    BY <1>1, <1>2, <2>1, TypesNow, Advances
  <2>4. TaskOK(s)'
    BY <1>1, <1>2, <2>1 DEF Inv, TaskOK, Advanced, Moved, Changing, Importing, AddSteps, BuildSteps
  <2>5. DocsOfTask(s)' /\ BuffersOfTask(s)' /\ ObjectsOfTask(s)'
    BY <1>1, <1>2, <2>1, <2>2
       DEF Inv, DocsOfTask, BuffersOfTask, ObjectsOfTask, Readable, Advanced, Moved, Importing, AddSteps
  <2>6. GlobalInv(s)'
    BY <1>1, <1>2, <2>1, GlobalFrame DEF Inv, Advanced, Moved
  <2> QED
    BY <2>3, <2>4, <2>5, <2>6 DEF Inv
<1>5. CASE global # Nil
  <2>0. global \in Objects
    BY <1>5, TypesNow
  <2>1. Advanced(s, "add", global, textChunks)
    <3> DEFINE r == [task[s] EXCEPT !.obj = global, !.text = textChunks, !.pc = "add"]
    <3>1. task[s] \in Task /\ textChunks \in SUBSET Chunk
      BY TypesNow
    <3>2. /\ r \in Task /\ r.op = task[s].op /\ r.chat = task[s].chat /\ r.file = task[s].file
          /\ r.pc = "add" /\ r.obj = global /\ r.text = textChunks
      BY <2>0, <3>1 DEF Task, Pcs, AddSteps
    <3>3. task' = [task EXCEPT ![s] = r]
      BY <1>5, TypesNow DEF Take
    <3> HIDE DEF r
    <3>4. Moved(s, r.op, r.chat, r.file, r.pc, r.obj, r.text)
      BY <3>2, <3>3, TypesNow, PutFacts
    <3> QED
      BY <3>2, <3>4 DEF Advanced
  <2>3. Typed' /\ DiskInv(s)' /\ AnswerInv(s)'
    BY <1>1, <1>2, <2>1, TypesNow, Advances
  <2>4. TaskOK(s)'
    BY <1>1, <1>2, <2>1 DEF Inv, TaskOK, Advanced, Moved, Changing, Importing, AddSteps, BuildSteps
  <2>5. DocsOfTask(s)'
    BY <1>1, <1>2, <2>1 DEF Inv, DocsOfTask, Readable, Advanced, Moved, AddSteps, BuildSteps, Sources, Held
  <2>6. BuffersOfTask(s)'
    BY <1>1, <1>2, <2>1 DEF Inv, BuffersOfTask, Readable, Imports, Brings, Advanced, Moved
  <2>7. ObjectsOfTask(s)'
    BY <1>1, <1>2, <1>3, <2>0, <2>1 DEF ObjectsOfTask, Readable, Loaded, Advanced, Moved
  <2>8. GlobalInv(s)'
    BY <1>1, <1>2, <2>1, GlobalFrame DEF Inv, Advanced, Moved
  <2> QED
    BY <2>3, <2>4, <2>5, <2>6, <2>7, <2>8 DEF Inv
<1> QED
  BY <1>4, <1>5

\* Adding gives the object the chunks at hand, none of which it had.
LEMMA AddStep ==
  ASSUME NEW s, Slots = {s}, Inv(s), Add(s)
  PROVE  Inv(s)'
<1> DEFINE new == {[file |-> n.file, chat |-> n.chat, model |-> heap[global].model] : n \in task[s].text}
<1>1. /\ task[s].pc = "add" /\ task[s].op \in Importing /\ task[s].chat \in Chats
      /\ task[s].obj = global /\ global \in Objects
  BY TypesNow DEF Add, Inv, TaskOK, AddSteps, Importing, ObjectsOfTask
<1>2. /\ UNCHANGED <<docs, disk, behind, global, embedding, contents, textChunks, setup, models, unsaved, chatName, loaded>>
      /\ UNCHANGED <<answer, ops>>
  BY DEF Add, stores, session
<1>3. Advanced(s, "assign", task[s].obj, task[s].text)
  BY TypesNow, GotoFacts DEF Add, Pcs, AddSteps
<1>4. /\ Readable(s) => /\ Loaded(s, global) /\ heap[global].model \in models[task[s].chat]
                       /\ Brings(s, task[s].text)
      /\ new = ItemsOf(heap[global].model, task[s].text)
  BY <1>1 DEF Inv, ObjectsOfTask, BuffersOfTask, ItemsOf
<1>5. Plus(heap[global].items, new) \in [IndexItems -> Nat]
  <2>1. heap[global].model \in Models /\ heap[global].items \in [IndexItems -> Nat]
    BY <1>1, TypesNow
  <2>2. new \in SUBSET IndexItems
    BY <2>1, TypeFacts, ItemsFacts DEF Inv
  <2> HIDE DEF new
  <2> QED
    BY <2>1, <2>2, PlusFacts
<1>6. heap' = [heap EXCEPT ![global].items = Plus(@, new)]
  BY <1>1 DEF Add, addItems
<1> HIDE DEF new
<1>7. /\ heap' \in [Objects -> [owner : Chats \cup {Nil}, model : Models, items : [IndexItems -> Nat]]]
      /\ heap'[global].owner = heap[global].owner /\ heap'[global].model = heap[global].model
      /\ heap'[global].items = Plus(heap[global].items, new)
  <2> DEFINE r == [heap[global] EXCEPT !.items = Plus(@, new)]
  <2>1. heap[global] \in [owner : Chats \cup {Nil}, model : Models, items : [IndexItems -> Nat]]
    BY <1>1, TypesNow
  <2>2. /\ r \in [owner : Chats \cup {Nil}, model : Models, items : [IndexItems -> Nat]]
        /\ r.owner = heap[global].owner /\ r.model = heap[global].model
        /\ r.items = Plus(heap[global].items, new)
    BY <1>5, <2>1
  <2>3. heap' = [heap EXCEPT ![global] = r]
    BY <1>1, <1>6, TypesNow
  <2> HIDE DEF r
  <2> QED
    BY <1>1, <2>2, <2>3, TypesNow
<1>8. Typed' /\ DiskInv(s)' /\ AnswerInv(s)'
  BY <1>1, <1>2, <1>3, <1>7, TypesNow, Advances
<1>9. TaskOK(s)'
  BY <1>1, <1>2, <1>3 DEF Inv, TaskOK, Advanced, Moved, Changing, Importing, AddSteps, BuildSteps
<1>10. DocsOfTask(s)'
  BY <1>1, <1>2, <1>3 DEF Inv, DocsOfTask, Readable, Advanced, Moved, AddSteps, BuildSteps, Sources, Held
<1>11. BuffersOfTask(s)'
  BY <1>1, <1>2, <1>3, <1>4 DEF BuffersOfTask, Brings, Imports, Readable, Advanced, Moved
<1>12. Changed(s, global)'
  BY <1>1, <1>2, <1>3, <1>4, <1>7
     DEF Changed, Loaded, Readable, Advanced, Moved, Importing, ItemsOf, Plus
<1>13. ObjectsOfTask(s)'
  BY <1>1, <1>2, <1>3, <1>12 DEF ObjectsOfTask, Advanced, Moved
<1>14. GlobalInv(s)'
  BY <1>1, <1>2, <1>3, <1>7 DEF Inv, GlobalInv, Advanced, Moved, WritesWhole
<1> QED
  BY <1>8, <1>9, <1>10, <1>11, <1>13, <1>14 DEF Inv

\* Assigning makes the filled object the global index again.
LEMMA AssignStep ==
  ASSUME NEW s, Slots = {s}, Inv(s), Assign(s)
  PROVE  Inv(s)'
<1>1. /\ task[s].pc = "assign" /\ task[s].op \in Importing /\ task[s].chat \in Chats
      /\ task[s].obj = global /\ global \in Objects /\ Changed(s, global)
  BY TypesNow DEF Assign, Inv, TaskOK, AddSteps, Importing, ObjectsOfTask
<1>2. /\ UNCHANGED <<docs, disk, behind, heap, global, embedding, contents, textChunks, setup, models, unsaved, chatName, loaded>>
      /\ UNCHANGED <<answer, ops>>
  BY <1>1 DEF Assign, stores, session
<1>3. Advanced(s, "save", Nil, task[s].text)
  BY TypesNow, HoldFacts DEF Assign, Pcs
<1>4. Typed' /\ DiskInv(s)' /\ AnswerInv(s)'
  BY <1>1, <1>2, <1>3, TypesNow, Advances
<1>5. TaskOK(s)'
  BY <1>1, <1>2, <1>3 DEF Inv, TaskOK, Advanced, Moved, Changing, Importing, AddSteps, BuildSteps
<1>6. DocsOfTask(s)'
  BY <1>1, <1>2, <1>3 DEF Inv, DocsOfTask, Readable, Advanced, Moved, AddSteps, BuildSteps, Sources, Held
<1>7. BuffersOfTask(s)'
  BY <1>1, <1>2, <1>3 DEF Inv, BuffersOfTask, Brings, Imports, Readable, Advanced, Moved
<1>8. Changed(s, global)'
  BY <1>1, <1>2, <1>3 DEF Changed, Readable, Advanced, Moved, Importing, ItemsOf, Plus
<1>9. ObjectsOfTask(s)'
  BY <1>3, <1>8 DEF ObjectsOfTask, Advanced, Moved
<1>10. GlobalInv(s)'
  BY <1>1, <1>2, <1>3, GlobalFrame DEF Inv, Advanced, Moved
<1> QED
  BY <1>4, <1>5, <1>6, <1>7, <1>9, <1>10 DEF Inv

------------------------------------------------------------------------------
(* Saving *)

\* The documents of what is about to be saved: the saved ones with the change of the operation,
\* or those of the directory.
LEMMA ChangedSources ==
  ASSUME NEW s, Slots = {s}, Inv(s), task[s].pc = "save"
  PROVE  LET c == task[s].chat
             f == task[s].file
             sources == Sources(heap[global].items)
         IN
         /\ task[s].op \in Importing /\ Readable(s) =>
               \/ sources = Sources(disk[c].items) \cup ({f} \ setup.textless)
               \/ sources = Sources(disk[c].items) /\ f \in behind[c]
         /\ task[s].op = "delete" /\ Readable(s) => sources = Sources(disk[c].items) \ {f}
         /\ task[s].op = "rebuild" => sources = docs[c] \ setup.textless
<1> DEFINE c == task[s].chat
           f == task[s].file
           m == heap[global].model
<1>1. c \in Chats /\ disk[c].items \in [IndexItems -> Nat] /\ Changed(s, global)
  BY TypesNow, TypeFacts DEF Inv, ObjectsOfTask
<1>5. task[s].op = "rebuild" \/ (task[s].op \in Importing /\ Readable(s)) => m \in Models
  BY <1>1, TypesNow DEF Changed
<1>2. ASSUME task[s].op \in Importing, Readable(s)
      PROVE  \/ Sources(heap[global].items) = Sources(disk[c].items) \cup ({f} \ setup.textless)
             \/ Sources(heap[global].items) = Sources(disk[c].items) /\ f \in behind[c]
  <2>1. Imports(s) \in SUBSET Chunk /\ {n.file : n \in Imports(s)} = {f} \ setup.textless
    <3>1. f \in Files
      BY <1>2 DEF Inv, TaskOK, Changing
    <3>2. Imports(s) \in SUBSET Chunk
      BY <1>1, <3>1 DEF Imports, Chunk
    <3>3. \A n \in Imports(s) : n.file \in {f} \ setup.textless
      BY DEF Imports
    <3>4. \A g \in {f} \ setup.textless : [file |-> g, chat |-> c] \in Imports(s)
      BY DEF Imports
    <3>5. \A g \in {f} \ setup.textless : \E n \in Imports(s) : n.file = g
      BY <3>4
    <3> QED
      BY <3>2, <3>3, <3>5
  <2>2. /\ ItemsOf(m, Imports(s)) \in SUBSET IndexItems
        /\ {i.file : i \in ItemsOf(m, Imports(s))} = {f} \ setup.textless
    BY <1>2, <1>5, <2>1, ItemsFacts DEF ItemsOf
  <2>3. ItemsOf(m, {}) \in SUBSET IndexItems /\ {i.file : i \in ItemsOf(m, {})} = {}
    BY DEF ItemsOf
  <2>4. Brings(s, task[s].text)
    BY <1>2 DEF Inv, BuffersOfTask
  <2>5. Sources(heap[global].items) = Sources(Plus(disk[c].items, ItemsOf(m, task[s].text)))
    BY <1>1, <1>2 DEF Changed
  <2>6. CASE task[s].text = Imports(s)
    BY <1>1, <2>2, <2>5, <2>6, PlusFacts
  <2>7. CASE task[s].text = {} /\ f \in behind[c]
    <3>1. Sources(Plus(disk[c].items, ItemsOf(m, {}))) =
             Sources(disk[c].items) \cup {i.file : i \in ItemsOf(m, {})}
      BY <1>1, <2>3, PlusFacts
    <3>2. Sources(Plus(disk[c].items, ItemsOf(m, {}))) = Sources(disk[c].items)
      BY <2>3, <3>1
    <3> QED
      BY <2>5, <2>7, <3>2
  <2> QED
    BY <2>4, <2>6, <2>7 DEF Brings
<1>3. ASSUME task[s].op = "delete", Readable(s)
      PROVE  Sources(heap[global].items) = Sources(disk[c].items) \ {f}
  BY <1>1, <1>3, RemoveFacts DEF Changed
<1>4. ASSUME task[s].op = "rebuild"
      PROVE  Sources(heap[global].items) = docs[c] \ setup.textless
  <2>1. Rebuilds(s) \in SUBSET Chunk /\ {n.file : n \in Rebuilds(s)} = docs[c] \ setup.textless
    <3>1. docs[c] \subseteq Files
      BY <1>1, TypeFacts DEF Inv
    <3>2. Rebuilds(s) \in SUBSET Chunk
      BY <1>1, <3>1 DEF Rebuilds, Chunk
    <3>3. \A n \in Rebuilds(s) : n.file \in docs[c] \ setup.textless
      BY DEF Rebuilds
    <3>4. \A g \in docs[c] \ setup.textless : [file |-> g, chat |-> c] \in Rebuilds(s)
      BY DEF Rebuilds
    <3>5. \A g \in docs[c] \ setup.textless : \E n \in Rebuilds(s) : n.file = g
      BY <3>4
    <3> QED
      BY <3>2, <3>3, <3>5
  <2>2. /\ ItemsOf(m, Rebuilds(s)) \in SUBSET IndexItems
        /\ {i.file : i \in ItemsOf(m, Rebuilds(s))} = docs[c] \ setup.textless
    BY <1>4, <1>5, <2>1, ItemsFacts DEF ItemsOf
  <2> QED
    BY <1>1, <1>4, <2>2, PlusFacts, NothingHeld DEF Changed
<1> QED
  BY <1>2, <1>3, <1>4

\* Item i is as the items of chat c's index have to be.
Own(c, items, i) ==
    /\ i.chat = c /\ i.model \in models[c] /\ items[i] = 1
    /\ \A j \in Held(items) : i.file = j.file => i = j

\* They belong to the chat, each once, if the saved ones do.
LEMMA ChangedOwnOnce ==
  ASSUME NEW s, Slots = {s}, Inv(s), task[s].pc = "save", WritesWhole,
         NEW i \in Held(heap[global].items)
  PROVE  Own(task[s].chat, heap[global].items, i)
<1> DEFINE c == task[s].chat
           f == task[s].file
           m == heap[global].model
           saved == disk[c].items
<1>1. /\ c \in Chats /\ saved \in [IndexItems -> Nat] /\ Changed(s, global)
      /\ Readable(s) /\ task[s].op \in Changing \cup {"rebuild"} /\ models[c] \subseteq Models
  BY TypesNow, TypeFacts DEF Inv, ObjectsOfTask, TaskOK, DiskInv, Readable, Changing, Importing
<1>2. \A j \in Held(saved) : Own(c, saved, j)
  BY <1>1 DEF Inv, DiskInv, OwnItemsOnce, Own
<1>3. ASSUME NEW new \in SUBSET Chunk, \A n \in new : n.chat = c, m \in models[c]
      PROVE  /\ ItemsOf(m, new) \in SUBSET IndexItems
             /\ \A j \in ItemsOf(m, new) : j.chat = c /\ j.model = m /\ j.file \in {n.file : n \in new}
             /\ \A j, k \in ItemsOf(m, new) : j.file = k.file => j = k
  <2>1. ItemsOf(m, new) \in SUBSET IndexItems
    BY <1>1, <1>3, ItemsFacts DEF ItemsOf
  <2>2. \A j \in ItemsOf(m, new) : j.chat = c /\ j.model = m /\ j.file \in {n.file : n \in new}
    BY <1>3 DEF ItemsOf
  <2>3. \A j \in ItemsOf(m, new) : j = [file |-> j.file, chat |-> c, model |-> m]
    BY <2>1, <2>2 DEF IndexItems
  <2> QED
    BY <2>1, <2>2, <2>3
<1>4. CASE task[s].op \in Importing
  <2> DEFINE new == ItemsOf(m, task[s].text)
  <2>1. /\ task[s].text \in SUBSET Chunk /\ \A n \in task[s].text : n.chat = c /\ n.file = f
        /\ m \in models[c]
    BY <1>1, <1>4 DEF Brings, Imports, Chunk, Inv, TaskOK, Changing, BuffersOfTask, Changed
  <2>2. f \notin Sources(saved)
    BY <1>1, <1>4 DEF Inv, DocsOfTask
  <2>3. /\ new \in SUBSET IndexItems
        /\ \A j \in new : j.chat = c /\ j.model = m /\ j.file = f
        /\ \A j, k \in new : j.file = k.file => j = k
    BY <1>3, <2>1
  <2>4. \A j \in IndexItems : j.file = f => saved[j] = 0
    BY <1>1, <2>2 DEF Sources, Held
  <2>5. heap[global].items = Plus(saved, new)
    BY <1>1, <1>4 DEF Changed
  <2> HIDE DEF new
  <2>6. /\ Held(Plus(saved, new)) = Held(saved) \cup new
        /\ \A j \in IndexItems : Plus(saved, new)[j] = saved[j] + (IF j \in new THEN 1 ELSE 0)
    BY <1>1, <2>3, PlusFacts
  <2>7. \A j \in Held(saved) : j \in IndexItems /\ saved[j] = 1 /\ j.file # f
    BY <1>1, <1>2, <2>4 DEF Held, Own
  <2>8. i.chat = c /\ i.model \in models[c]
    BY <1>2, <2>1, <2>3, <2>5, <2>6 DEF Own
  <2>9. Plus(saved, new)[i] = 1
    BY <2>3, <2>4, <2>5, <2>6, <2>7
  <2>10. ASSUME NEW j \in Held(Plus(saved, new)), i.file = j.file PROVE i = j
    <3>1. CASE i \in new
      BY <2>3, <2>6, <2>7, <2>10, <3>1
    <3>2. CASE i \in Held(saved)
      BY <1>2, <2>3, <2>6, <2>7, <2>10, <3>2 DEF Own
    <3> QED
      BY <2>5, <2>6, <3>1, <3>2
  <2> QED
    BY <2>5, <2>8, <2>9, <2>10 DEF Own
<1>5. CASE task[s].op = "delete"
  <2>1. heap[global].items = removeItem(saved, f)
    BY <1>1, <1>5 DEF Changed
  <2>2. /\ Held(removeItem(saved, f)) = {j \in Held(saved) : j.file # f}
        /\ \A j \in IndexItems : j.file # f => removeItem(saved, f)[j] = saved[j]
    BY <1>1, RemoveFacts
  <2>3. i \in Held(saved) /\ i \in IndexItems /\ i.file # f
    BY <2>1, <2>2 DEF Held
  <2> QED
    BY <1>2, <2>1, <2>2, <2>3 DEF Own
<1>6. CASE task[s].op = "rebuild"
  <2> DEFINE new == ItemsOf(m, Rebuilds(s))
  <2>1. /\ Rebuilds(s) \in SUBSET Chunk /\ \A n \in Rebuilds(s) : n.chat = c
        /\ m \in models[c]
    BY <1>1, <1>6, TypeFacts DEF Rebuilds, Chunk, Inv, Changed
  <2>2. /\ new \in SUBSET IndexItems
        /\ \A j \in new : j.chat = c /\ j.model = m
        /\ \A j, k \in new : j.file = k.file => j = k
    BY <1>3, <2>1
  <2>3. heap[global].items = Plus(Nothing, new)
    BY <1>1, <1>6 DEF Changed
  <2>4. \A j \in IndexItems : Nothing[j] = 0
    BY DEF Nothing
  <2> HIDE DEF new
  <2>5. /\ Held(Plus(Nothing, new)) = new
        /\ \A j \in IndexItems : Plus(Nothing, new)[j] = Nothing[j] + (IF j \in new THEN 1 ELSE 0)
    BY <2>2, BuiltFacts
  <2> QED
    BY <2>1, <2>2, <2>3, <2>4, <2>5 DEF Own
<1> QED
  BY <1>1, <1>4, <1>5, <1>6 DEF Changing

\* What is saved is what the directory holds, under the chat's name.
LEMMA SaveStep ==
  ASSUME NEW s, Slots = {s}, Inv(s), Save(s)
  PROVE  Inv(s)'
<1> DEFINE c == task[s].chat
           f == task[s].file
<1>1. /\ task[s].pc = "save" /\ task[s].op \in Changing \cup {"rebuild"} /\ c \in Chats
      /\ Changed(s, global) /\ (task[s].op \in Changing => f \in Files)
  BY TypesNow DEF Save, Inv, TaskOK, ObjectsOfTask, Changing, Importing
<1>2. /\ UNCHANGED <<docs, heap, global, contents, textChunks, setup, models, chatName, loaded, answer, ops>>
      /\ unsaved' = FALSE
      /\ behind' = IF task[s].op = "rebuild" THEN [behind EXCEPT ![c] = {}] ELSE behind
      /\ Imported(s)
  BY DEF Save, session
<1>3. Finished(s)
  BY <1>1, <1>2, ImportedFacts
<1>4. ~Readable(s) => behind[c] = Files /\ ~WritesWhole
  BY <1>1 DEF Inv, DiskInv, Readable
<1>5. behind' \in [Chats -> SUBSET Files] /\ \A b \in Chats : b # c => behind'[b] = behind[b]
  BY <1>1, <1>2, TypeFacts DEF Inv
<1>6. CASE global = Nil
  <2>1. task[s].op # "rebuild" /\ ~Readable(s)
    BY <1>1, <1>6, RagIndexAssumption DEF Changed
  <2>2. UNCHANGED <<docs, disk, behind, setup, models>>
    BY <1>2, <1>6, <2>1 DEF Save
  <2>3. DiskInv(s)'
    BY <1>1, <1>4, <2>1, <2>2, DiskSettled DEF Settled
  <2>4. /\ Typed' /\ TaskOK(s)' /\ DocsOfTask(s)' /\ BuffersOfTask(s)' /\ ObjectsOfTask(s)'
        /\ AnswerInv(s)' /\ task'[s].pc \in {"idle", "load"}
    BY <1>1, <1>2, <1>3, <1>5, <2>2, TypeFacts, FinishedTask DEF Inv
  <2>5. GlobalInv(s)'
    BY <1>2, <1>6, <2>1, <2>2, <2>4 DEF Inv, GlobalInv, WritesWhole
  <2> QED
    BY <2>3, <2>4, <2>5 DEF Inv
<1>7. CASE global # Nil
  <2>1. global \in Objects /\ heap[global].items \in [IndexItems -> Nat]
    BY <1>7, TypesNow
  <2>2. /\ disk' \in [Chats -> [state : {"missing", "whole", "torn"}, items : [IndexItems -> Nat]]]
        /\ disk'[c].state = "whole" /\ disk'[c].items = heap[global].items
        /\ \A b \in Chats : b # c => disk'[b] = disk[b]
    <3> DEFINE r == [state |-> "whole", items |-> heap[global].items]
    <3>1. r \in [state : {"missing", "whole", "torn"}, items : [IndexItems -> Nat]]
      BY <2>1
    <3>2. disk' = [disk EXCEPT ![c] = r] /\ r.state = "whole" /\ r.items = heap[global].items
      BY <1>7 DEF Save
    <3> HIDE DEF r
    <3>3. disk \in [Chats -> [state : {"missing", "whole", "torn"}, items : [IndexItems -> Nat]]]
      BY TypeFacts DEF Inv
    <3> QED
      BY <1>1, <3>1, <3>2, <3>3
  <2>3. /\ Typed' /\ TaskOK(s)' /\ DocsOfTask(s)' /\ BuffersOfTask(s)' /\ ObjectsOfTask(s)'
        /\ AnswerInv(s)' /\ task'[s].op \notin Changing /\ task'[s].pc \in {"idle", "load"}
    BY <1>1, <1>2, <1>3, <1>5, <2>2, FinishedTask
  <2>4. GlobalInv(s)'
    BY <1>1, <1>2, <1>4, <1>7, <2>2, <2>3 DEF Inv, GlobalInv, Changed, WritesWhole
  <2>5. \A b \in Chats : b # c => Sources(disk'[b].items) = Sources(disk[b].items)
    BY <2>2
  <2>6. \A b \in Chats : disk'[b].state = "torn" => behind'[b] = Files /\ ~WritesWhole
    BY <1>5, <2>2 DEF Inv, DiskInv
  <2>7. \A g \in Files \ behind'[c] :
           g \in Sources(heap[global].items) <=> g \in docs[c] \ setup.textless
    <3>1. CASE task[s].op = "rebuild"
      BY <1>1, <3>1, ChangedSources
    <3>2. CASE task[s].op \in Changing /\ ~Readable(s)
      BY <1>2, <1>4, <3>2 DEF Changing, Importing
    <3>3. CASE task[s].op \in Changing /\ Readable(s)
      <4>1. behind' = behind
        BY <1>2, <3>3 DEF Changing, Importing
      <4>2. \A g \in Files \ behind[c] : g # f =>
               (g \in Sources(disk[c].items) <=> g \in docs[c] \ setup.textless)
        BY <1>1 DEF Inv, DiskInv, InHand
      <4>3. CASE task[s].op \in Importing
        <5>1. f \in docs[c] \cup behind[c]
          BY <4>3 DEF Inv, DocsOfTask
        <5>2. \/ Sources(heap[global].items) = Sources(disk[c].items) \cup ({f} \ setup.textless)
              \/ Sources(heap[global].items) = Sources(disk[c].items) /\ f \in behind[c]
          BY <1>1, <3>3, <4>3, ChangedSources
        <5>3. f \notin Sources(disk[c].items)
          BY <1>1, <3>3, <4>3 DEF Inv, DocsOfTask
        <5> QED
          BY <4>1, <4>2, <5>1, <5>2, <5>3
      <4>4. CASE task[s].op = "delete"
        <5>1. f \notin docs[c] \ behind[c]
          BY <4>4 DEF Inv, DocsOfTask
        <5>2. Sources(heap[global].items) = Sources(disk[c].items) \ {f}
          BY <1>1, <3>3, <4>4, ChangedSources
        <5> QED
          BY <4>1, <4>2, <5>1, <5>2
      <4> QED
        BY <3>3, <4>3, <4>4 DEF Changing
    <3> QED
      BY <1>1, <3>1, <3>2, <3>3
  <2>8. \A g \in Sources(heap[global].items) :
           WritesWhole \/ g \notin behind'[c] => g \notin setup.textless
    <3>1. ASSUME NEW g \in Sources(heap[global].items), WritesWhole PROVE g \notin setup.textless
      <4>1. Readable(s)
        BY <1>4, <3>1
      <4>2. \A h \in Sources(disk[c].items) : h \notin setup.textless
        BY <1>1, <3>1 DEF Inv, DiskInv
      <4>3. \/ g \in Sources(disk[c].items) \cup ({f} \ setup.textless)
            \/ g \in docs[c] \ setup.textless
        BY <1>1, <3>1, <4>1, ChangedSources DEF Changing
      <4> QED
        BY <4>2, <4>3
    <3>2. \A g \in Sources(heap[global].items) : g \in Files
      BY <2>1 DEF Sources, Held, IndexItems
    <3> QED
      BY <2>7, <3>1, <3>2
  <2>9. OwnItemsOnce'
    <3> SUFFICES ASSUME WritesWhole, NEW b \in Chats, NEW i \in Held(disk'[b].items)
                 PROVE  Own(b, disk'[b].items, i)
      BY <1>2 DEF OwnItemsOnce, WritesWhole, Held, Own
    <3>1. CASE b = c
      BY <1>1, <2>2, <3>1, ChangedOwnOnce
    <3>2. CASE b # c
      BY <2>2, <3>2 DEF Inv, DiskInv, OwnItemsOnce, Own
    <3> QED
      BY <3>1, <3>2
  <2>10. DiskInv(s)'
    <3>1. \A b \in Chats : \A g \in Sources(disk'[b].items) :
             WritesWhole \/ g \notin behind'[b] => g \notin setup.textless
      BY <1>5, <2>2, <2>8 DEF Inv, DiskInv
    <3>2. \A b \in Chats : \A g \in Files \ behind'[b] :
             g \in Sources(disk'[b].items) <=> g \in docs[b] \ setup.textless
      <4> SUFFICES ASSUME NEW b \in Chats, NEW g \in Files \ behind'[b]
                   PROVE  g \in Sources(disk'[b].items) <=> g \in docs[b] \ setup.textless
        OBVIOUS
      <4>1. CASE b = c
        BY <2>2, <2>7, <4>1
      <4>2. CASE b # c
        BY <1>5, <2>2, <4>2 DEF Inv, DiskInv, InHand
      <4> QED
        BY <4>1, <4>2
    <3>3. WritesWhole' = WritesWhole /\ setup' = setup /\ docs' = docs
      BY <1>2 DEF WritesWhole
    <3>4. \A b \in Chats : Sources(disk[b].items)' = Sources(disk'[b].items)
      BY DEF Sources, Held
    <3> QED
      BY <2>6, <2>9, <3>1, <3>2, <3>3, <3>4 DEF DiskInv
  <2> QED
    BY <2>3, <2>4, <2>10 DEF Inv
<1> QED
  BY <1>6, <1>7

\* A torn file is noted with all its documents.
LEMMA TearFacts ==
  ASSUME NEW s, Slots = {s}, Inv(s), NEW c \in Chats, Tear(c), UNCHANGED <<docs, setup, models>>,
         \A b, f : InHand(s, b, f) => b = c
  PROVE  /\ ~WritesWhole /\ ~WritesWhole' /\ DiskInv(s)'
         /\ behind' \in [Chats -> SUBSET Files]
         /\ disk' \in [Chats -> [state : {"missing", "whole", "torn"}, items : [IndexItems -> Nat]]]
<1> DEFINE r == [state |-> "torn", items |-> Nothing]
<1>2. behind' = [behind EXCEPT ![c] = Files] /\ disk' = [disk EXCEPT ![c] = r]
  BY DEF Tear
<1>3. /\ behind \in [Chats -> SUBSET Files]
      /\ disk \in [Chats -> [state : {"missing", "whole", "torn"}, items : [IndexItems -> Nat]]]
      /\ r \in [state : {"missing", "whole", "torn"}, items : [IndexItems -> Nat]]
  BY TypeFacts, NothingHeld DEF Inv
<1> HIDE DEF r
<1>4. /\ behind' \in [Chats -> SUBSET Files] /\ behind'[c] = Files
      /\ \A b \in Chats : b # c => behind'[b] = behind[b] /\ disk'[b] = disk[b]
  BY <1>2, <1>3
<1>5. disk' \in [Chats -> [state : {"missing", "whole", "torn"}, items : [IndexItems -> Nat]]]
  BY <1>2, <1>3
<1>6. ~WritesWhole /\ ~WritesWhole'
  BY DEF Tear, WritesWhole
<1>7. \A b \in Chats : Sources(disk[b].items)' = Sources(disk'[b].items)
  BY DEF Sources, Held
<1>8. DiskInv(s)'
  <2>1. \A b \in Chats : disk'[b].state = "torn" => behind'[b] = Files
    BY <1>4, <1>6 DEF Inv, DiskInv
  <2>2. \A b \in Chats : \A f \in Sources(disk'[b].items) : f \notin behind'[b] => f \notin setup.textless
    <3>1. \A b \in Chats : \A f \in Sources(disk'[b].items) : f \in Files
      BY <1>5 DEF Sources, Held, IndexItems
    <3> QED
      BY <1>4, <3>1 DEF Inv, DiskInv
  <2>3. \A b \in Chats : \A f \in Files \ behind'[b] :
           f \in Sources(disk'[b].items) <=> f \in docs[b] \ setup.textless
    <3> SUFFICES ASSUME NEW b \in Chats, NEW f \in Files \ behind'[b]
                 PROVE  f \in Sources(disk'[b].items) <=> f \in docs[b] \ setup.textless
      OBVIOUS
    <3>1. b # c /\ disk'[b] = disk[b] /\ f \notin behind[b]
      BY <1>4
    <3>2. ~InHand(s, b, f)
      BY <3>1
    <3> QED
      BY <3>1, <3>2 DEF Inv, DiskInv
  <2>4. OwnItemsOnce'
    BY <1>6 DEF OwnItemsOnce
  <2> QED
    BY <1>6, <1>7, <2>1, <2>2, <2>3, <2>4 DEF DiskInv
<1> QED
  BY <1>4, <1>5, <1>6, <1>8

\* A write that fails leaves the saved index of before, or a torn one, and is noted.
LEMMA SaveFailsStep ==
  ASSUME NEW s, Slots = {s}, Inv(s), SaveFails(s)
  PROVE  Inv(s)'
<1> DEFINE c == task[s].chat
           f == task[s].file
<1>1. /\ task[s].pc = "save" /\ task[s].op \in Changing \cup {"rebuild"} /\ c \in Chats
      /\ (task[s].op \in Changing => f \in Files)
  BY TypesNow DEF SaveFails, Inv, TaskOK, Changing, Importing
<1>2. /\ UNCHANGED <<docs, heap, global, contents, textChunks, setup, models, chatName, loaded, answer, ops>>
      /\ unsaved' = TRUE /\ Imported(s) /\ global # Nil
  BY DEF SaveFails, session
<1>3. Finished(s)
  BY <1>1, <1>2, ImportedFacts
<1>4. /\ behind' \in [Chats -> SUBSET Files]
      /\ disk' \in [Chats -> [state : {"missing", "whole", "torn"}, items : [IndexItems -> Nat]]]
      /\ DiskInv(s)'
  <2>1. CASE disk' = disk /\ behind' = [behind EXCEPT ![c] = @ \cup ({f} \cap Files)]
    <3>1. /\ behind' \in [Chats -> SUBSET Files]
          /\ \A b \in Chats : behind[b] \subseteq behind'[b]
          /\ task[s].op \in Changing => f \in behind'[c]
      BY <1>1, <2>1, TypeFacts DEF Inv
    <3>2. OwnItemsOnce'
      BY <1>2, <2>1 DEF Inv, DiskInv, OwnItemsOnce, WritesWhole, Held
    <3>3. \A b : Sources(disk[b].items)' = Sources(disk[b].items)
      BY <2>1 DEF Sources, Held
    <3>4. \A b \in Chats : disk[b].state = "torn" => behind'[b] = Files /\ ~WritesWhole
      BY <3>1, TornStays DEF Inv
    <3>5. \A b \in Chats : \A g \in Sources(disk[b].items) :
             WritesWhole \/ g \notin behind'[b] => g \notin setup.textless
      BY <3>1 DEF Inv, DiskInv
    <3>6. \A b \in Chats : \A g \in Files \ behind'[b] :
             g \in Sources(disk[b].items) <=> g \in docs[b] \ setup.textless
      BY <3>1 DEF Inv, DiskInv, InHand
    <3>7. DiskInv(s)'
      BY <1>2, <2>1, <3>2, <3>3, <3>4, <3>5, <3>6 DEF DiskInv, WritesWhole
    <3> QED
      BY <2>1, <3>1, <3>7, TypeFacts DEF Inv
  <2>2. CASE Tear(c)
    <3>1. \A b, g : InHand(s, b, g) => b = c
      BY DEF InHand
    <3> QED
      BY <1>1, <1>2, <2>2, <3>1, TearFacts
  <2> QED
    BY <2>1, <2>2 DEF SaveFails
<1>5. /\ Typed' /\ TaskOK(s)' /\ DocsOfTask(s)' /\ BuffersOfTask(s)' /\ ObjectsOfTask(s)'
      /\ AnswerInv(s)' /\ task'[s].op \notin Changing /\ task'[s].pc \in {"idle", "load"}
  BY <1>1, <1>2, <1>3, <1>4, FinishedTask
<1>6. GlobalInv(s)'
  BY <1>1, <1>2, <1>5 DEF Inv, GlobalInv, WritesWhole
<1> QED
  BY <1>4, <1>5, <1>6 DEF Inv

------------------------------------------------------------------------------
(* searchIndexWithQuery *)

\* A search goes through the index the task holds.
LEMMA SearchStep ==
  ASSUME NEW s, Slots = {s}, Inv(s), Search(s)
  PROVE  Inv(s)'
<1>1. task[s].pc = "search" /\ task[s].op \in {"ask", "question"} /\ global \in Objects
  BY TypesNow DEF Search, Inv, TaskOK
<1>2. /\ UNCHANGED <<docs, disk, behind, heap, global, embedding, contents, textChunks, setup, models, unsaved, chatName, loaded>>
      /\ UNCHANGED <<answer, ops>>
  BY DEF Search, stores, session, globals
<1>3. Advanced(s, "answer", global, task[s].text)
  BY <1>1, TypesNow, HoldFacts DEF Search, Pcs
<1>4. Typed' /\ DiskInv(s)' /\ AnswerInv(s)'
  BY <1>1, <1>2, <1>3, TypesNow, Advances
<1>5. TaskOK(s)'
  BY <1>1, <1>2, <1>3 DEF Inv, TaskOK, Advanced, Moved, Changing, Importing, AddSteps, BuildSteps
<1>6. DocsOfTask(s)' /\ BuffersOfTask(s)'
  BY <1>1, <1>3 DEF DocsOfTask, BuffersOfTask, Advanced, Moved, Importing, AddSteps, BuildSteps
<1>7. ObjectsOfTask(s)'
  BY <1>1, <1>2, <1>3 DEF Inv, ObjectsOfTask, Readable, Loaded, Advanced, Moved
<1>8. GlobalInv(s)'
  BY <1>1, <1>2, <1>3, GlobalFrame DEF Inv, Advanced, Moved
<1> QED
  BY <1>4, <1>5, <1>6, <1>7, <1>8 DEF Inv

\* The answer comes from the index that is saved.
LEMMA AnswerStep ==
  ASSUME NEW s, Slots = {s}, Inv(s), Answer(s)
  PROVE  Inv(s)'
<1> DEFINE c == task[s].chat
<1>1. /\ task[s].pc = "answer" /\ task[s].op \in {"ask", "question"} /\ task[s].obj = global
      /\ global \in Objects /\ c \in setup.chats /\ c \in Chats
  BY TypesNow DEF Answer, Inv, TaskOK, ObjectsOfTask
<1>2. /\ UNCHANGED <<docs, disk, behind, heap, global, embedding, contents, textChunks, setup, models, unsaved, chatName, loaded, ops>>
      /\ Ended(s)
  BY TypesNow, EndFacts DEF Answer, stores, session, globals
<1>3. answer' = [op |-> task[s].op, chat |-> c, file |-> task[s].file,
                 model |-> heap[global].model, items |-> heap[global].items]
  BY <1>1 DEF Answer
<1>4. WritesWhole => Readable(s)
  BY <1>1 DEF Inv, DiskInv, Readable
<1>5. QuestionSearchesItsChat'
  <2>1. task[s].op = "question" /\ WritesWhole =>
           heap[global].items = disk[c].items /\ heap[global].model \in models[c]
    BY <1>1, <1>4 DEF Inv, ObjectsOfTask, Loaded
  <2> QED
    BY <1>2, <1>3, <2>1 DEF QuestionSearchesItsChat, WritesWhole
<1>6. RetrievalSearchesSaved'
  <2>1. ASSUME Cardinality(setup.chats) = 1, WritesWhole, ~unsaved
        PROVE  heap[global].items = disk[c].items
    <3>1. IsFiniteSet(setup.chats)
      BY RagIndexAssumption, TypeFacts, FS_Subset DEF Inv
    <3>2. \E x : setup.chats = {x}
      BY <2>1, <3>1, FS_Singleton
    <3>3. global # Nil
      BY <1>1, RagIndexAssumption
    <3>4. heap[global].owner \in setup.chats
      BY <3>3 DEF Inv, GlobalInv
    <3>5. heap[global].items = disk[heap[global].owner].items
      BY <1>1, <2>1, <3>3 DEF Inv, GlobalInv
    <3>6. heap[global].owner = c
      BY <1>1, <3>2, <3>4
    <3> QED
      BY <3>5, <3>6
  <2> QED
    BY <1>2, <1>3, <2>1 DEF RetrievalSearchesSaved, WritesWhole
<1>7. AnswerInv(s)'
  BY <1>1, <1>2, <1>3, <1>5, <1>6 DEF AnswerInv, Ended, Moved
<1>8. Typed'
  BY <1>2, TypesNow, TypeFacts, TypedStep DEF Inv, Typed, Ended, Moved
<1>9. DiskInv(s)'
  BY <1>1, <1>2, DiskFrame DEF Inv, Ended, Moved, Changing, Importing
<1>10. GlobalInv(s)'
  BY <1>1, <1>2, GlobalFrame DEF Inv, Ended, Moved
<1> QED
  BY <1>2, <1>7, <1>8, <1>9, <1>10, EndedTask DEF Inv

------------------------------------------------------------------------------
(* The process dies; another chat is chosen *)

\* A new process finds what was saved and remembers nothing else.
LEMMA RestartInv ==
  ASSUME NEW s, Slots = {s}, Inv(s), Restart, docs' = docs, ops' = ops,
         behind' \in [Chats -> SUBSET Files],
         disk' \in [Chats -> [state : {"missing", "whole", "torn"}, items : [IndexItems -> Nat]]],
         DiskInv(s)'
  PROVE  Inv(s)'
<1>1. Ended(s)
  BY RestartFacts
<1>2. AnswerInv(s)'
  BY AnswerForgotten DEF Restart
<1>3. Typed'
  <2>1. heap' \in [Objects -> [owner : Chats \cup {Nil}, model : Models, items : [IndexItems -> Nat]]]
    <3> DEFINE r == [owner |-> Nil, model |-> Default, items |-> Nothing]
    <3>1. r \in [owner : Chats \cup {Nil}, model : Models, items : [IndexItems -> Nat]]
      BY NothingHeld DEF Models
    <3>2. heap' = [o \in Objects |-> r]
      BY DEF Restart
    <3> HIDE DEF r
    <3> QED
      BY <3>1, <3>2
  <2>2. Default \in Models
    BY DEF Models
  <2> QED
    BY <1>1, <2>1, <2>2, TypedStep DEF Restart, Inv, Ended, Moved
<1>4. GlobalInv(s)'
  BY <1>1 DEF Restart, GlobalInv, Ended, Moved
<1> QED
  BY <1>1, <1>2, <1>3, <1>4, EndedTask DEF Inv

\* What a crash catches halfway is what the task had in hand.
LEMMA InterruptedFacts ==
  ASSUME NEW s, Slots = {s}, Inv(s), NEW c \in Chats
  PROVE  /\ Interrupted(c) \subseteq Files
         /\ \A f : InHand(s, c, f) => f \in Interrupted(c)
  BY DEF Interrupted, InHand, Inv, TaskOK, Changing, Importing

\* Dying between two steps, in Crash or in SearchTraps.
LEMMA CrashInv ==
  ASSUME NEW s, Slots = {s}, Inv(s), Restart, UNCHANGED <<docs, disk, ops>>,
         behind' = [c \in Chats |-> behind[c] \cup Interrupted(c)]
  PROVE  Inv(s)'
<1>1. behind' \in [Chats -> SUBSET Files]
  BY InterruptedFacts, TypeFacts DEF Inv
<1>2. UNCHANGED <<setup, models>>
  BY DEF Restart
<1>3. \A c \in Chats : Sources(disk[c].items)' = Sources(disk[c].items)
  BY DEF Sources, Held
<1>4. \A c \in Chats : behind[c] \subseteq behind'[c] /\ Interrupted(c) \subseteq behind'[c]
  OBVIOUS
<1>5. OwnItemsOnce'
  BY <1>2 DEF Inv, DiskInv, OwnItemsOnce, WritesWhole, Held
<1>6. \A c \in Chats : disk[c].state = "torn" => behind'[c] = Files /\ ~WritesWhole
  BY <1>1, <1>4 DEF Inv, DiskInv
<1>7. \A c \in Chats : \A f \in Sources(disk[c].items) :
         WritesWhole \/ f \notin behind'[c] => f \notin setup.textless
  BY <1>4 DEF Inv, DiskInv
<1>8. \A c \in Chats : \A f \in Files \ behind'[c] :
         f \in Sources(disk[c].items) <=> f \in docs[c] \ setup.textless
  BY <1>4, InterruptedFacts DEF Inv, DiskInv
<1>9. DiskInv(s)'
  BY <1>2, <1>3, <1>5, <1>6, <1>7, <1>8 DEF DiskInv, WritesWhole
<1> QED
  BY <1>1, <1>9, TypeFacts, RestartInv DEF Inv

\* A crash inside a save leaves a torn file, and its documents are noted.
LEMMA CrashInSaveStep ==
  ASSUME NEW s, Slots = {s}, Inv(s), CrashInSave(s)
  PROVE  Inv(s)'
<1> DEFINE c == task[s].chat
<1>1. c \in Chats /\ Restart /\ UNCHANGED <<docs, ops>> /\ Tear(c)
  BY TypesNow DEF CrashInSave
<1>2. UNCHANGED <<setup, models>>
  BY <1>1 DEF Restart
<1>3. \A b, f : InHand(s, b, f) => b = c
  BY DEF InHand
<1> QED
  BY <1>1, <1>2, <1>3, TearFacts, RestartInv

\* Selecting a chat forgets that the index was loaded.
LEMMA SelectChatStep ==
  ASSUME NEW s, Slots = {s}, Inv(s), NEW c \in setup.chats, SelectChat(c)
  PROVE  Inv(s)'
<1>1. /\ UNCHANGED <<docs, disk, behind, heap, global, embedding, contents, textChunks, setup, task, answer, ops>>
      /\ UNCHANGED <<models, unsaved>>
  BY DEF SelectChat, stores, globals
<1>2. chatName' = c /\ loaded' = FALSE
  BY DEF SelectChat
<1>3. Typed'
  BY <1>1, <1>2, TypesNow, TypeFacts, TypedStep DEF Inv, Typed
<1>4. TaskOK(s)'
  BY <1>1, <1>2 DEF Inv, TaskOK
<1>5. DocsOfTask(s)' /\ BuffersOfTask(s)'
  BY <1>1 DEF Inv, DocsOfTask, BuffersOfTask, Readable, Sources, Held, Imports, Rebuilds, Brings
<1>6. ObjectsOfTask(s)'
  BY <1>1 DEF Inv, ObjectsOfTask, Readable, Loaded, Changed, ItemsOf, Imports, Rebuilds, Plus, Nothing,
     removeItem, Importing
<1>7. GlobalInv(s)' /\ DiskInv(s)' /\ AnswerInv(s)'
  BY <1>1, <1>2, DiskFrame, AnswerFrame DEF Inv, GlobalInv, WritesWhole
<1> QED
  BY <1>3, <1>4, <1>5, <1>6, <1>7 DEF Inv

\* Picking a model for a chat only adds to what its operations may use.
LEMMA PickModelStep ==
  ASSUME NEW s, Slots = {s}, Inv(s), NEW c \in setup.chats, NEW m \in Models, PickModel(c, m)
  PROVE  Inv(s)'
<1>1. /\ UNCHANGED <<docs, disk, behind, heap, global, embedding, contents, textChunks, setup, task, answer, ops>>
      /\ UNCHANGED <<unsaved, chatName, loaded>>
  BY DEF PickModel, stores, globals
<1>2. models' \in [Chats -> SUBSET Models] /\ \A b \in Chats : models[b] \subseteq models'[b]
  BY TypesNow DEF PickModel
<1>3. Typed' /\ TaskOK(s)'
  BY <1>1, <1>2 DEF Inv, Typed, RagTypeOK, TaskOK
<1>4. task[s].op # "none" => task[s].chat \in Chats
  BY TypeFacts DEF Inv, TaskOK
<1>5. DocsOfTask(s)' /\ BuffersOfTask(s)'
  BY <1>1, <1>2, <1>4 DEF Inv, TaskOK, DocsOfTask, BuffersOfTask, Readable, Sources, Held, Imports, Rebuilds,
     Brings
<1>6. \A o : Changed(s, o) => Changed(s, o)' \/ task[s].op = "none"
  BY <1>1, <1>2, <1>4 DEF Changed, Readable, ItemsOf, Imports, Rebuilds, Plus, Nothing, removeItem, Importing
<1>7. ObjectsOfTask(s)'
  BY <1>1, <1>2, <1>4, <1>6 DEF Inv, TaskOK, ObjectsOfTask, Readable, Loaded
<1>8. GlobalInv(s)' /\ DiskInv(s)' /\ AnswerInv(s)'
  BY <1>1, <1>2, DiskFrame, AnswerFrame DEF Inv, GlobalInv, WritesWhole
<1> QED
  BY <1>3, <1>5, <1>7, <1>8 DEF Inv

------------------------------------------------------------------------------
(* Theorems *)

\* The invariant holds at the start.
LEMMA InitInv ==
  ASSUME NEW s, Slots = {s}, RagInit
  PROVE  Inv(s)
<1>1. /\ Idle \in Task /\ Idle.op = "none" /\ Idle.pc = "idle" /\ Idle.chat = Nil
      /\ Idle.file = Nil /\ Idle.obj = Nil /\ Idle.text = {}
  BY DEF Idle, Task, Ops, Pcs
<1>2. task = [r \in Slots |-> Idle] /\ task[s] = Idle
  BY DEF RagInit
<1> HIDE DEF Idle
<1>3. /\ heap \in [Objects -> [owner : Chats \cup {Nil}, model : Models, items : [IndexItems -> Nat]]]
      /\ disk \in [Chats -> [state : {"missing", "whole", "torn"}, items : [IndexItems -> Nat]]]
      /\ Default \in Models
  BY NothingHeld DEF RagInit, Models
<1>4. setup.ops \in Nat
  BY RagIndexAssumption DEF RagInit, Setup
<1>5. Typed
  <2>1. /\ docs \in [Chats -> SUBSET Files] /\ behind \in [Chats -> SUBSET Files]
        /\ global \in Objects \cup {Nil} /\ embedding \in Models
        /\ contents = {} /\ textChunks = {} /\ chatName = Nil /\ loaded = FALSE /\ setup \in Setups
    BY <1>3 DEF RagInit
  <2>2. ops \in 0..setup.ops
    BY <1>4 DEF RagInit
  <2>3. \A r \in Slots : task[r] = Idle /\ task \in [Slots -> Task]
    BY <1>1, <1>2
  <2>4. models \in [Chats -> SUBSET Models] /\ unsaved \in BOOLEAN
    <3>1. models = [c \in Chats |-> {Model[c]}] /\ unsaved = FALSE
      BY DEF RagInit
    <3>2. \A c \in Chats : {Model[c]} \in SUBSET Models
      BY DEF Models
    <3> QED
      BY <3>1, <3>2
  <2> QED
    BY <1>1, <1>2, <1>3, <2>1, <2>2, <2>3, <2>4 DEF Typed, RagTypeOK
<1>6. TaskOK(s) /\ DocsOfTask(s) /\ BuffersOfTask(s) /\ ObjectsOfTask(s)
  BY <1>1, <1>2 DEF TaskOK, DocsOfTask, BuffersOfTask, ObjectsOfTask, Changing, Importing, AddSteps, BuildSteps
<1>7. GlobalInv(s) /\ AnswerInv(s)
  BY <1>1, <1>2 DEF RagInit, GlobalInv, AnswerInv, QuestionSearchesItsChat, RetrievalSearchesSaved
<1>8. \A c \in Chats : disk[c].items = Nothing /\ disk[c].state = "missing" /\ docs[c] = {}
  BY DEF RagInit
<1>9. DiskInv(s)
  BY <1>8, NothingHeld DEF DiskInv, OwnItemsOnce
<1> QED
  BY <1>5, <1>6, <1>7, <1>9 DEF Inv

\* Every step keeps the invariant.
LEMMA NextInv ==
  ASSUME NEW s, Slots = {s}, Inv(s), RagNext
  PROVE  Inv(s)'
<1>1. ASSUME Step(s) PROVE Inv(s)'
  <2>1. ASSUME SearchTraps(s) PROVE Inv(s)'
    BY <2>1, CrashInv DEF SearchTraps
  <2> QED
    BY <1>1, <2>1, AskLoadedStep, LoadStep, LoadThrowsStep, PublishStep, CheckFileStep, RemoveItemsStep,
       FetchStep, FetchFailsStep, FetchDocsStep, SplitStep, SplitDocsStep, GenerateStep, GeneratedStep, TakeStep, AddStep,
       AssignStep, SaveStep, SaveFailsStep, SearchStep, AnswerStep DEF Step
<1>2. ASSUME Crash PROVE Inv(s)'
  BY <1>2, CrashInv DEF Crash
<1> QED
  BY <1>1, <1>2, StartStep, CrashInSaveStep, SelectChatStep, PickModelStep DEF RagNext

\* A step that changes nothing keeps the invariant.
LEMMA StutterInv ==
  ASSUME NEW s, Inv(s), UNCHANGED ragVars
  PROVE  Inv(s)'
<1>1. UNCHANGED <<docs, disk, behind, heap, global, embedding, contents, textChunks, setup, task, answer, ops,
                  chatName, loaded, models, unsaved>>
  BY DEF ragVars, stores, globals, session
<1>2. Typed' /\ TaskOK(s)'
  BY <1>1 DEF Inv, Typed, RagTypeOK, TaskOK
<1>3. DocsOfTask(s)' /\ BuffersOfTask(s)'
  BY <1>1 DEF Inv, DocsOfTask, BuffersOfTask, Readable, Sources, Held, Imports, Rebuilds, Brings
<1>4. ObjectsOfTask(s)'
  BY <1>1 DEF Inv, ObjectsOfTask, Readable, Loaded, Changed, ItemsOf, Imports, Rebuilds, Plus, Nothing,
     removeItem, Importing
<1>5. GlobalInv(s)' /\ DiskInv(s)' /\ AnswerInv(s)'
  BY <1>1, DiskFrame, AnswerFrame DEF Inv, GlobalInv, WritesWhole
<1> QED
  BY <1>2, <1>3, <1>4, <1>5 DEF Inv

\* The inductive invariant, with one task at a time.
LEMMA Invariance ==
  ASSUME NEW s, Slots = {s}
  PROVE  RagSpec => []Inv(s)
<1>1. RagInit => Inv(s)
  BY InitInv
<1>2. Inv(s) /\ [RagNext]_ragVars => Inv(s)'
  BY NextInv, StutterInv
<1> QED
  BY <1>1, <1>2, PTL DEF RagSpec

\* With one task at a time the index in memory and the saved index of its chat agree whenever
\* nothing runs, unless the last write has failed; and a saved index has the documents of its
\* own chat only, each once and under one model, one that was picked for that chat: one index
\* object, one model variable and one text buffer serve all chats (RAG.swift), and no order of
\* operations, crashes and failures included, mixes them up.
THEOREM StoresCorrectHolds ==
  ASSUME NEW s, Slots = {s}
  PROVE  RagSpec => []StoresCorrect
<1>1. Inv(s) => StoresCorrect
  <2> SUFFICES ASSUME Inv(s) PROVE CacheCoherent
    BY DEF StoresCorrect, Inv, Typed, DiskInv
  <2>1. Quiet => task[s].pc \notin {"assign", "save"}
    BY DEF Quiet
  <2> QED
    BY <2>1 DEF CacheCoherent, Inv, GlobalInv
<1> QED
  BY <1>1, Invariance, PTL

\* When nothing runs a saved index holds the documents of its directory, but for those a crash
\* or a torn file caught halfway and those whose own copy, removal or write failed:
\* addFileToIndex, removeFileFromIndex and BuildNewIndex leave no other document out and no
\* other behind.
THEOREM IndexMatchesDocsHolds ==
  ASSUME NEW s, Slots = {s}
  PROVE  RagSpec => []IndexMatchesDocs
<1>1. Inv(s) => IndexMatchesDocs
  <2> SUFFICES ASSUME Inv(s), Quiet PROVE IndexMatchesDocs
    BY DEF IndexMatchesDocs
  <2>1. task[s].op = "none"
    BY DEF Quiet, Inv, TaskOK
  <2> QED
    BY <2>1 DEF IndexMatchesDocs, Inv, DiskInv, InHand, Changing, Importing
<1> QED
  BY <1>1, Invariance, PTL

\* A retrieval has an index to search, "Question to Doc" searches the saved index of the chat
\* it was asked for with a model that was picked for that chat, and with one chat, and no
\* failed write since, every question searches what is saved (GenerateRagLLMQuery, which
\* unwraps the results with an exclamation mark).
THEOREM RetrievalCorrectHolds ==
  ASSUME NEW s, Slots = {s}
  PROVE  RagSpec => []RetrievalCorrect
<1>1. Inv(s) => RetrievalCorrect
  BY DEF RetrievalCorrect, NeverTraps, Inv, GlobalInv, AnswerInv
<1> QED
  BY <1>1, Invariance, PTL

------------------------------------------------------------------------------
(* The saved index follows the directory *)

index == [c \in Chats |-> Sources(disk[c].items)]

astray == [c \in Chats |-> behind[c] \cap Interrupted(c)]

\* A save takes in no document that is not in the directory and drops none that is.
LEMMA SaveFollows ==
  ASSUME NEW s, Slots = {s}, Inv(s), Save(s), WritesWhole
  PROVE  Documents!Follow(task[s].chat) \/ UNCHANGED <<docs, index>>
<1> DEFINE c == task[s].chat
           f == task[s].file
           files == Sources(heap[global].items)
<1>1. /\ task[s].pc = "save" /\ c \in Chats /\ docs' = docs
      /\ task[s].op \in Changing \cup {"rebuild"}
  BY TypesNow DEF Save, Inv, TaskOK, Changing, Importing
<1>2. Readable(s)
  BY <1>1 DEF Inv, DiskInv, Readable
<1>3. CASE global = Nil
  BY <1>1, <1>3 DEF Save, index, Sources, Held
<1>4. CASE global # Nil
  <2>1. files \in SUBSET Files
    BY <1>4, TypesNow DEF Sources, Held, IndexItems
  <2>2. disk' = [disk EXCEPT ![c] = [state |-> "whole", items |-> heap[global].items]]
    BY <1>4 DEF Save
  <2>3. disk \in [Chats -> [state : {"missing", "whole", "torn"}, items : [IndexItems -> Nat]]]
    BY TypeFacts DEF Inv
  <2>4. /\ disk'[c].items = heap[global].items
        /\ \A b \in Chats : b # c => disk'[b] = disk[b]
    BY <1>1, <2>2, <2>3
  <2>5. index' = [b \in Chats |-> Sources(disk'[b].items)]
    BY DEF index, Sources, Held
  <2>6. index' = [index EXCEPT ![c] = files]
    BY <1>1, <2>4, <2>5 DEF index
  <2>7. /\ files \ index[c] \subseteq docs[c] \cup astray[c]
        /\ (index[c] \ files) \cap docs[c] \subseteq astray[c]
    <3>1. index[c] = Sources(disk[c].items)
      BY <1>1 DEF index
    <3>2. CASE task[s].op \in Changing
      <4>1. f \in behind[c] => f \in astray[c]
        BY <1>1, <3>2 DEF astray, Interrupted, Changing, Importing
      <4>2. CASE task[s].op \in Importing
        <5>1. \/ files = index[c] \cup ({f} \ setup.textless)
              \/ files = index[c]
          BY <1>1, <1>2, <3>1, <4>2, ChangedSources
        <5>2. f \in docs[c] \cup behind[c]
          BY <4>2 DEF Inv, DocsOfTask
        <5> QED
          BY <4>1, <5>1, <5>2
      <4>3. CASE task[s].op = "delete"
        <5>1. files = index[c] \ {f}
          BY <1>1, <1>2, <3>1, <4>3, ChangedSources
        <5>2. f \notin docs[c] \ behind[c]
          BY <4>3 DEF Inv, DocsOfTask
        <5> QED
          BY <4>1, <5>1, <5>2
      <4> QED
        BY <3>2, <4>2, <4>3 DEF Changing
    <3>3. CASE task[s].op = "rebuild"
      <4>1. files = docs[c] \ setup.textless
        BY <1>1, <3>3, ChangedSources
      <4>2. \A g \in index[c] : g \notin setup.textless
        BY <1>1, <3>1 DEF Inv, DiskInv
      <4> QED
        BY <4>1, <4>2
    <3> QED
      BY <1>1, <3>2, <3>3
  <2> QED
    BY <1>1, <2>1, <2>6, <2>7 DEF Documents!Follow, index, astray
<1> QED
  BY <1>3, <1>4

\* The saved index takes in a document only while it is in the directory and gives it up only
\* when it is gone from there, but for a document whose own copy or removal has failed:
\* RagIndex implements DocumentIndex.
THEOREM FollowsDocsHolds ==
  ASSUME NEW s, Slots = {s}
  PROVE  RagSpec => FollowsDocs
<1>1. RagInit => Documents!Init
  <2> SUFFICES ASSUME RagInit PROVE Documents!Init
    OBVIOUS
  <2>1. \A c \in Chats : disk[c].items = Nothing
    BY DEF RagInit
  <2>2. \A c \in Chats : Sources(disk[c].items) = {}
    BY <2>1, NothingHeld
  <2>3. docs = [c \in Chats |-> {}]
    BY DEF RagInit
  <2> QED
    BY <2>2, <2>3 DEF Documents!Init
<1>2. Inv(s) /\ [RagNext]_ragVars => [Documents!Next]_<<docs, index>>
  <2> SUFFICES ASSUME Inv(s), [RagNext]_ragVars, WritesWhole
               PROVE  [\E c \in Chats : Documents!ChangeDocs(c) \/ Documents!Follow(c)]_<<docs, index>>
    BY DEF Documents!Next
  <2>1. disk' = disk => index' = index
    BY DEF index, Sources, Held
  <2>2. ASSUME NEW c \in setup.chats, NEW f \in Files,
               Import(s, c, f) \/ DocQuery(s, c, f) \/ Delete(s, c, f)
        PROVE  (\E b \in Chats : Documents!ChangeDocs(b)) \/ UNCHANGED <<docs, disk>>
    <3>1. c \in Chats /\ docs[c] \cup {f} \in SUBSET Files /\ docs[c] \ {f} \in SUBSET Files
      BY TypeFacts DEF Inv
    <3>2. disk' = disk
      BY <2>2 DEF Import, DocQuery, Delete
    <3>3. docs' = docs \/ \E files \in SUBSET Files : docs' = [docs EXCEPT ![c] = files]
      BY <2>2, <3>1 DEF Import, DocQuery, Delete, CopyFileToSandbox, removeFile
    <3> QED
      BY <2>1, <3>1, <3>2, <3>3 DEF Documents!ChangeDocs, index
  <2>3. CASE Save(s)
    BY <2>3, SaveFollows, TypesNow DEF Inv, TaskOK, Save
  <2>4. CASE UNCHANGED <<docs, disk>>
    BY <2>1, <2>4
  <2>5. ~CrashInSave(s)
    BY DEF CrashInSave, Tear, WritesWhole
  <2>6. ASSUME Step(s), ~Save(s) PROVE UNCHANGED <<docs, disk>>
    <3>1. SaveFails(s) => UNCHANGED <<docs, disk>>
      BY DEF SaveFails, Tear, WritesWhole
    <3> QED
      BY <2>6, <3>1 DEF Step, AskLoaded, Load, LoadThrows, Publish, CheckFile, RemoveItems, Fetch, FetchFails,
         FetchDocs, Split, SplitDocs, Generate, Generated, Take, Add, Assign, Search, Answer, SearchTraps, stores
  <2>7. ASSUME NEW c, Rebuild(s, c) \/ LoadIndex(s, c) \/ SelectChat(c) \/ \E m : PickModel(c, m)
        PROVE  UNCHANGED <<docs, disk>>
    BY <2>7 DEF Rebuild, LoadIndex, SelectChat, PickModel, stores
  <2>8. ASSUME Ask(s) \/ Crash \/ UNCHANGED ragVars PROVE UNCHANGED <<docs, disk>>
    BY <2>8 DEF Ask, Crash, ragVars, stores
  <2> QED
    BY <2>2, <2>3, <2>4, <2>5, <2>6, <2>7, <2>8 DEF RagNext, Start
<1> QED
  BY <1>1, <1>2, Invariance, PTL DEF RagSpec, FollowsDocs, Documents!Spec, index, astray

==============
