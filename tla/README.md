# TLA+ models of LLM Farm / LocalMind

This directory models the parts of the app whose correctness depends on the order in
which things happen: the chat window with its dispatch queues, the llama context behind
it, the parameters and files of a turn, the retrieval index, the downloads; and the
algorithms of retrieval (splitting, ranking, inserting). Paths below are relative to
`src/`; `AIChatModel.swift` stands for `LLMFarm/AIChatModel.swift`, `AI.swift`,
`LLMBase.swift`, `LLaMa.swift` for the files of
`llmfarm_core.swift/Sources/llmfarm_core/`, and `SimilarityIndex.swift`, `TopK.swift` and
the splitters for those of `similarity-search-kit/Sources/SimilaritySearchKit/Core/`.

## The system

| Component | Code | State | Operations | Talks to |
| --- | --- | --- | --- | --- |
| Chat session | `AIChatModel.swift`, `AI.swift`, `UIComponents/LLMTextInput.swift`, `Chats/ChatView.swift`, `LLMFarmApp.swift` | `chat_name`, `messages`, `state`, `predicting`, `chat`, per AI `flagExit` and `model.context`, the history files | `Send`, `stop_predict`, `reload_chat`, Clear / `hard_reload_chat`, `after_model_load`, `process_predicted_str`, `finish_completion`, `GenerateRagLLMQuery` | AI objects through dispatch queues and callbacks; chat files; RAG index |
| Context window | `LLMBase.swift`, `LLaMa.swift`, `LLaMa_MModal.swift` | `context`, `nPast`, `past`, the KV cache, session file | `load_model`, `Predict`, `EvalInputTokensBatched`, `KVShift`, `save_state`, `load_state`, `destroy_objects` | llama.cpp; the token callback of the session |
| Parameters of a turn | `AIChatModel.swift:111-281`, `Lib/Helpers.swift` | `contextParams`, `sampleParams`, the copies in the model | `load_model_by_chat_name_prepare`, `update_chat_params`, `after_model_load`, `hard_reload_chat` | session, context window |
| RAG | `RAG/RAG.swift`, `Settings/ChatSettings/DocsView.swift`, `AIChatModel.swift:431-470` | one global `similarityIndex` and its directory on disk, the documents of each chat | load index, add / remove / re-index documents, search | session, Shortcuts intents |
| Similarity index | `similarity-search-kit` | `indexItems` | add, remove, update, search (top k), save, load | RAG |
| Text splitting | `CharacterSplitter.swift`, `TokenSplitter.swift`, `RecursiveTokenSplitter.swift` | none (one call) | split a text into chunks for the embedding model | RAG |
| Chat files | `Lib/Helpers.swift`, `Chats/ChatListView.swift`, `ChatSettingsView.swift` | a configuration, a history, documents and a session file per chat | create, edit, copy, delete, list | session, RAG, parameters |
| Intents (Shortcuts) | `Intents/OneShortQuery.swift`, `Intents/DocQueryIntent.swift` | none of their own | a question to a model, a question to a document | history files; RAG |
| Downloads | `Lib/DownloadManager.swift`, `Settings/DownloadModels.swift` | one status and one file name for any number of transfers | start, stop, finish, fail, relaunch | the system's background session |

Not modelled at all, with reasons in `PROJECT.json`: settings forms, views, tokenizers,
embedding models and metrics, sampling arithmetic, the unreachable RWKV and GGJTv3 back
ends, fine-tuning and LoRA export (no view leads to them and their bodies are commented
out), and the vendored C, C++ and Swift libraries.

### What is hard about it

* **Interleaving.** Every AI object owns a *concurrent* dispatch queue. Loading and
  predicting run there and read fields that the main actor writes (`flagExit`,
  `model.context`, the completion callback). The main actor is free in between.
* **Late blocks.** Tokens and completions are posted to the main queue and handled after
  any number of user actions. They are matched to the screen by chat *name* and by an
  exit flag that three parties reset.
* **Two-phase Send.** A question whose model is not loaded, or that asks for retrieval,
  is put aside; a callback later runs a second `Send` on whatever chat is then current.
* **Failure.** A load can fail before or after the context exists; a prediction can throw
  and then completes twice; the context can fill up in the middle of a reply.
* **Stale settings.** Parameters are copied into a model before a load and overwritten by
  the load's own callback.
* **Shared state.** One global similarity index serves all chats and the intents; one
  status and one file name serve all downloads; child tasks append to one plain array.
* **Files.** A configuration, a history, a session and an index are written in place by
  the window and by intents; the process may die between two writes or inside one.

## Modules

| Module | What it is |
| --- | --- |
| `ChatSession` | the chat window: user, tasks on the dispatch queue, blocks on the main queue, history files |
| `MCChatSession` | symmetry and view for TLC |
| `ChatSessionProofs` | theorems about `ChatSession` that need nothing of the user |
| `PatientUserProofs` | theorems about `ChatSession` with a user who waits for the app |
| `ContextMemory` | what the context window promises: a memory that learns at its end and forgets one block behind the first tokens |
| `LlamaContext` | the context window of one model: `Predict` over the KV cache of llama.cpp; implements `ContextMemory` |
| `MCLlamaContext` | symmetry for TLC |
| `LlamaContextProofs` | theorems about `LlamaContext`, the refinement of `ContextMemory` among them |
| `TurnParams`, `MCTurnParams` | which parameters a model runs with, and the session and history files around it |
| `TurnParamsProofs` | theorems about `TurnParams` |
| `DocumentIndex` | what a chat's saved index promises: it follows the directory of documents |
| `RagIndex` | documents, the global index and the saved indexes; implements `DocumentIndex` |
| `RagIndexProofs` | theorems about `RagIndex`, the refinement of `DocumentIndex` among them |
| `ItemInsertion` | `SimilarityIndex.addItems`: child tasks appending to one array |
| `TopK` | ranking of the results |
| `CharacterSplitter`, `TokenSplitter`, `RecursiveTokenSplitter` | the three ways to cut a text into chunks |
| `RetrievalCalls` | one call of a splitter, of `addItems` or of `topK`: the five modules above as one system to run |
| `MCRetrieval` | constants of `RagIndex` and `RetrievalCalls` for TLC, as one run |
| `RetrievalCallsProofs` | theorems about all five |
| `Downloads`, `MCDownloads` | the download manager and its view |
| `DownloadsProofs` | theorems about `Downloads` |
| `ChatFiles` | names and files of the chats |
| `MCFiles` | `ChatFiles` and `TurnParams` for TLC, as one run |
| `MCLive` | `ChatSession` and `Downloads` for TLC, as one run of what must eventually happen |
| `ChatFilesProofs` | theorems about `ChatFiles` |

The modules meet at the files and at the turn: `ChatSession` treats a load and a
prediction as opaque, `LlamaContext` and `TurnParams` open them; `ChatSession` sees a
retrieval as one answer, `RagIndex` opens it and takes the chunks of a document together,
`ItemInsertion` and the splitters open that; `TopK` opens the search.

### Setups

What a property needs of its surroundings is said in one place. `LlamaContext`,
`TurnParams`, `RagIndex` and `Downloads` have a variable `setup`, chosen in `Init` among the
constant `Setups` and never changed: whether the process may crash, evaluations, copies or
writes fail, loads overlap, the user hurry, and how many operations there may be. A property that holds in
some setups only names them, so that one run asks every question under the weakest
conditions that answer it, and a reader sees them in the property. A run's invariant is
often the conjunction of a few named ones about the same thing (`CountersAgree`,
`StoresCorrect`, `ParamsCorrect`, ...), the type invariant among them. `MCFiles`, `MCLive` and
`MCRetrieval` let a behaviour be one of either of two modules that share nothing; the other
one's variables keep their first values.

### ChatSession

Variables carry the names of the fields they stand for. `ai` holds the fields of each AI
object together with those of its model that the main actor looks at. An object is *free*,
and its identity may be used by a new object, once nothing in the app refers to it: the
session has dropped it, no task captures it, no block names it. That is what ARC does, and
it lets a small set of identities serve arbitrarily many objects.

* `UserSend`, `UserStop`, `CloseChat`, `SelectChat`, `ClearChat` are the user's actions;
  each is one atomic step because the handlers run on the main actor and never suspend.
* `LoadContext`, `LoadDone`, `LoadFail` are the stages of the load task: after
  `llama_init_from_model` the main actor sees a context although the load has not ended.
* `PredictToken` reads the exit flag on the dispatch queue, `PredictPost` posts the token
  afterwards: a stop may fall between the two. `PredictExit` consumes the flag.
  `PredictLimit` is the `C_LIMIT` callback whose answer the loop ignores. `PredictThrow`
  is the catch block, after which `PredictEnd` still posts the ordinary completion.
* `RagIndexed` and `RagFound` are the steps of the retrieval task.
* `HandleToken`, `HandleFinish`, `HandleLoaded`, `HandleSend`, `HandleRagSearch` take the
  head of the main queue. `Send` is shared by `UserSend` and `HandleSend`.

A message is who it is from, which question or reply it is, and how it is shown. History
files hold transcripts; `load_chat_history` is what saving and loading does to the states.
`failed` and `cleared` are history variables and occur in no guard.

Left out: the title of the window, scrolling, tokens per second, attachments (a question
with an image takes the same path), saving in `deinit`, and the configuration that is read
before a load (its failure is `SendRefused`). The session does not bound how long a queue
gets except when a token is posted (`MaxQueue`), where the code has no bound.

**The user.** With `SendWhileBusy = TRUE` the user sends whenever the button allows it.
Nothing in the code prevents a second question while a load, a retrieval or a stopped
prediction is still in flight, and the checks show which properties survive that.
`SendWhileBusy = FALSE` restricts only the moment of sending: stops, closes, switches and
clears still happen at any moment.

**Fairness** (`FairSpec`). Main queue and dispatch queues keep running what they hold:
weak fairness of the main loop, of each load, each prediction and each retrieval. A
prediction need not take any particular step, so only the disjunction of its steps is
fair. Nothing is assumed of the user.

### LlamaContext

The session allows one prediction per model at a time, so this module has one thread; what
makes it hard is that two counters describe the same cache. The Swift code counts tokens in
`nPast`, decides by it when to shift, and edits positions by it. llama.cpp numbers text from
the largest position it holds, and images get the numbers the Swift code passes.

* `Predict` takes a question; `EvalSystem`, `EvalImage`, `Tokenize`, `EvalInput`,
  `InputDone` and `EvalSample` are the stages of `LLMBase.Predict`, up to the next call of
  `llama_decode`. `KVShift` is part of `EvalInput` and `EvalSample`. `Stop` is any end of
  the sampling loop.
* `DecodeUBatch` is one round of the loop in `llama_decode_impl`: `find_slot` chooses the
  cells. `DecodeNoSlot` is the failed search, where `head` is left behind some used cell
  (which one depends on the search; the model allows any). `DecodeComputeFails` is an
  evaluation that fails, with `llama_kv_slot_restorer.restore`.
* `pos[c]` and `token[c]` are a cell's position and what it holds. `token` exists only to
  say what the model remembers: `Memory` lists it by position (the token with `i - 1` others
  before it is the `i`-th), and that sequence is the refinement mapping to `ContextMemory`.

Left out: the characters, sampling, `n_predict` and skip tokens (they only decide when the
loop stops), and the session file. `Size` (the allocated cache) and `Context` (what the
Swift code believes) are two constants because the code keeps two. A system prompt longer
than `n_batch` of llama.cpp aborts the process (`llama.cpp:8480`) and is not a behaviour of
the model. The properties need a window that can be shifted at all, which `Shiftable` of
`LlamaContextProofs` states (with `Keep = 6` of 8 TLC refutes `NPastCovers`: the discarded
block then lies behind `nPast`). Images are numbered
from `nPast` and evaluations that fail are not undone, so the setups tell text, images and
failures apart: `NPastCovers` and `PositionsContiguous` are about text,
`PositionsDistinct` holds with images or failures but not with both, and `ContextMemory`
promises nothing when evaluations fail. `AlwaysRoom` is violated, see `always_room`.

### TurnParams

`config`, `history` and `session` are the files of each chat. `model` holds, for each AI
object of the window, the parameters installed in it (whose they are, which version,
whether they carry a session path), how far its load is, what its cache holds and what
`nPast` claims. A parameter is represented by the version of the configuration it was read
from, because the properties ask only whether it is the right chat's and up to date.

* `Send` is `AIChatModel.Send` with `load_model_by_chat_name_prepare`; `LoadContext`,
  `LoadState`, `LoadDone`, `LoadFail` are the stages of the load, `after_model_load`
  included, which installs the parameters of the *session object*; `SendAgain` is the
  resend from the callback; `FinishTurn` stands for the prediction and `finish_completion`.
* `EditSettings` and `RefreshChatList` call `update_chat_params`. `SelectChat`, `ClearChat`,
  `DeleteChat` are the window's.
* `LoadBegin` is the beginning of `llm_load_model`, where the model takes the place of the one
  in `LLaMa_obj` (`retained`), the global that keeps the last model that began to load
  (`LLaMa.swift:9`, `:59`, `:173-175`).
* `IntentBegin` and `IntentAnswer` are the two halves of `OneShortQuery`. The first reads the
  history file (`:37`) and loads a model of its own, replacing `LLaMa_obj` before its own
  `load_state`; the second predicts and saves the transcript read in the first half, and the
  session. The intent may suspend in between (`:61-62`), and any other step may come there.
* `Release` is deallocation: an object held by neither the window, a task, an intent nor
  `LLaMa_obj` saves its state in `deinit` (`SaveState`). So the model of an answered intent, or
  of a window that has moved on, writes its session file at a later load, before that load
  reads one.

Left out: two loads that assign `LLaMa_obj` at the same moment (a data race between the
window's load, on a queue, and an intent's), and an intent whose load fails, which throws
before anything is written.

### RagIndex

`docs` and `disk` are the files, `heap` the `SimilarityIndex` objects, `global` the one in
`similarityIndex`; `embedding`, `contents` and `textChunks` are the other globals a retrieval
goes through. `task[s]` is an asynchronous call: each access to a global and each `await` is a
step, because no actor owns the functions of `RAG.swift`. Seven operations share the steps
(import, question to a document, delete, two ways to rebuild, load, ask).

What goes wrong:

* `Crash` ends the process between two steps, `CrashInSave` leaves the file cut short.
* `CopyFileToSandbox` and `removeFile` may fail without anybody looking at it
  (`Helpers.swift:255-259`, `:854`, `:882-892`). Import and "Question to Doc" then index the
  original all the same, or fail to read that too (`FetchFails`); a delete takes the items of a
  document out that stays.
* `SaveFails` is the error `saveIndex` prints (`RAG.swift:392-396`), with the file untouched or,
  where writes may be torn, cut short. `unsaved` remembers it until the next load or save.
* `PickModel` is the picker of the embedding model (`RagSettingsView.swift:87-91`). It rebuilds
  nothing, and several places keep a choice of their own (the view, the saved
  configuration, `AIChatModel`), so an operation comes with any of the models picked for its
  chat so far, `models[c]`. An index therefore may be searched with another model than it was
  made with, and `QuestionSearchesItsChat` promises only a model picked for that chat; while
  just one was, that is the model of the items.

`behind` is a history variable: the documents that a crash, or a copy, removal or write of
their own, may have left out of step.

A document is known by its name, so one that replaces another of the same name is not told
from it (`CopyFileToSandbox` keeps the old file). The import of a directory is several
imports. A configuration without an embedding model, which leaves the model of the chat
before in place, is left out.

### ItemInsertion

`addItems` starts a child task per text; `Encode` is the suspension, and `ReadCount`, `HasRoom`
or `Grow` and `Replace`, `StoreCount`, `Write` are the parts of `Array.append` in the order in
which Swift has them: the count is stored before the slot is initialised. Racing appends are
undefined in Swift, and the model says so: it remembers that two overlapped (`raced`), lets
their parts interleave in any order and the process end at any of them (`Trap`), and no
property promises anything from then on. Embedding and metadata are left out.

### Splitters and TopK

One call each, with the loop's rounds as actions: `Collect`/`Flush` for
`CharacterSplitter`, `TakeChunk`/`EmitChunk` for `TokenSplitter`,
`TrySeparator`/`PackPiece`/`NextChunk` for `RecursiveTokenSplitter`, `ReadStart`/`ReadRest`
for `TopK`. A text is a sequence of numbered words, of token kinds, or of atoms (a word
piece, a stop, a line break, a space), since a splitter asks nothing else of it. What the
library leaves open is left open: how `partition` orders what it moves once a score that is
no number has come between (`Orders`), and how many tokens the end of a word gives when it is
encoded by itself (`Reencoded`): one, as many as it was, fewer or more. A chunk size of 0,
which the settings accept, makes every chunk of `TokenSplitter` empty and its loop endless.
The checks compare with a definition of what the call should return (`ChunksAreWindows`,
`EachTokenOnce`, `ResultIsBestSoFar`), over every text up to the bound. `RetrievalCalls` declares
the variables of all five modules, `ItemInsertion` included, and lets each behaviour be one call
of one of them; the functions share nothing but the names of some variables.

### Downloads

`transfers` lists the downloads started, with their outcome; they belong to the system and
go on when the app is gone. The delegate queue ends one (`Save`, `ServerError`, `SaveFails`,
`NetworkError`), reading the *current* file name, and posts a block; `RunBlock` sets the
status; `OnChange` is the view's reaction. A user may tap only what the view shows. In a
setup with `waits` the user lets a stopped download end before the next; `networkFails`
allows transfers that end without a response (which the code does not handle). `Relaunch`
is a new process; the transfers go on and report once it makes the session again.

### ChatFiles

A chat's name is its title and the second it was made in (`FileName`). `chats` lists the
configurations, newest first; `belongings` says whose history, documents and session files
lie under each name, for nothing removes them; `torn` are the configurations cut short by
`CrashWhileSaving`. `get_chats_list` stops at the first of them.

## Runs

| Run | Question | Bounds |
| --- | --- | --- |
| `session_any` | whatever the user does, do the progress bar, the stop button and the history file keep in touch with the work in flight? | 2 chats, 2 AI identities, 2 questions, a token posted only to an empty queue |
| `session_patient` | is each question answered exactly once, each reply kept apart from the others, each context used by one task? | 2 chats, 2 identities, 2 questions (with and without retrieval), queue 2 |
| `live` | does a load always report back, does a raised flag end its prediction, does a download settle and is its failure shown? And for downloads: is what was saved there exactly once, are name, status and alert those of the right download? | chat: 1 question, queue 2; downloads: 3 URLs of which 2 have one name; setups: everything (2 downloads, 2 launches), a hasty user and a patient one (3 downloads, 1 launch, a network that answers) |
| `files` | do names keep chats apart, are all listed? Is a model ever given another chat's parameters, does an edit reach it, do sessions and histories lose nothing and resume what they claim? | files: 3 chats, 3 seconds, copies of originals; models: 2 chats, 3 models; setups: overlapping and late failing loads with 1 exchange and 2 edits, intents in other chats (3 exchanges), intents anywhere with late failing loads (2), intents and changing context sizes (2, 1 edit); a small context holds 1 exchange, a large one 3 |
| `retrieval` | do memory, saved index and directory stay in step when operations follow one another, does a retrieval search what is saved, does an imported document reach the index? Is a text cut without loss and into chunks of the right size, is the ranking that of a sort, does `addItems` add each text once, do the calls end? | index: 2 chats with 2 embedding models, 2 documents, one of them without text in most setups; 10 setups of 2 to 5 operations with crashes, torn and failed writes, failed copies and removals, a picked model, and with no faults; calls: texts of 12 words, 6 tokens or 6 atoms, sizes and overlaps from 0 up to 5; up to 30 scores, 0 to 3 results; 3 texts on 1 and 3 threads |
| `window` | do the two counters stay in step (`CountersAgree`), is the memory what `ContextMemory` promises? | 6 cells, batches of 2, 1 token kept, 2 kinds of token, system prompts of 0 or 3 tokens, questions of 0 or 2, images of 0 or 2 embeddings; setups: text, images, failing evaluations |
| `stop_at_limit` | the stop of `live`, when the context window may fill up: violated | 1 question |
| `clear_while_predicting` | Clear while a prediction runs: violated | 2 questions, impatient user |
| `turn_config` | does a first question run with its chat's parameters? violated | 2 exchanges, one after the other |
| `cleared_session` | does Clear end the dialog of a chat for good? violated | 2 chats, 2 exchanges, intents in other chats |
| `goal_size` | do the chunks of `RecursiveTokenSplitter` fit the goal? violated | size 3, texts of 6 atoms |
| `always_room` | does a batch that was let through find room? violated | 16 cells, batches of 8 |

The longest, `retrieval`, takes about three minutes with two workers.

A window of 6 cells is shifted after a handful of tokens, and its state graph is closed:
questions and shifts repeat without end, in every fragmentation they lead to. Two kinds of
token tell a reordered memory from the right one. The batches are a third of the window,
where fragmentation cannot refuse one. `always_room` has the proportion of the documented
defaults instead (`docs/inference_options.md:13-14`: a window of 1024, batches of 512), at
1:64 and with text alone.

Two chats with two embedding models are the least that let an index meet another chat's
model; two documents let one survive while the other is changed; three operations are an
import in each chat and one more on what they left, and one chat alone, whose graph is
smaller, gets four or five. In `TopK` 20 elements are the least for which the loop is taken
at all (`prefixCount < count / 10`). Three downloads let a late report of one meet two others;
two are enough when the process is relaunched between them. The splitters' texts are all
texts up to the bound, several chunks long for the smallest sizes. Three exchanges let an
intent resume a session that another has extended, while the window loads in between; three
models are one in the window, one with an intent and one in `LLaMa_obj`.

Two AI identities are enough: with two questions there are at most two pipelines, and an
object the session has dropped and no task captures is free again. Two questions are the
least that let one turn's late blocks meet another turn, a load meet another load, and a
reply meet a question it does not belong to. Two chats are the least for a switch; the
third would be symmetric. The deadlock check is on wherever the user
can always act; `live` ends when all questions are asked or all downloads made, `retrieval`
when a call returns.

`session_any` uses a VIEW that forgets what neither a guard nor one of that run's
invariants looks at (how messages are shown, fields of deallocated objects, the AI of a
finished turn, the history variables). `session_patient` and the violation runs use none.

### What holds only under a restriction

The setup, a constant or the property itself names each restriction, and TLC refutes the
property without it.

* `PositionsDistinct` needs images or failing evaluations to be absent.
  `llama_kv_slot_restorer` gives `llama_kv_cache_seq_rm` cell numbers for positions
  (`llama-kv-cache.h:212`); the two agree until the first shift, after which the tokens of
  a failed batch stay and `nPast` does not count them.
* `DialogOfItsChat` and `SessionKeepsDialog` of `TurnParams` need loads that do not overlap: the
  callback of a load sends its question again in whatever chat is current by then, and an
  object that a load keeps alive saves what it has not resumed.
  `SessionKeepsDialog` also needs loads that do not fail late ("clip"): such a load saves an
  empty state over the session of its chat. It needs contexts of one size, and intents that
  keep out of chats in use, as two models that resumed one session save it one after the
  other; and it speaks of session files with room left (`nPast < Room[FALSE]`): the next turn
  on a full context gives up the oldest exchange. `ResumedDialogIsInCache` needs contexts that
  do not change size: the result of loading the file is dropped and `nPast` set from it anyway.
* `HistoryOnlyGrows` needs intents to stay out of the chat on screen and of one another's: the
  window saves the messages it has over what an intent has written meanwhile, and an intent
  saves the transcript it read before it suspended over what was added since.
* The properties of the index, except `IndexMatchesDocs`, need writes that are not torn: an
  index that cannot be read leaves the object of another chat in place. `CacheCoherent` and
  `RetrievalSearchesSaved` say nothing between a write that failed and the next load or save,
  and `IndexMatchesDocs` nothing of a document whose own copy, removal or write failed, until
  the next rebuild (`FollowsDocs` only while its operation runs). `RetrievalSearchesSaved` needs a single chat, as the window loads the index
  only once.
* All of them need operations that do not overlap (`Slots` with one member). With two slots
  TLC refutes `OwnItemsOnce` and `QuestionSearchesItsChat` within two operations, `CacheCoherent`
  and `IndexMatchesDocs` within three: the second task replaces the global index while the
  first is at work on it, or finds the same document missing. The documents view lets its
  user start a second operation while one runs, so these are failures of the app; no document
  of the repository promises otherwise.
* `EachAddedOnce` needs appends that do not overlap; `OneThreadNoRace` says that one thread is
  enough for that, and on several nothing prevents it. `RagIndex` adds a document's chunks in
  one step, so its properties hold of the app only as far as `addItems` loses nothing.
* `FileIsItsUrl` and `OutcomeIsOfLast` need a user who lets a stopped download end first;
  `Settles` needs transfers that are answered, because an end without a response is
  ignored; all of them need one launch, as a relaunch forgets status and name.
* `EachTokenOnce` needs texts whose words are single tokens (`WholeWords`), or that have a stop
  in any `chunkSize` tokens in a row (`ShortSentences`). In any other text a chunk may begin
  inside a word, whose end, encoded by itself, is another number of tokens, and as many are
  taken from the rest: tokens are lost with more, repeated with fewer, and `removeFirst` traps
  on more than there are. The loop ends unless the size is 0 or a full stop comes to stand
  alone in a chunk, as it does at the end of a text.
* `ChunksAreWindows` needs an overlap below the size; from there on chunks have one word
  more. `OverBySeparators` states by how much `RecursiveTokenSplitter` exceeds the goal it is
  given, because separators are not counted; that it exceeds it at all is `goal_size`.
* `ResultIsBestSoFar` needs scores that are numbers: the cosine similarity of a zero vector
  takes a place in the result that nothing can win back.
* `NothingReplaced` and `BelongingsAreOwn` need chats made in different seconds.

### Disagreements with the code's own words

* `stop_at_limit`: at the end of the context window `Predict` calls the token callback with
  the mark `C_LIMIT` and ignores its answer (`LLMBase.swift:363`, `:468`). The callback
  consumes a raised exit flag and answers "exit", so a stop pressed at that moment is lost
  and the prediction runs on.
* `clear_while_predicting`: Clear drops the AI without raising its exit flag, and
  completions are matched by chat name. Once a new question has made a new AI for the same
  chat, the reply of the cleared conversation replaces that question, on screen and on disk.
* `turn_config`: `after_model_load` installs the parameters of the session object, which the
  load never sets, so a fresh model predicts with the defaults until a refresh. For the same
  reason it has lost its session path, and no dialog of the window is saved until then.
* `cleared_session`: `LLaMa_obj` keeps the model of an intent after its answer. Clear in the
  chat it answered in deletes the session file and tells the window's model not to save, but
  that one still does when the next load replaces it: the cleared session is back, in time for
  that very load to read it. `docs/save_load_state.md:5` names "Clear chat" as the way to reset
  a chat's state.
* `goal_size`: "without going over", says the class comment (`RecursiveTokenSplitter.swift:10`);
  the separator behind the last piece of a chunk is not counted (`:43`).
* `always_room`: `LLMBase` counts tokens, `llama_decode` needs cells in one run. In a window
  with batches of half its size the shift leaves two runs of free cells, each too short, and a
  question ends in `failedToEval` although half the window is empty. `EnoughCellsCorrect`
  (below) shows that fragmentation is the only cause.

### Fairness

`ChatSession`, see above. `RagIndex`: weak fairness of each task, as the pool runs what is
ready. `Downloads`: weak fairness of the view's update, of the main queue and of each report
of a transfer, but for `NetworkError`, which need not happen. `ItemInsertion`: of the pool
and of the waiting caller. `TokenSplitter`: of the loop itself. The user is never fair.

## Proofs

A run looks at one small instance; the theorems below hold for every value of the constants
that the module's `...Assumption` admits (sets are as large as wanted, bounds are numbers,
marks such as `NoAI` are not members). Every further hypothesis is an `ASSUME` of the
theorem and named here. TLC has checked each property first, on the run that lists it.

Each module has the same plan: the type invariant, one lemma per action or group of actions;
the inductive invariant as a conjunction of named parts; one lemma per part or per action;
and the theorem, which puts them together with `PTL`. Actions that touch nothing a part
speaks of are dealt with together.

### ChatSession, any user (`ChatSessionProofs`)

No hypothesis: any number of chats, AI objects, questions, queued blocks, both kinds of user.

* `TypeCorrect`. The other proofs rest on it: a block in the queue names a turn or an AI
  that exists.
* `LoadingHasLoadCorrect`, `PredictingHasTurnCorrect`. The invariants need strengthening only
  by the type invariant, but speak of "some block of this kind in the queue"; `PopKeeps`,
  `PostKeeps`, `QueueGrows`, `MainKeeps` say that no step but the handler of that kind takes
  such a block out.
* `PredictingIsHereCorrect`. Every way of choosing the AI of a `Send` ends on one of the chat
  on screen (`ObjectsType`), and every switch of chat lowers `predicting`.
* `IdleIsSavedCorrect`. `IdleIsSaved` says nothing while a turn is in flight, so it is not
  inductive. The invariant adds that every token in the queue is followed by the completion
  of its turn or the turn still runs (`Followed`), so that the last handler is one that saves.

### ChatSession, a patient user (`PatientUserProofs`)

Hypothesis `~SendWhileBusy`: the user sends when the app is quiet, but stops, closes, switches
and clears at any moment. `PatientInv` has two halves.

* `WorkInv`: the last question is either on its way, in exactly one of four places (a
  retrieval, a load, the callback of either), or dealt with, and then at most one turn is
  in flight; every earlier question is dealt with. This gives `ContextNotSharedCorrect` and
  `EachRequestOnceCorrect`.
* `TranscriptInv`: the running turn is of a chat and a message that is there, or was cleared
  (`TurnIsHere`, `TurnHasPlace`); replies stay in their chat (`RepliesAtHome`); the history
  file is a beginning of the screen (`FileBegins`); a message shown as running is the last
  and belongs to a turn in flight (`RunningEnds`). With `WorkInv` it gives `StopReachesTurnCorrect`,
  `ClearedStaysClearedCorrect`, `NothingLeftRunningCorrect` and, for steps,
  `TranscriptKeptCorrect`.

For the impatient user TLC refutes each of the six (`session_patient` with
`SendWhileBusy = TRUE`).

### Context window (`LlamaContextProofs`)

* `TypeCorrect` has no hypothesis: no position falls below 0 when `KVShift` moves it, and
  `head` stays inside the cache, with images and failing evaluations.
* `CountersAgreeCorrect` assumes `Shiftable`: `Batch <= UBatch`, `2 * Keep <= Context`,
  `2 * Keep + Batch <= Context + 2`, and system prompts that fit into the cache. The app uses
  batches of 512 for both and keeps 64 tokens, which fits its window of 1024; the run's
  window fits as well. The bounds came out of the proof: the block that `KVShift` discards
  must lie within what `nPast` counts whenever it is called. Below these sizes the code
  would edit positions it does not hold.

`IInv` says more than the properties. While a batch is being decoded, it lies beyond all
positions in the cache (`AheadOfCache`) and `nPast` plus what is decoded covers the cache
and the call (`Covered`); text in progress continues where the cache ends (`Continues`).
`PositionsDistinct` and `PositionsContiguous` are then preserved by a shift because a shift
moves a contiguous tail down over the block it removed.

* `WindowSpecHolds` assumes besides that the cache has the cells that were asked for
  (`Context <= Size`), as llama.cpp only rounds their number up (`llama.cpp:9555`). It is the
  refinement of `ContextMemory`: a round of `llama_decode` maps to `Learn`, a shift to `Forget`
  (or to a stutter, when it finds nothing), everything else to a stutter. That a shift drops
  one block behind the kept tokens needs a further invariant, `KeptHeld`: what `nPast` counts
  of the first `Keep` positions is in the cache. `Memory` is dealt with through ranks: the
  tokens before a cell are counted, a batch beyond all positions gets the next ranks, a shift
  takes the block's length off those behind it.
* `EnoughCellsCorrect` assumes that two batches fit into the cache (`TwoBatchesFit`; 512 of
  1024 do). While text is decoded, the cells in use and the rest of the batch are never more
  than the cache has, and a single sampled token always finds a free cell; so a longer batch
  is refused by fragmentation and nothing else. `EndsInside` is the inductive part: text in
  progress ends inside the cache.

### Parameters and files of a turn (`TurnParamsProofs`)

All properties of `TurnParams` in the run `files`, no hypothesis. What holds in some setups
only, the invariant too claims in those setups only.

* `ParamsCorrectHolds` from `Typed`: a model's parameters are its chat's or the defaults
  (`OwnRecord`), and up to date unless an edit is pending.
* `HistoryOnlyGrowsCorrect` from `ScreenHasFile`: where intents keep out of the chats in use,
  the screen shows all of its file, and the transcript an intent has read is all of its file
  until it is saved.
* `DialogCorrectHolds`: exchanges are numbered and each is in one place, a turn, a resend, an
  intent or spent (`Numbered`, `InOnePlace`); caches and sessions hold exchanges of their own
  chat (`Owned`); `nPast` counts what the cache holds (`Counted`).
* `SessionKeepsDialogCorrect` adds `Quiet`, in the setups of the property (`Calm`): one object of
  the window loads or predicts at a time and has lost its path before it can save (`OneAtATime`,
  `Loads`), so that only objects of intents save, each to a file of its own that it agrees with
  (`SaversAgree`); and each of those is with its intent or in `LLaMa_obj` (`SaversHeld`). What
  `LLaMa_obj` writes late is then what the file has already.

That a cleared chat stays cleared is no theorem: `cleared_session` refutes it.

### RAG index (`RagIndexProofs`)

Hypothesis `Slots = {s}`: operations follow one another, as in the run; with two tasks at
once the properties are false. All faults are allowed together, and any models picked. The
invariant follows the task through its steps: which documents it still has to add or remove
(`DocsOfTask`), what is in the global buffers (`BuffersOfTask`), which `SimilarityIndex` object
it holds and with which contents (`ObjectsOfTask`); between tasks `GlobalInv`, and for every
chat that is not in the task's hands, `DiskInv`. A document in `behind` is exempt from the parts
that relate index and directory, and only from these: it still is in no index twice or under
another chat. `StoresCorrectHolds`, `IndexMatchesDocsHolds` and `RetrievalCorrectHolds` are the
run's invariants. `FollowsDocsHolds` is the refinement: the initial states map to those of
`DocumentIndex`, a whole write of an index maps to `Follow`, a new or removed document to
`ChangeDocs`, and every other step to a stutter. Where writes can be torn, `DocumentIndex`
promises nothing; of a document whose copy or removal has failed it promises nothing while
its operation runs (`astray`).
It needs the invariant, because a save writes what the task collected several steps before.

### Retrieval calls (`RetrievalCallsProofs`)

No hypothesis; the scores of a collection are finitely many (an assumption of the module).
`CallInv` puts together the invariants of the five calls.

* `InsertionCorrectHolds`: while no two appends have overlapped, at most one child is inside
  `append` (`OneAppends`) and the array is as that child found it but for the parts it has done
  (`Progress`); every counted slot but the one about to be written holds the text of a child
  that is done, and no two the same (`HoldsDone`). One thread takes a child to its end before the
  next (`OneByOne`), so there the hypothesis holds by itself. The array is replaced while it
  grows, which is where an overlap would lose what was added.
* `CharactersCorrectHolds`: the chunk under construction begins at `Start(k)` (`Sliding`), from
  which the finished chunks are the windows asked for.
* `TokensCorrectHolds`: in a text whose words are single tokens, or with a stop in any
  `chunkSize` tokens in a row, every cut falls before the beginning of a word
  (`RestBeginsWord`); the second case needs that a chunk of full size then holds a stop and is
  cut behind it. So the open choice of `Reencoded` is never met, and chunks and rest make
  up the text.
* `RecursiveCorrectHolds`, from `RecursiveInv`. `Components` and the concatenation of chunks are
  recursive functions; that such a function exists, that it depends on the sequence alone and
  what adding a first or last element does to it is shown by minimal counterexample
  (`FlattenExists`, `FlattenAgrees`, `CutsExist`). So the pieces put together again with their
  separators are the text and one separator, and no separator begins inside a piece
  (`PiecesFrom`). While a chunk is packed it holds the tokens it is taken to have and those of
  one separator at most, which bounds what the separators can add. A piece that is too long
  even where spaces separate is a run without a space (`LongPiece`), which is what is left to
  blame when nothing was fine enough (`LongRun`).
* `RankingCorrectHolds`, from `RankInv`. A sequence ranks a bag of scores (`Ranks`) if its `i`-th
  place holds at least `x` just when `i` elements of the bag reach `x`; the beginning of the
  sorted bag is the one sequence of its length that does (`BestFacts`), and inserting an element
  where those it precedes begin keeps it so (`InsertRanks`).

### Downloads (`DownloadsProofs`), files (`ChatFilesProofs`)

* `SavedOnceCorrect` and `RightDownloadCorrect`, no hypothesis: files hold saved transfers
  and no two the same one (`FilesHoldSaved`); where the user waits only the last transfer
  runs, and status and queued blocks tell of it (`OnlyLastRuns`, `TellsOfLast`).
* `ChatFiles`: `TypeCorrect` (of `FilesTypeOK`) and `ListedUnlessTornCorrect` for any user;
  `BelongingsAreOwnCorrect` and `NothingReplacedCorrect` under `~Hurry` (chats are made in
  different seconds), from `NamesAreOwn`: what lies under a name comes from the chat that
  has it, and a name of the seconds to come has never been used.

### What the proofs found about the models

* `AfterLoad` of `RagIndex` was a `CASE` with arms that overlapped, whose value TLA+ does not
  fix; the arms are now disjoint. `Chats` there and the texts of `addItems` have to be
  finite, which the assumptions now say.
* `SessionKeepsDialog` of `TurnParams` needs its condition on the room left, which the
  instance of the run never made felt: a session file of a full context may be replaced by
  one without the oldest exchange. The types there did not say that `nPast` is a number.
* What "a window that can be shifted" means (`Shiftable`) was a remark with an example before,
  and that a window asks for no more cells than the cache has was not said at all.
* `Memory`, the sums of `TopK` and `TokenCount` were sorting, folds and filtered sequences; they
  are now ranks and cardinalities, which say the same and can be reasoned about. `TopK` fixed the
  order that `partition` leaves with a score that is no number, which the library does not; the
  set of scores has to be finite.

### Only model-checked

* Liveness, which needs fairness and `ENABLED`: `LoadEnds`, `StopHonoured`, `Settles`,
  `EveryFailureShown`, `EventuallyIndexed`, `CallsEnd`.
* The properties of the violation runs, which the code does not have.

## Plan

1. An abstract turn (asked, answering, answered or stopped) that `ChatSession` with a patient
   user implements; `WorkInv` and `TranscriptInv` are the invariants such a proof needs.
2. For which sizes of window and batch a batch always finds a run of cells (`AlwaysRoom`): how
   many runs the free cells can lie in after any number of shifts.
3. The session files of the context window (`save_state`, `load_state`), which `TurnParams` has
   as one step each, inside `LlamaContext`.

## Not modelled

* The vendored libraries are over nine tenths of the repository's lines (llama.cpp, ggml,
  cmark, markdown rendering). Only `llama_decode` and its cache are modelled, since the
  app's own counters depend on them.
* Dead code: fine-tuning and LoRA export, `DownloadButton` and `ModelDownloadItem`, the
  RWKV and GGJTv3 back ends, `RecursiveCharacterSplitter`, `rename_file`.
* Forms and views without a protocol, floating point arithmetic, Core ML inference, and the
  vocabulary of the tokenizers (the splitters take the number of tokens as given).
