--------------------------- MODULE DownloadsProofs ---------------------------
(***************************************************************************)
(* Proofs about Downloads for any number of URLs, names, downloads and     *)
(* launches, and for every kind of user and network.                       *)
(***************************************************************************)
EXTENDS Downloads, SequenceTheorems, TLAPS

USE DownloadsAssumption DEF Setup, NoFile

Statuses == {"download", "downloading", "downloaded", "error"}

\* What DownloadsTypeOK leaves open: the queue is one, and a setup is a record.
QueueType == mainQueue \in Seq(Statuses) /\ setup \in Setup

\* A file holds a transfer that was saved, and two files do not hold the same one.
FilesHoldSaved ==
    /\ \A n \in Names : files[n] # NoFile =>
          files[n] \in DOMAIN transfers /\ transfers[files[n]].outcome = "saved"
    /\ \A n, m \in Names : files[n] # NoFile /\ files[n] = files[m] => n = m
    /\ \A i \in DOMAIN transfers :
          transfers[i].outcome = "saved" => \E n \in Names : files[n] = i

\* With a user who waits only the last transfer runs, and under the name of its URL.
OnlyLastRuns ==
    Orderly => \A i \in Running :
        i = Len(transfers) /\ NameOf[transfers[i].url] = currentFileName /\ mainQueue = << >>

\* What is shown or about to be shown is the outcome of the last transfer.
Tells(status) ==
    /\ status = "downloaded" => transfers # << >> /\ transfers[Len(transfers)].outcome = "saved"
    /\ status = "error" => transfers # << >> /\ transfers[Len(transfers)].outcome = "failed"

TellsOfLast == Orderly => Tells(downloadStatus) /\ \A k \in DOMAIN mainQueue : Tells(mainQueue[k])

IInv == DownloadsTypeOK /\ QueueType /\ FilesHoldSaved /\ FileIsItsUrl /\ OnlyLastRuns /\ TellsOfLast

------------------------------------------------------------------------------
(* The inductive invariant *)

\* Nothing has been downloaded.
LEMMA InitInv == DownloadsInit => IInv
<1> SUFFICES ASSUME DownloadsInit PROVE IInv
  OBVIOUS
<1>1. QueueType
  BY DEF DownloadsInit, QueueType
<1>2. DownloadsTypeOK
  <2>1. Range(mainQueue) = {}
    BY DEF DownloadsInit, Range
  <2>2. files \in [Names -> NoFile..MaxDownloads]
    BY DEF DownloadsInit
  <2>3. setup.downloads \in Nat /\ setup.launches \in Nat \ {0}
    BY <1>1 DEF QueueType
  <2>4. transfers \in Seq([url : Urls, outcome : Outcomes]) /\ Len(transfers) <= setup.downloads
    BY <2>3 DEF DownloadsInit
  <2>5. launches \in 1..setup.launches /\ setup \in Setups
    BY <2>3 DEF DownloadsInit
  <2>6. {downloadStatus, seenStatus} \cup Range(mainQueue) \subseteq Statuses
    BY <2>1 DEF DownloadsInit, Statuses
  <2> QED
    BY <2>2, <2>4, <2>5, <2>6 DEF DownloadsInit, DownloadsTypeOK, Statuses
<1>3. FilesHoldSaved /\ FileIsItsUrl
  BY DEF DownloadsInit, FilesHoldSaved, FileIsItsUrl
<1>4. OnlyLastRuns /\ TellsOfLast
  BY DEF DownloadsInit, OnlyLastRuns, TellsOfLast, Tells, Running
<1> QED
  BY <1>1, <1>2, <1>3, <1>4 DEF IInv

\* The record of a transfer that ends changes its outcome and nothing else.
LEMMA EndOfTransfer ==
  ASSUME IInv, NEW i \in Running, NEW o \in Outcomes,
         transfers' = [transfers EXCEPT ![i].outcome = o]
  PROVE  /\ transfers' \in Seq([url : Urls, outcome : Outcomes])
         /\ Len(transfers') = Len(transfers) /\ DOMAIN transfers' = DOMAIN transfers
         /\ i \in DOMAIN transfers /\ transfers[i].outcome = "running"
         /\ transfers'[i].outcome = o /\ transfers'[i].url = transfers[i].url
         /\ \A j \in DOMAIN transfers : j # i => transfers'[j] = transfers[j]
<1>1. transfers \in Seq([url : Urls, outcome : Outcomes])
  BY DEF IInv, DownloadsTypeOK
<1>2. i \in DOMAIN transfers /\ transfers[i].outcome = "running"
  BY DEF Running
<1>3. [transfers[i] EXCEPT !.outcome = o] \in [url : Urls, outcome : Outcomes]
  <2>1. transfers[i] \in [url : Urls, outcome : Outcomes]
    <3>1. i \in 1..Len(transfers)
      BY <1>1, <1>2
    <3> HIDE DEF Setup
    <3> QED
      BY <1>1, <3>1, ElementOfSeq
  <2> QED
    BY <2>1
<1> QED
  BY <1>1, <1>2, <1>3

\* A download that starts is one more transfer, and leaves the others alone.
LEMMA StartOfTransfer ==
  ASSUME IInv, StartDownload
  PROVE  /\ transfers' \in Seq([url : Urls, outcome : Outcomes])
         /\ Len(transfers') = Len(transfers) + 1 /\ Len(transfers') <= setup.downloads
         /\ DOMAIN transfers' = DOMAIN transfers \cup {Len(transfers')}
         /\ transfers'[Len(transfers')] = [url |-> customUrl, outcome |-> "running"]
         /\ \A j \in DOMAIN transfers : transfers'[j] = transfers[j]
<1>1. transfers \in Seq([url : Urls, outcome : Outcomes]) /\ setup \in Setup
  BY DEF IInv, DownloadsTypeOK, QueueType
<1>2. customUrl \in Urls
  BY DEF IInv, DownloadsTypeOK, StartDownload, CanStart
<1>3. [url |-> customUrl, outcome |-> "running"] \in [url : Urls, outcome : Outcomes]
  BY <1>2 DEF Outcomes
<1> QED
  BY <1>1, <1>3 DEF StartDownload

\* Every step keeps the types.
LEMMA StepType ==
  ASSUME IInv, [DownloadsNext]_downloadVars
  PROVE  DownloadsTypeOK' /\ QueueType'
<1> DEFINE T == [url : Urls, outcome : Outcomes]
<1>0. /\ transfers \in Seq(T) /\ Len(transfers) \in Nat /\ Len(transfers) <= setup.downloads
      /\ mainQueue \in Seq(Statuses) /\ setup \in Setup
      /\ customUrl \in Urls \cup {BadUrl, NoUrl} /\ showError \in BOOLEAN
      /\ currentFileName \in Names \cup {NoName} /\ session \in BOOLEAN
      /\ downloadStatus \in Statuses /\ seenStatus \in Statuses
      /\ files \in [Names -> NoFile..MaxDownloads]
      /\ launches \in 1..setup.launches /\ setup \in Setups
      /\ session => currentFileName # NoName
      /\ setup.launches \in Nat
  <2>1. DownloadsTypeOK /\ QueueType
    BY DEF IInv
  <2>2. setup.launches \in Nat
    BY <2>1 DEF QueueType
  <2>3. transfers \in Seq(T) /\ Len(transfers) \in Nat
    BY <2>1 DEF DownloadsTypeOK
  <2>4. downloadStatus \in Statuses /\ seenStatus \in Statuses
    BY <2>1 DEF DownloadsTypeOK, Statuses
  <2> QED
    BY <2>1, <2>2, <2>3, <2>4 DEF DownloadsTypeOK, QueueType
<1>1. setup' = setup
  BY DEF DownloadsNext, downloadVars, view, TypeUrl, StartNoUrl, StartDownload, Stop, DismissAlert, OnChange,
         RunBlock, ServerError, Save, SaveFails, NetworkError, Relaunch
<1>2. transfers' \in Seq(T) /\ Len(transfers') <= setup'.downloads
  <2>1. CASE StartDownload
    BY <2>1, <1>1, StartOfTransfer
  <2>2. ASSUME NEW i \in DOMAIN transfers, NEW o \in Outcomes, i \in Running,
               transfers' = [transfers EXCEPT ![i].outcome = o]
        PROVE  transfers' \in Seq(T) /\ Len(transfers') <= setup'.downloads
    BY <2>2, <1>0, <1>1, EndOfTransfer
  <2>3. CASE UNCHANGED transfers
    BY <2>3, <1>0, <1>1
  <2> QED
    BY <2>1, <2>2, <2>3 DEF DownloadsNext, downloadVars, TypeUrl, StartNoUrl, Stop, DismissAlert, OnChange,
         RunBlock, ServerError, Save, SaveFails, NetworkError, Ends, Relaunch, Outcomes
<1>3. mainQueue' \in Seq(Statuses)
  <2>1. \A s \in Statuses : Append(mainQueue, s) \in Seq(Statuses)
    BY <1>0
  <2>2. mainQueue # << >> => Tail(mainQueue) \in Seq(Statuses)
    BY <1>0
  <2>3. "downloaded" \in Statuses /\ "error" \in Statuses
    BY DEF Statuses
  <2>4. CASE RunBlock
    BY <2>2, <2>4 DEF RunBlock
  <2>5. CASE Relaunch
    BY <2>5 DEF Relaunch
  <2>6. ASSUME NEW i \in DOMAIN transfers, ServerError(i) \/ Save(i) \/ SaveFails(i)
        PROVE  mainQueue' \in Seq(Statuses)
    BY <2>1, <2>3, <2>6 DEF ServerError, Save, SaveFails, Ends
  <2> QED
    BY <1>0, <2>4, <2>5, <2>6 DEF DownloadsNext, downloadVars, TypeUrl, StartNoUrl, StartDownload, Stop,
       DismissAlert, OnChange, NetworkError
<1>4. customUrl' \in Urls \cup {BadUrl, NoUrl} /\ showError' \in BOOLEAN
  BY <1>0 DEF DownloadsNext, downloadVars, view, TypeUrl, StartNoUrl, StartDownload, Stop, DismissAlert, OnChange,
     RunBlock, ServerError, Save, SaveFails, NetworkError, Ends, Relaunch
<1>5. /\ currentFileName' \in Names \cup {NoName} /\ session' \in BOOLEAN
      /\ session' => currentFileName' # NoName
  <2>1. CASE StartDownload
    <3>1. customUrl \in Urls
      BY <2>1, <1>0 DEF StartDownload, CanStart
    <3> QED
      BY <3>1, <2>1 DEF StartDownload, Names
  <2>2. CASE StartNoUrl
    BY <2>2, <1>0 DEF StartNoUrl, Names
  <2>3. CASE Relaunch
    BY <2>3 DEF Relaunch
  <2>4. CASE UNCHANGED <<currentFileName, session>>
    BY <2>4, <1>0
  <2> QED
    BY <2>1, <2>2, <2>3, <2>4 DEF DownloadsNext, downloadVars, TypeUrl, Stop, DismissAlert, OnChange,
       RunBlock, ServerError, Save, SaveFails, NetworkError, Ends
<1>6. downloadStatus' \in Statuses /\ seenStatus' \in Statuses
  <2>1. CASE RunBlock
    BY <2>1, <1>0 DEF RunBlock, view
  <2> QED
    BY <2>1, <1>0 DEF DownloadsNext, downloadVars, view, TypeUrl, StartNoUrl, StartDownload, Stop, DismissAlert,
     OnChange, ServerError, Save, SaveFails, NetworkError, Ends, Relaunch, Statuses
<1>7. files' \in [Names -> NoFile..MaxDownloads]
  <2>1. ASSUME NEW i \in DOMAIN transfers, Save(i)
        PROVE  files' \in [Names -> NoFile..MaxDownloads]
    <3>1. i \in NoFile..MaxDownloads
      BY <1>0
    <3> QED
      BY <2>1, <3>1, <1>0 DEF Save
  <2> QED
    BY <2>1, <1>0 DEF DownloadsNext, downloadVars, TypeUrl, StartNoUrl, StartDownload, Stop, DismissAlert,
     OnChange, RunBlock, ServerError, SaveFails, NetworkError, Relaunch
<1>8. launches' \in 1..setup'.launches
  BY <1>0, <1>1 DEF DownloadsNext, downloadVars, TypeUrl, StartNoUrl, StartDownload, Stop, DismissAlert,
     OnChange, RunBlock, ServerError, Save, SaveFails, NetworkError, Relaunch
<1>9. Range(mainQueue') \subseteq Statuses
  BY <1>3 DEF Range
<1> QED
  BY <1>0, <1>1, <1>2, <1>3, <1>4, <1>5, <1>6, <1>7, <1>8, <1>9 DEF DownloadsTypeOK, QueueType, Statuses

\* A transfer that runs is the content of no file.
LEMMA RunningHeldByNone ==
  ASSUME IInv, FilesHoldSaved, NEW i \in Running
  PROVE  \A n \in Names : files[n] # i
<1>1. i \in DOMAIN transfers /\ transfers[i].outcome = "running"
  BY DEF Running
<1>2. i # NoFile
  BY <1>1 DEF IInv, DownloadsTypeOK
<1> QED
  BY <1>1, <1>2 DEF FilesHoldSaved

\* Every step keeps each file the content of a saved transfer, and each of those in one.
LEMMA StepFiles ==
  ASSUME IInv, [DownloadsNext]_downloadVars
  PROVE  FilesHoldSaved'
<1>0. FilesHoldSaved /\ transfers \in Seq([url : Urls, outcome : Outcomes])
  BY DEF IInv, DownloadsTypeOK
<1>1. CASE StartDownload
  <2>1. files' = files
    BY <1>1 DEF StartDownload
  <2> QED
    BY <2>1, <1>0, <1>1, StartOfTransfer DEF FilesHoldSaved
<1>2. ASSUME NEW i \in DOMAIN transfers, Save(i)
      PROVE  FilesHoldSaved'
  <2>1. /\ i \in Running /\ files[currentFileName] = NoFile
        /\ files' = [files EXCEPT ![currentFileName] = i]
        /\ transfers' = [transfers EXCEPT ![i].outcome = "saved"]
    BY <1>2 DEF Save, Ends
  <2>2. currentFileName \in Names /\ files \in [Names -> NoFile..MaxDownloads]
    BY <1>2 DEF IInv, DownloadsTypeOK, Save, Ends
  <2>3. /\ DOMAIN transfers' = DOMAIN transfers /\ transfers'[i].outcome = "saved"
        /\ \A j \in DOMAIN transfers : j # i => transfers'[j] = transfers[j]
    BY <2>1, EndOfTransfer DEF Outcomes
  <2>4. \A n \in Names : files[n] # i
    BY <1>0, <2>1, RunningHeldByNone
  <2>5. i # NoFile
    BY <1>0
  <2> QED
    BY <1>0, <2>1, <2>2, <2>3, <2>4, <2>5 DEF FilesHoldSaved
<1>3. ASSUME NEW i \in Running, NEW o \in Outcomes \ {"saved"}, UNCHANGED files,
             transfers' = [transfers EXCEPT ![i].outcome = o]
      PROVE  FilesHoldSaved'
  <2>1. /\ DOMAIN transfers' = DOMAIN transfers /\ transfers'[i].outcome = o
        /\ \A j \in DOMAIN transfers : j # i => transfers'[j] = transfers[j]
    BY <1>3, EndOfTransfer
  <2>2. \A n \in Names : files[n] # i
    BY <1>0, RunningHeldByNone
  <2> QED
    BY <1>0, <1>3, <2>1, <2>2 DEF FilesHoldSaved
<1>4. CASE UNCHANGED <<transfers, files>>
  BY <1>0, <1>4 DEF FilesHoldSaved
<1> QED
  BY <1>1, <1>2, <1>3, <1>4 DEF DownloadsNext, downloadVars, TypeUrl, StartNoUrl, Stop, DismissAlert, OnChange,
     RunBlock, ServerError, SaveFails, NetworkError, Ends, Relaunch, Outcomes

\* The last transfer and the transfers that run, when the transfers do not change.
LEMMA SameTransfers ==
  ASSUME UNCHANGED <<setup, transfers>>
  PROVE  /\ Running' = Running /\ Orderly' = Orderly
         /\ \A s : Tells(s)' <=> Tells(s)
<1>1. Running' = Running /\ Orderly' = Orderly
  BY DEF Running, Orderly
<1>2. ASSUME NEW s PROVE Tells(s)' <=> Tells(s)
  BY DEF Tells
<1> QED
  BY <1>1, <1>2

\* With a user who waits, transfers start one after the other, and each end is told before
\* the next begins.
LEMMA StepOrder ==
  ASSUME IInv, [DownloadsNext]_downloadVars
  PROVE  (FileIsItsUrl /\ OnlyLastRuns /\ TellsOfLast)'
<1> SUFFICES ASSUME Orderly'
             PROVE  (FileIsItsUrl /\ OnlyLastRuns /\ TellsOfLast)'
  BY DEF FileIsItsUrl, OnlyLastRuns, TellsOfLast
<1>0. /\ transfers \in Seq([url : Urls, outcome : Outcomes]) /\ mainQueue \in Seq(Statuses)
      /\ Len(transfers) \in Nat /\ launches \in Nat \ {0}
  BY DEF IInv, DownloadsTypeOK, QueueType
<1>1. setup' = setup /\ Orderly
  BY DEF DownloadsNext, downloadVars, view, TypeUrl, StartNoUrl, StartDownload, Stop, DismissAlert, OnChange,
         RunBlock, ServerError, Save, SaveFails, NetworkError, Relaunch, Orderly
<1>2. ~Relaunch
  BY <1>0, <1>1 DEF Relaunch, Orderly
<1>3. /\ \A n \in Names : files[n] # NoFile =>
             files[n] \in DOMAIN transfers /\ NameOf[transfers[files[n]].url] = n
      /\ \A i \in Running :
             i = Len(transfers) /\ NameOf[transfers[i].url] = currentFileName /\ mainQueue = << >>
      /\ Tells(downloadStatus) /\ \A k \in DOMAIN mainQueue : Tells(mainQueue[k])
      /\ \A n \in Names : files[n] # NoFile => transfers[files[n]].outcome = "saved"
  BY <1>1 DEF IInv, FilesHoldSaved, FileIsItsUrl, OnlyLastRuns, TellsOfLast
<1>4. CASE StartDownload
  <2>1. Running = {} /\ mainQueue = << >>
    BY <1>1, <1>4 DEF StartDownload, CanStart, Orderly
  <2>2. /\ files' = files /\ mainQueue' = mainQueue /\ downloadStatus' = "downloading"
        /\ currentFileName' = NameOf[customUrl]
    BY <1>4 DEF StartDownload
  <2>3. FileIsItsUrl'
    BY <1>3, <2>2, <1>4, StartOfTransfer DEF FileIsItsUrl
  <2>4. Running' = {Len(transfers')} /\ NameOf[transfers'[Len(transfers')].url] = currentFileName'
    <3>1. /\ DOMAIN transfers' = DOMAIN transfers \cup {Len(transfers')}
          /\ transfers'[Len(transfers')] = [url |-> customUrl, outcome |-> "running"]
          /\ \A j \in DOMAIN transfers : transfers'[j] = transfers[j]
      BY <1>4, StartOfTransfer
    <3>2. \A j \in DOMAIN transfers : transfers'[j].outcome # "running"
      BY <3>1, <2>1 DEF Running
    <3>3. transfers'[Len(transfers')].outcome = "running"
      BY <3>1
    <3>4. \A j \in Running' : j = Len(transfers')
      BY <3>1, <3>2 DEF Running
    <3>5. Len(transfers') \in Running'
      BY <3>1, <3>3 DEF Running
    <3>6. Running' = {Len(transfers')}
      BY <3>4, <3>5
    <3>7. transfers'[Len(transfers')].url = customUrl
      BY <3>1
    <3> QED
      BY <3>6, <3>7, <2>2
  <2>5. OnlyLastRuns'
    BY <2>1, <2>2, <2>4 DEF OnlyLastRuns
  <2>6. TellsOfLast'
    BY <2>1, <2>2 DEF TellsOfLast, Tells
  <2> QED
    BY <2>3, <2>5, <2>6
<1>5. CASE StartNoUrl
  <2>1. Running = {} /\ UNCHANGED <<setup, transfers, files, mainQueue, downloadStatus>>
    BY <1>1, <1>5 DEF StartNoUrl, CanStart, Orderly
  <2> QED
    BY <1>3, <2>1, SameTransfers DEF FileIsItsUrl, OnlyLastRuns, TellsOfLast
<1>6. CASE RunBlock
  <2>1. /\ UNCHANGED <<setup, transfers, files, currentFileName>> /\ mainQueue # << >>
        /\ downloadStatus' = Head(mainQueue) /\ mainQueue' = Tail(mainQueue)
    BY <1>6 DEF RunBlock
  <2>2. Running = {} /\ Tells(downloadStatus')
    BY <1>0, <1>3, <2>1
  <2>3. \A k \in DOMAIN mainQueue' : Tells(mainQueue'[k])
    BY <1>0, <1>3, <2>1
  <2> QED
    BY <1>3, <2>1, <2>2, <2>3, SameTransfers DEF FileIsItsUrl, OnlyLastRuns, TellsOfLast
<1>7. CASE Stop
  <2>1. UNCHANGED <<setup, transfers, files, currentFileName, mainQueue>> /\ Tells("download")
    BY <1>7 DEF Stop, Tells
  <2>2. downloadStatus' = "download"
    BY <1>7 DEF Stop
  <2> QED
    BY <1>3, <2>1, <2>2, SameTransfers DEF FileIsItsUrl, OnlyLastRuns, TellsOfLast
<1>8. ASSUME NEW i \in Running, NEW o \in Outcomes, NEW s \in Statuses,
             transfers' = [transfers EXCEPT ![i].outcome = o],
             o # "running", s = "downloaded" => o = "saved", s = "error" => o = "failed",
             mainQueue' \in {mainQueue, Append(mainQueue, s)},
             \/ files' = files
             \/ files' = [files EXCEPT ![currentFileName] = i] /\ o = "saved",
             UNCHANGED <<currentFileName, downloadStatus>>
      PROVE  (FileIsItsUrl /\ OnlyLastRuns /\ TellsOfLast)'
  <2>1. /\ DOMAIN transfers' = DOMAIN transfers /\ Len(transfers') = Len(transfers)
        /\ i \in DOMAIN transfers /\ transfers[i].outcome = "running"
        /\ transfers'[i].outcome = o /\ transfers'[i].url = transfers[i].url
        /\ \A j \in DOMAIN transfers : j # i => transfers'[j] = transfers[j]
    BY <1>8, EndOfTransfer
  <2>2. i = Len(transfers) /\ NameOf[transfers[i].url] = currentFileName /\ mainQueue = << >>
    BY <1>3
  <2>3. Running' = {}
    BY <1>3, <1>8, <2>1 DEF Running
  <2>4. FileIsItsUrl'
    <3>1. files \in [Names -> NoFile..MaxDownloads]
      BY DEF IInv, DownloadsTypeOK
    <3>2. \A n \in Names : files[n] # NoFile =>
             files[n] \in DOMAIN transfers' /\ NameOf[transfers'[files[n]].url] = n
      BY <1>3, <2>1
    <3> QED
      BY <1>8, <2>1, <2>2, <3>1, <3>2 DEF FileIsItsUrl
  <2>5. Tells(downloadStatus)'
    <3>1. downloadStatus \notin {"downloaded", "error"}
      BY <1>3, <2>1, <2>2 DEF Tells
    <3> QED
      BY <1>8, <3>1 DEF Tells
  <2>6. \A k \in DOMAIN mainQueue' : Tells(mainQueue[k])'
    <3>1. \A k \in DOMAIN mainQueue' : mainQueue'[k] = s
      BY <1>8, <2>2
    <3>2. transfers' # << >> /\ transfers'[Len(transfers')].outcome = o
      BY <1>0, <2>1, <2>2
    <3> QED
      BY <1>8, <3>1, <3>2 DEF Tells
  <2> QED
    BY <2>3, <2>4, <2>5, <2>6 DEF OnlyLastRuns, TellsOfLast
<1>9. CASE UNCHANGED <<transfers, files, currentFileName, mainQueue, downloadStatus>>
  BY <1>1, <1>3, <1>9, SameTransfers DEF FileIsItsUrl, OnlyLastRuns, TellsOfLast
<1> QED
  <2>1. ASSUME NEW i \in DOMAIN transfers,
               ServerError(i) \/ Save(i) \/ SaveFails(i) \/ NetworkError(i)
        PROVE  (FileIsItsUrl /\ OnlyLastRuns /\ TellsOfLast)'
    BY <2>1, <1>8 DEF ServerError, Save, SaveFails, NetworkError, Ends, Outcomes, Statuses
  <2> QED
    BY <2>1, <1>2, <1>4, <1>5, <1>6, <1>7, <1>9 DEF DownloadsNext, downloadVars, TypeUrl, DismissAlert, OnChange

\* The inductive invariant.
LEMMA Invariance == DownloadsSpec => []IInv
<1>1. IInv /\ [DownloadsNext]_downloadVars => IInv'
  BY StepType, StepFiles, StepOrder DEF IInv
<1> QED
  BY <1>1, InitInv, PTL DEF DownloadsSpec

------------------------------------------------------------------------------
(* The properties *)

\* Whatever user, network and system do, a transfer reported as saved is the content of
\* exactly one file and no other transfer is (didFinishDownloadingTo).
THEOREM SavedOnceCorrect == DownloadsSpec => []SavedOnce
<1>1. IInv => SavedOnce
  <2> SUFFICES ASSUME IInv, NEW i \in DOMAIN transfers
               PROVE  LET holding == {n \in Names : files[n] = i}
                      IN  IF transfers[i].outcome = "saved" THEN \E n \in Names : holding = {n}
                          ELSE holding = {}
    BY DEF SavedOnce
  <2>1. i # NoFile
    BY DEF IInv, DownloadsTypeOK
  <2>2. CASE transfers[i].outcome = "saved"
    <3>1. PICK n \in Names : files[n] = i
      BY <2>2 DEF IInv, FilesHoldSaved
    <3>2. {m \in Names : files[m] = i} = {n}
      BY <2>1, <3>1 DEF IInv, FilesHoldSaved
    <3> QED
      BY <2>2, <3>2
  <2>3. CASE transfers[i].outcome # "saved"
    BY <2>1, <2>3 DEF IInv, FilesHoldSaved
  <2> QED
    BY <2>2, <2>3
<1> QED
  BY <1>1, Invariance, PTL

\* With a user who lets a stopped download end before the next, in one launch, every file has
\* the name of its URL and the status shown is that of the last download, although one name
\* and one status serve all transfers (DownloadManager.currentFileName, downloadStatus).
THEOREM RightDownloadCorrect == DownloadsSpec => []RightDownload
<1>1. IInv => RightDownload
  <2> SUFFICES ASSUME IInv PROVE OutcomeIsOfLast
    BY DEF IInv, RightDownload
  <2>1. transfers # << >> => Last(transfers) = transfers[Len(transfers)]
    BY DEF Last
  <2> QED
    BY <2>1 DEF IInv, TellsOfLast, Tells, OutcomeIsOfLast
<1> QED
  BY <1>1, Invariance, PTL
==============================================================================
