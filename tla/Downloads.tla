----------------------------- MODULE Downloads -----------------------------
(***************************************************************************)
(* DownloadManager and DownloadModelsView: one download is shown at a      *)
(* time, by one status and one file name, while any number may run.        *)
(*                                                                         *)
(* A transfer belongs to the system's background session and outlives the  *)
(* app; its end is reported on the session's delegate queue, which reads   *)
(* currentFileName, copies the file and posts a block to the main queue.   *)
(* The view is updated after a tap, and some time after a posted block ran *)
(* but before the user can tap again.  isDownloading, isDownloaded and the *)
(* progress figures are read by no decision and are left out; the view is  *)
(* taken to stay open.                                                     *)
(***************************************************************************)
EXTENDS Integers, SequencesExt

CONSTANTS
    Urls,          \* the URLs that can be typed
    BadUrl,        \* a text that is no URL
    NameOf,        \* URL -> lastPathComponent
    DefaultName,   \* "model.gguf"
    MaxDownloads,  \* bound: the most transfers of any setup
    Setups         \* what user and network may do, see Setup

\* Does the user wait for a stopped download before the next, may a transfer end without a
\* response, and, as bounds, how many transfers are started and how often is the app?
Setup == [waits : BOOLEAN, networkFails : BOOLEAN, downloads : 0..MaxDownloads, launches : Nat \ {0}]

Names == {NameOf[u] : u \in Urls} \cup {DefaultName}
NoName == "no name"
NoUrl == "no url"
NoFile == 0

ASSUME DownloadsAssumption ==
    /\ MaxDownloads \in Nat /\ Setups \subseteq Setup
    /\ NoUrl \notin Urls \cup {BadUrl} /\ BadUrl \notin Urls /\ NoName \notin Names

VARIABLES
    setup,            \* one of Setups
    customUrl,        \* the text field
    showError,        \* the alert
    seenStatus,       \* the status the view was last updated with
    currentFileName,
    downloadStatus,
    mainQueue,        \* statuses that posted blocks will set
    session,          \* has this launch made the background session?
    transfers,        \* all downloads started: url and outcome
    files,            \* name -> transfer whose content it holds
    launches

view == <<customUrl, showError, seenStatus>>
downloadVars == <<setup, view, currentFileName, downloadStatus, mainQueue, session, transfers, files,
          launches>>

Outcomes == {"running", "saved", "failed", "dropped"}
Running == {i \in DOMAIN transfers : transfers[i].outcome = "running"}

DownloadsInit ==
    /\ setup \in Setups
    /\ customUrl = NoUrl /\ showError = FALSE /\ seenStatus = "download"
    /\ currentFileName = NoName /\ downloadStatus = "download"
    /\ mainQueue = << >> /\ session = FALSE
    /\ transfers = << >>
    /\ files = [n \in Names |-> NoFile]
    /\ launches = 1

------------------------------------------------------------------------------
(* The user *)

\* The view is up to date and no alert covers it.
UpToDate == seenStatus = downloadStatus /\ ~showError

TypeUrl(u) ==
    /\ UpToDate /\ downloadStatus # "downloading" /\ customUrl # u
    /\ customUrl' = u
    /\ UNCHANGED <<setup, showError, seenStatus, currentFileName, downloadStatus, mainQueue,
                   session, transfers, files, launches>>

\* The button is shown; setup.waits holds the user back until nothing is under way.
CanStart ==
    /\ UpToDate /\ downloadStatus # "downloading" /\ customUrl # NoUrl
    /\ setup.waits => Running = {} /\ mainQueue = << >>

\* startDownload of the view with a text that is no URL: only the name is set.
StartNoUrl ==
    /\ CanStart /\ customUrl = BadUrl
    /\ currentFileName' = DefaultName
    /\ UNCHANGED <<setup, view, downloadStatus, mainQueue, session, transfers, files, launches>>

\* Mutant of StartDownload: a name that is set already stays.
StartDownloadOldName ==
    /\ CanStart /\ customUrl # BadUrl
    /\ Len(transfers) < setup.downloads
    /\ currentFileName' = IF currentFileName = NoName THEN NameOf[customUrl] ELSE currentFileName
    /\ downloadStatus' = "downloading" /\ seenStatus' = downloadStatus'
    /\ session' = TRUE
    /\ transfers' = Append(transfers, [url |-> customUrl, outcome |-> "running"])
    /\ UNCHANGED <<setup, customUrl, showError, mainQueue, files, launches>>

\* startDownload of the view and of the manager.
StartDownload ==
    /\ CanStart /\ customUrl # BadUrl
    /\ Len(transfers) < setup.downloads
    /\ currentFileName' = NameOf[customUrl]
    /\ downloadStatus' = "downloading" /\ seenStatus' = downloadStatus'
    /\ session' = TRUE
    /\ transfers' = Append(transfers, [url |-> customUrl, outcome |-> "running"])
    /\ UNCHANGED <<setup, customUrl, showError, mainQueue, files, launches>>

\* Either stop button: nothing but the status.
Stop ==
    /\ UpToDate /\ downloadStatus = "downloading"
    /\ downloadStatus' = "download" /\ seenStatus' = downloadStatus'
    /\ UNCHANGED <<setup, customUrl, showError, currentFileName, mainQueue, session, transfers, files, launches>>

DismissAlert ==
    /\ showError /\ showError' = FALSE
    /\ UNCHANGED <<setup, customUrl, seenStatus, currentFileName, downloadStatus, mainQueue,
                   session, transfers, files, launches>>

------------------------------------------------------------------------------
(* The view and the main queue *)

\* Mutant of OnChange: an error is passed over.
OnChangeNoAlert ==
    /\ seenStatus # downloadStatus
    /\ seenStatus' = downloadStatus
    /\ customUrl' = IF downloadStatus = "downloaded" THEN NoUrl ELSE customUrl
    /\ UNCHANGED <<setup, showError, currentFileName, downloadStatus, mainQueue, session, transfers, files, launches>>

\* onChange(of: downloadStatus); changes between two updates are seen as one.
OnChange ==
    /\ seenStatus # downloadStatus
    /\ seenStatus' = downloadStatus
    /\ customUrl' = IF downloadStatus = "downloaded" THEN NoUrl ELSE customUrl
    /\ showError' = (showError \/ downloadStatus = "error")
    /\ UNCHANGED <<setup, currentFileName, downloadStatus, mainQueue, session, transfers, files, launches>>

RunBlock ==
    /\ mainQueue # << >>
    /\ downloadStatus' = Head(mainQueue)
    /\ mainQueue' = Tail(mainQueue)
    /\ UNCHANGED <<setup, view, currentFileName, session, transfers, files, launches>>

------------------------------------------------------------------------------
(* didFinishDownloadingTo, on the delegate queue *)

Ends(i, outcome, status) ==
    /\ session /\ i \in Running
    /\ transfers' = [transfers EXCEPT ![i].outcome = outcome]
    /\ mainQueue' = Append(mainQueue, status)

\* Mutant of ServerError: the block is forgotten.
ServerErrorSilent(i) ==
    /\ session /\ i \in Running
    /\ transfers' = [transfers EXCEPT ![i].outcome = "failed"]
    /\ UNCHANGED <<setup, view, currentFileName, downloadStatus, session, mainQueue, files, launches>>

\* The response is not a success.
ServerError(i) ==
    /\ Ends(i, "failed", "error")
    /\ UNCHANGED <<setup, view, currentFileName, downloadStatus, session, files, launches>>

\* Mutant of Save: a file of that name is replaced.
SaveOver(i) ==
    /\ Ends(i, "saved", "downloaded")
    /\ files' = [files EXCEPT ![currentFileName] = i]
    /\ UNCHANGED <<setup, view, currentFileName, downloadStatus, session, launches>>

\* The file is copied to the name of this moment.
Save(i) ==
    /\ Ends(i, "saved", "downloaded")
    /\ files[currentFileName] = NoFile
    /\ files' = [files EXCEPT ![currentFileName] = i]
    /\ UNCHANGED <<setup, view, currentFileName, downloadStatus, session, launches>>

\* copyItem throws: the name is taken, or the disk is full.
SaveFails(i) ==
    /\ Ends(i, "failed", "error")
    /\ UNCHANGED <<setup, view, currentFileName, downloadStatus, session, files, launches>>

\* The transfer fails: there is no didCompleteWithError to hear of it.
NetworkError(i) ==
    /\ setup.networkFails /\ session /\ i \in Running
    /\ transfers' = [transfers EXCEPT ![i].outcome = "dropped"]
    /\ UNCHANGED <<setup, view, currentFileName, downloadStatus, session, mainQueue, files, launches>>

\* The app is ended and opened again.  Transfers go on; their ends are reported when the
\* next download makes the session again.
Relaunch ==
    /\ launches < setup.launches
    /\ launches' = launches + 1
    /\ customUrl' = NoUrl /\ showError' = FALSE /\ seenStatus' = "download"
    /\ currentFileName' = NoName /\ downloadStatus' = "download"
    /\ mainQueue' = << >> /\ session' = FALSE
    /\ UNCHANGED <<setup, transfers, files>>

Reported(i) == ServerError(i) \/ Save(i) \/ SaveFails(i)

DownloadsNext ==
    \/ \E u \in Urls \cup {BadUrl} : TypeUrl(u)
    \/ StartNoUrl \/ StartDownload \/ Stop \/ DismissAlert
    \/ OnChange \/ RunBlock
    \/ \E i \in DOMAIN transfers : ServerError(i) \/ Save(i) \/ SaveFails(i) \/ NetworkError(i)
    \/ Relaunch

\* The main thread and the network go on; the user does what they like.
DownloadsFairness ==
    /\ WF_downloadVars(OnChange) /\ WF_downloadVars(RunBlock)
    /\ \A i \in 1..MaxDownloads : WF_downloadVars(Reported(i))

DownloadsSpec == DownloadsInit /\ [][DownloadsNext]_downloadVars /\ DownloadsFairness

------------------------------------------------------------------------------
(* Properties *)

\* Every variable has its type, and a session delivers only with a name set.
DownloadsTypeOK ==
    /\ customUrl \in Urls \cup {BadUrl, NoUrl} /\ showError \in BOOLEAN
    /\ currentFileName \in Names \cup {NoName} /\ session \in BOOLEAN
    /\ {downloadStatus, seenStatus} \cup Range(mainQueue)
          \subseteq {"download", "downloading", "downloaded", "error"}
    /\ transfers \in Seq([url : Urls, outcome : Outcomes]) /\ Len(transfers) <= setup.downloads
    /\ files \in [Names -> NoFile..MaxDownloads]
    /\ launches \in 1..setup.launches /\ setup \in Setups
    /\ session => currentFileName # NoName

\* Whatever the user, the network and the system do: a transfer reported as saved is the
\* content of exactly one file, and no other transfer is.
SavedOnce ==
    \A i \in DOMAIN transfers :
        LET holding == {n \in Names : files[n] = i}
        IN  IF transfers[i].outcome = "saved" THEN \E n \in Names : holding = {n}
            ELSE holding = {}

\* The user waits for a stopped download before the next, and the app is not ended.
Orderly == setup.waits /\ setup.launches = 1

\* With such a user every file has the name of the URL it came from.
FileIsItsUrl ==
    Orderly => \A n \in Names : files[n] # NoFile => NameOf[transfers[files[n]].url] = n

\* With such a user the outcome that is shown is that of the last download.
OutcomeIsOfLast ==
    Orderly =>
        /\ downloadStatus = "downloaded" => Last(transfers).outcome = "saved"
        /\ downloadStatus = "error" => Last(transfers).outcome = "failed"

\* Together: file and status are those of the right download.
RightDownload == DownloadsTypeOK /\ FileIsItsUrl /\ OutcomeIsOfLast

\* As long as transfers are answered and the app runs on, a download does not stay
\* "downloading", however hasty the user.
Settles ==
    ~setup.networkFails /\ setup.launches = 1 /\ downloadStatus = "downloading"
        ~> downloadStatus # "downloading"

\* With a user who waits: a download that failed is told.
EveryFailureShown ==
    \A i \in 1..MaxDownloads :
        Orderly /\ i = Len(transfers) /\ transfers[i].outcome = "failed" /\ downloadStatus # "error"
            ~> showError

=============================================================================
