----------------------------- MODULE ChatFiles -----------------------------
(***************************************************************************)
(* The files of the chats: chats/<name> holds a chat's configuration, and  *)
(* history, documents and session state are kept under the same name in    *)
(* other directories, which nothing cleans up when a chat is deleted.      *)
(*                                                                         *)
(* A name is a title and the second it was made in.  A sheet covers the    *)
(* list while it is open, and the view of a chat stays open when the chat  *)
(* is deleted.  What is in a configuration is left out.                    *)
(***************************************************************************)
EXTENDS Integers, SequencesExt

CONSTANTS
    Hurry,     \* may two chats be made within one second?
    MaxTime,   \* bound: seconds
    MaxTitle,  \* bound: how often a copy is copied
    MaxMade    \* bound: chats made

ASSUME ChatFilesAssumption ==
    Hurry \in BOOLEAN /\ MaxTime \in Nat /\ MaxTitle \in Nat /\ MaxMade \in Nat

Names == (0..MaxTitle) \X (0..MaxTime)
NoneOpen == <<"no chat">>
tmp_chat == <<"tmp_chat">>

VARIABLES
    now,         \* the clock, in seconds
    chats,       \* the files in chats/, newest first
    torn,        \* those a crash has cut short
    belongings,  \* name -> the chats that history, documents and state under it come from
    previews,    \* ChatListView.chats_previews
    chat_name,   \* the chat that is open
    dialog,      \* the sheet: none, for a new chat, or for the open one
    made, owner, \* how many chats were made; name -> the last one under it
    lastMade     \* when

fileVars == <<now, chats, torn, belongings, previews, chat_name, dialog, made, owner, lastMade>>

FilesInit ==
    /\ now = 0 /\ lastMade = -1
    /\ chats = << >> /\ torn = {} /\ previews = {}
    /\ belongings = [d \in Names \cup {tmp_chat} |-> {}]
    /\ chat_name = NoneOpen /\ dialog = "none"
    /\ made = 0 /\ owner = [n \in Names |-> 0]

------------------------------------------------------------------------------
(* Helpers.swift *)

\* Mutant of FileName: without the salt.
FileNameOfTitle(title) == <<title, 0>>

FileName(title) == <<title, now>>

\* Mutant of get_chats_list: it fails at the first file that cannot be read.
get_chats_or_nil(files, unreadable) ==
    IF ToSet(files) \cap unreadable = {} THEN ToSet(files) ELSE {}

\* The list ends at the first file that cannot be read.
get_chats_list(files, unreadable) ==
    {files[i] : i \in {j \in DOMAIN files : \A k \in 1..j : files[k] \notin unreadable}}

\* Mutant of Written: the old file stays.
WrittenBeside(n) == <<n>> \o chats

\* The other files, in their order: a directory has a name only once.
Without(n) ==
    IF Contains(chats, n) THEN RemoveAt(chats, CHOOSE i \in DOMAIN chats : chats[i] = n) ELSE chats

\* Data.write: the file becomes the newest.
Written(n) == <<n>> \o Without(n)

Refresh == previews' = get_chats_list(chats', torn')

\* CreateChat under the name of the moment.
Make(title) ==
    LET n == FileName(title)
    IN  /\ made < MaxMade /\ (Hurry \/ lastMade < now)
        /\ made' = made + 1 /\ lastMade' = now
        /\ owner' = [owner EXCEPT ![n] = made']
        /\ chats' = Written(n)

------------------------------------------------------------------------------
(* The list and the sheet *)

Tick ==
    /\ now < MaxTime /\ now' = now + 1
    /\ UNCHANGED <<chats, torn, belongings, previews, chat_name, dialog, made, owner, lastMade>>

Select(n) ==
    /\ dialog = "none" /\ n \in previews /\ chat_name' = n
    /\ UNCHANGED <<now, chats, torn, belongings, previews, dialog, made, owner, lastMade>>

OpenSheet ==
    /\ dialog = "none"
    /\ \/ dialog' = "add"
       \/ dialog' = "edit" /\ chat_name # NoneOpen
    /\ UNCHANGED <<now, chats, torn, belongings, previews, chat_name, made, owner, lastMade>>

Cancel ==
    /\ dialog # "none" /\ dialog' = "none"
    /\ UNCHANGED <<now, chats, torn, belongings, previews, chat_name, made, owner, lastMade>>

\* save_chat_settings with "Add".
SaveAdd ==
    /\ dialog = "add" /\ Make(0)
    /\ torn' = torn \ {FileName(0)}
    /\ dialog' = "none" /\ Refresh
    /\ UNCHANGED <<now, belongings, chat_name>>

\* save_chat_settings with "Save": a chat deleted meanwhile is there again.
SaveEdit ==
    /\ dialog = "edit"
    /\ chats' = Written(chat_name) /\ torn' = torn \ {chat_name}
    /\ dialog' = "none" /\ Refresh
    /\ UNCHANGED <<now, belongings, chat_name, made, owner, lastMade>>

\* Mutant of Duplicate: the copy takes the belongings of the chat along.
DuplicateAll(n) ==
    /\ dialog = "none" /\ n \in previews /\ n \notin torn /\ n[1] < MaxTitle
    /\ Make(n[1] + 1)
    /\ torn' = torn \ {FileName(n[1] + 1)} /\ Refresh
    /\ belongings' = [belongings EXCEPT ![FileName(n[1] + 1)] = belongings[n]]
    /\ UNCHANGED <<now, chat_name, dialog>>

\* Duplicate: the title with "_2" behind it.
Duplicate(n) ==
    /\ dialog = "none" /\ n \in previews /\ n \notin torn /\ n[1] < MaxTitle
    /\ Make(n[1] + 1)
    /\ torn' = torn \ {FileName(n[1] + 1)} /\ Refresh
    /\ UNCHANGED <<now, belongings, chat_name, dialog>>

\* Delete: the configuration only.
Delete(n) ==
    /\ dialog = "none" /\ n \in previews
    /\ chats' = Without(n) /\ torn' = torn \ {n} /\ Refresh
    /\ UNCHANGED <<now, belongings, chat_name, dialog, made, owner, lastMade>>

\* The open chat saves its history or its session.
Talk ==
    /\ dialog = "none" /\ chat_name # NoneOpen
    /\ belongings' = [belongings EXCEPT ![chat_name] = @ \cup {owner[chat_name]}]
    /\ UNCHANGED <<now, chats, torn, previews, chat_name, dialog, made, owner, lastMade>>

\* The documents tab of the sheet: GetRagDirRelPath.
ImportDocument ==
    /\ dialog # "none"
    /\ IF dialog = "edit"
       THEN belongings' = [belongings EXCEPT ![chat_name] = @ \cup {owner[chat_name]}]
       ELSE belongings' = [belongings EXCEPT ![tmp_chat] = @ \cup {made + 1}]
    /\ UNCHANGED <<now, chats, torn, previews, chat_name, dialog, made, owner, lastMade>>

\* The app dies while it writes a configuration, and is opened again.
CrashWhileSaving ==
    /\ \/ dialog = "edit" /\ chats' = Written(chat_name) /\ UNCHANGED <<made, owner, lastMade>>
       \/ dialog = "add" /\ Make(0)
    /\ torn' = torn \cup {chats'[1]}
    /\ chat_name' = NoneOpen /\ dialog' = "none" /\ Refresh
    /\ UNCHANGED <<now, belongings>>

FilesNext ==
    \/ Tick \/ OpenSheet \/ Cancel \/ SaveAdd \/ SaveEdit \/ Talk \/ ImportDocument \/ CrashWhileSaving
    \/ \E n \in Names : Select(n) \/ Duplicate(n) \/ Delete(n)

FilesSpec == FilesInit /\ [][FilesNext]_fileVars

------------------------------------------------------------------------------
(* Properties *)

\* Every variable has its type, and no file is listed twice.
FilesTypeOK ==
    /\ now \in 0..MaxTime /\ lastMade \in -1..now
    /\ chats \in Seq(Names) /\ IsInjective(chats) /\ torn \subseteq ToSet(chats)
    /\ belongings \in [Names \cup {tmp_chat} -> SUBSET (1..(MaxMade + 1))]
    /\ previews \subseteq Names /\ chat_name \in Names \cup {NoneOpen}
    /\ dialog \in {"none", "add", "edit"}
    /\ made \in 0..MaxMade /\ owner \in [Names -> 0..made]

\* What lies under a chat's name is its own, although nothing is ever cleaned up.
BelongingsAreOwn == \A n \in ToSet(chats) : belongings[n] \subseteq {owner[n]}

\* The list shows every chat, unless a newer file cannot be read.
ListedUnlessTorn ==
    \A j \in DOMAIN chats :
        chats[j] \in previews \/ \E k \in 1..j : chats[k] \in torn

\* Making a chat never takes the place of another one.
NothingReplaced ==
    [][made' # made => ~Contains(chats, chats'[1])]_fileVars

=============================================================================
