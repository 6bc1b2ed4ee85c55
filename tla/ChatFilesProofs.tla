--------------------------- MODULE ChatFilesProofs ---------------------------
(***************************************************************************)
(* Proofs about ChatFiles, for any number of chats, titles and seconds.    *)
(* That what lies under a name is the chat's own, and that no chat takes   *)
(* the place of another, needs the user of the run files, who does         *)
(* not make two chats within one second.                                   *)
(***************************************************************************)
EXTENDS ChatFiles, SequenceTheorems, TLAPS

USE ChatFilesAssumption

\* The list is what it was when the directory was last read, and nothing has changed it since.
Listed == previews = get_chats_list(chats, torn)

\* A name that is in the list, a file or open was made, and not after the last one.
NamesWereMade ==
    \A n \in Names : n \in ToSet(chats) \/ n = chat_name => owner[n] >= 1 /\ n[2] <= lastMade

\* The sheet for editing is for a chat.
EditsAChat == dialog = "edit" => chat_name # NoneOpen

\* Whatever chat a name has now, what lies under it comes from that chat alone; a name of
\* the seconds to come has had none.
NamesAreOwn ==
    /\ \A n \in Names : belongings[n] \subseteq {owner[n]}
    /\ \A n \in Names : n[2] > lastMade => belongings[n] = {}

Inv == FilesTypeOK /\ Listed /\ NamesWereMade /\ EditsAChat

------------------------------------------------------------------------------
(* The directory *)

\* A part of the list has its files, in their order.
LEMMA PartOfChats ==
  ASSUME NEW a \in Nat, NEW b \in Nat, chats \in Seq(Names), 1 <= a, b <= Len(chats), a <= b + 1
  PROVE  /\ SubSeq(chats, a, b) \in Seq(Names)
         /\ Len(SubSeq(chats, a, b)) = b + 1 - a
         /\ \A i \in 1..(b + 1 - a) : SubSeq(chats, a, b)[i] = chats[a + i - 1]
<1> DEFINE s == SubSeq(chats, a, b)
<1>1. \A i \in a..b : chats[i] \in Names
  OBVIOUS
<1>2. /\ s \in Seq(Names) /\ Len(s) = IF a <= b THEN b - a + 1 ELSE 0
      /\ \A i \in 1..(b - a + 1) : s[i] = chats[a + i - 1]
  BY <1>1, SubSeqProperties
<1> HIDE DEF s
<1>3. Len(s) = b + 1 - a /\ b + 1 - a = b - a + 1
  BY <1>2
<1>4. \A i \in 1..(b + 1 - a) : s[i] = chats[a + i - 1]
  BY <1>2, <1>3
<1> QED
  BY <1>2, <1>3, <1>4 DEF s

\* Taking a name out of the list leaves the others, each once.
LEMMA WithoutFacts ==
  ASSUME NEW n, chats \in Seq(Names), IsInjective(chats)
  PROVE  /\ Without(n) \in Seq(Names) /\ IsInjective(Without(n))
         /\ ToSet(Without(n)) = ToSet(chats) \ {n}
<1>0. Len(chats) \in Nat /\ DOMAIN chats = 1..Len(chats)
  OBVIOUS
<1>1. CASE ~Contains(chats, n)
  BY <1>0, <1>1 DEF Without, Contains, ToSet
<1>2. CASE Contains(chats, n)
  <2> DEFINE k == Len(chats)
             p == CHOOSE i \in DOMAIN chats : chats[i] = n
             before == SubSeq(chats, 1, p - 1)
             after == SubSeq(chats, p + 1, k)
  <2>1. k \in Nat /\ DOMAIN chats = 1..k /\ k <= Len(chats) /\ p \in 1..k /\ chats[p] = n
    BY <1>0, <1>2 DEF Contains
  <2>2. Without(n) = before \o after
    BY <1>2 DEF Without, RemoveAt
  <2> HIDE DEF p, k
  <2>3. /\ before \in Seq(Names) /\ Len(before) = p - 1
        /\ \A i \in 1..(p - 1) : before[i] = chats[i]
    <3>1. p - 1 \in Nat /\ p - 1 <= k /\ 1 <= (p - 1) + 1 /\ (p - 1) + 1 - 1 = p - 1
      BY <2>1
    <3>2. p - 1 <= Len(chats)
      BY <2>1, <3>1 DEF k
    <3> HIDE DEF before
    <3>3. before \in Seq(Names) /\ Len(before) = (p - 1) + 1 - 1
      BY <3>1, <3>2, PartOfChats DEF before
    <3>4. \A i \in 1..((p - 1) + 1 - 1) : before[i] = chats[1 + i - 1]
      BY <3>1, <3>2, PartOfChats DEF before
    <3>5. \A i \in 1..(p - 1) : before[i] = chats[i]
      BY <2>1, <3>4
    <3> QED
      BY <3>1, <3>3, <3>5
  <2>4. /\ after \in Seq(Names) /\ Len(after) = k - p
        /\ \A i \in 1..(k - p) : after[i] = chats[p + i]
    <3>1. p + 1 \in Nat /\ 1 <= p + 1 /\ p + 1 <= k + 1 /\ k + 1 - (p + 1) = k - p
      BY <2>1
    <3> HIDE DEF after
    <3>2. after \in Seq(Names) /\ Len(after) = k + 1 - (p + 1)
      BY <2>1, <3>1, PartOfChats DEF after
    <3>3. \A i \in 1..(k + 1 - (p + 1)) : after[i] = chats[(p + 1) + i - 1]
      BY <2>1, <3>1, PartOfChats DEF after
    <3>4. \A i \in 1..(k - p) : after[i] = chats[p + i]
      <4> SUFFICES ASSUME NEW i \in 1..(k - p) PROVE after[i] = chats[p + i]
        OBVIOUS
      <4>1. i \in 1..(k + 1 - (p + 1)) /\ (p + 1) + i - 1 = p + i
        BY <2>1, <3>1
      <4> QED
        BY <3>3, <4>1
    <3> QED
      BY <3>1, <3>2, <3>4
  <2> HIDE DEF before, after
  <2> DEFINE w == Without(n)
             At(i) == IF i < p THEN i ELSE i + 1
  <2>5. w \in Seq(Names) /\ Len(w) = k - 1 /\ DOMAIN w = 1..(k - 1)
    <3>1. before \o after \in Seq(Names) /\ Len(before \o after) = Len(before) + Len(after)
      BY <2>3, <2>4, ConcatProperties
    <3>2. w \in Seq(Names) /\ Len(w) = (p - 1) + (k - p)
      BY <2>2, <2>3, <2>4, <3>1
    <3>3. (p - 1) + (k - p) = k - 1
      BY <2>1
    <3> QED
      BY <3>2, <3>3
  <2>6. ASSUME NEW i \in 1..(k - 1) PROVE w[i] = chats[At(i)]
    <3>1. CASE i < p
      <4>1. i \in 1..Len(before) /\ Len(before) = p - 1
        BY <2>1, <2>3, <3>1
      <4>2. w[i] = before[i]
        BY <2>2, <2>3, <2>4, <4>1, ConcatProperties
      <4> QED
        BY <2>1, <2>3, <3>1, <4>1, <4>2
    <3>2. CASE ~(i < p)
      <4> DEFINE j == i - (p - 1)
      <4>1. j \in 1..(k - p) /\ p + j = i + 1 /\ i = Len(before) + j
        BY <2>1, <2>3, <3>2
      <4>2. j \in 1..Len(after)
        BY <2>4, <4>1
      <4> HIDE DEF j
      <4>3. (before \o after)[Len(before) + j] = after[j]
        BY <2>3, <2>4, <4>2
      <4> QED
        BY <2>2, <2>4, <3>2, <4>1, <4>3
    <3> QED
      BY <3>1, <3>2
  <2> HIDE DEF w
  <2>8. IsInjective(w)
    <3> SUFFICES ASSUME NEW i \in DOMAIN w, NEW j \in DOMAIN w, w[i] = w[j] PROVE i = j
      BY DEF IsInjective
    <3>1. At(i) = At(j)
      <4>1. At(i) \in DOMAIN chats /\ At(j) \in DOMAIN chats
        BY <2>1, <2>5
      <4>2. chats[At(i)] = chats[At(j)]
        BY <2>5, <2>6
      <4> HIDE DEF At
      <4> QED
        BY <4>1, <4>2 DEF IsInjective
    <3> QED
      BY <2>1, <2>5, <3>1
  <2>9. ToSet(w) = ToSet(chats) \ {n}
    <3>1. ASSUME NEW i \in DOMAIN w PROVE w[i] \in ToSet(chats) \ {n}
      <4>1. At(i) \in DOMAIN chats /\ At(i) # p
        BY <2>1, <2>5
      <4> QED
        BY <2>1, <2>5, <2>6, <4>1 DEF IsInjective, ToSet
    <3>2. ASSUME NEW i \in DOMAIN chats, chats[i] # n PROVE chats[i] \in ToSet(w)
      <4> DEFINE j == IF i < p THEN i ELSE i - 1
      <4>1. j \in DOMAIN w /\ At(j) = i
        BY <2>1, <2>5, <3>2
      <4>2. w[j] = chats[i]
        BY <2>5, <2>6, <4>1
      <4> QED
        BY <4>1, <4>2 DEF ToSet
    <3> QED
      BY <3>1, <3>2 DEF ToSet
  <2> QED
    BY <2>5, <2>8, <2>9 DEF w
<1> QED
  BY <1>1, <1>2

\* A file that is written heads the list, and is in it once.
LEMMA WrittenFacts ==
  ASSUME NEW n \in Names, chats \in Seq(Names), IsInjective(chats)
  PROVE  /\ Written(n) \in Seq(Names) /\ IsInjective(Written(n)) /\ Written(n)[1] = n
         /\ ToSet(Written(n)) = ToSet(chats) \cup {n}
<1> DEFINE w == Without(n)
           r == <<n>> \o w
<1>1. w \in Seq(Names) /\ IsInjective(w) /\ ToSet(w) = ToSet(chats) \ {n}
  BY WithoutFacts
<1> HIDE DEF w
<1>2. <<n>> \in Seq(Names) /\ Len(<<n>>) = 1 /\ <<n>>[1] = n
  OBVIOUS
<1>3. /\ r \in Seq(Names) /\ Len(r) = 1 + Len(w) /\ r[1] = n
      /\ \A i \in 1..Len(w) : r[i + 1] = w[i]
  BY <1>1, <1>2, ConcatProperties
<1>4. Written(n) = r
  BY DEF Written, w
<1> HIDE DEF r
<1>5. DOMAIN r = 1..(1 + Len(w)) /\ DOMAIN w = 1..Len(w) /\ Len(w) \in Nat
  BY <1>1, <1>3
<1>6. \A i \in DOMAIN r : i = 1 \/ (i - 1 \in DOMAIN w /\ r[i] = w[i - 1])
  <2> SUFFICES ASSUME NEW i \in DOMAIN r, i # 1 PROVE i - 1 \in DOMAIN w /\ r[i] = w[i - 1]
    OBVIOUS
  <2>1. i - 1 \in 1..Len(w) /\ (i - 1) + 1 = i
    BY <1>5
  <2> QED
    BY <1>3, <1>5, <2>1
<1>7. \A i \in DOMAIN w : w[i] # n
  BY <1>1 DEF ToSet
<1>8. IsInjective(r)
  <2> SUFFICES ASSUME NEW i \in DOMAIN r, NEW j \in DOMAIN r, r[i] = r[j] PROVE i = j
    BY DEF IsInjective
  <2>1. CASE i = 1 \/ j = 1
    BY <1>3, <1>6, <1>7, <2>1
  <2>2. CASE i # 1 /\ j # 1
    <3>1. i - 1 = j - 1
      BY <1>1, <1>6, <2>2 DEF IsInjective
    <3> QED
      BY <1>5, <3>1
  <2> QED
    BY <2>1, <2>2
<1>9. ToSet(r) = ToSet(w) \cup {n}
  <2>1. \A i \in DOMAIN w : i + 1 \in DOMAIN r /\ r[i + 1] = w[i]
    BY <1>3, <1>5
  <2>2. 1 \in DOMAIN r
    BY <1>5
  <2>3. \A i \in DOMAIN r : r[i] \in ToSet(w) \cup {n}
    BY <1>3, <1>6 DEF ToSet
  <2>4. \A i \in DOMAIN w : w[i] \in ToSet(r)
    BY <2>1 DEF ToSet
  <2>5. n \in ToSet(r)
    BY <1>3, <2>2 DEF ToSet
  <2>6. ToSet(w) \subseteq ToSet(r) /\ ToSet(r) \subseteq ToSet(w) \cup {n}
    BY <2>3, <2>4 DEF ToSet
  <2> QED
    BY <2>5, <2>6
<1> QED
  BY <1>1, <1>3, <1>4, <1>8, <1>9



\* What the list shows are files.
LEMMA ListedFiles ==
  ASSUME NEW files, NEW unreadable
  PROVE  get_chats_list(files, unreadable) \subseteq ToSet(files)
  BY DEF get_chats_list, ToSet

\* The name of a new chat is of this second.
LEMMA MakeFacts ==
  ASSUME FilesTypeOK, NEW title \in 0..MaxTitle, Make(title)
  PROVE  LET n == FileName(title) IN
         /\ n \in Names /\ n[2] = now /\ lastMade' = now /\ now \in 0..MaxTime
         /\ Hurry \/ lastMade < now
         /\ made' = made + 1 /\ made' \in 0..MaxMade
         /\ owner' \in [Names -> 0..made'] /\ owner'[n] = made'
         /\ \A m \in Names : m # n => owner'[m] = owner[m]
         /\ chats' \in Seq(Names) /\ IsInjective(chats') /\ chats'[1] = n
         /\ ToSet(chats') = ToSet(chats) \cup {n}
<1> DEFINE n == FileName(title)
<1>1. n \in Names /\ n[2] = now /\ now \in 0..MaxTime
  BY DEF FileName, Names, FilesTypeOK
<1>2. chats' = Written(n) /\ owner' = [owner EXCEPT ![n] = made']
  BY DEF Make
<1>3. lastMade' = now /\ made' = made + 1 /\ made' \in 0..MaxMade /\ (Hurry \/ lastMade < now)
  BY DEF Make, FilesTypeOK
<1> HIDE DEF n
<1>4. /\ chats' \in Seq(Names) /\ IsInjective(chats') /\ chats'[1] = n
      /\ ToSet(chats') = ToSet(chats) \cup {n}
  BY <1>1, <1>2, WrittenFacts DEF FilesTypeOK
<1>5. owner \in [Names -> 0..made]
  BY DEF FilesTypeOK
<1>6. /\ owner' \in [Names -> 0..made'] /\ owner'[n] = made'
      /\ \A m \in Names : m # n => owner'[m] = owner[m]
  <2>1. \A m \in Names : owner[m] \in 0..made'
    BY <1>3, <1>5 DEF FilesTypeOK
  <2>2. made' \in 0..made'
    BY <1>3
  <2> QED
    BY <1>1, <1>2, <1>5, <2>1, <2>2
<1> QED
  BY <1>1, <1>3, <1>4, <1>6 DEF n

\* What a step does: nothing to the configurations, but to the clock, the open chat, the sheet
\* or the belongings; or a chat is made, the open one is written again or one goes.
NothingWritten ==
    /\ UNCHANGED <<chats, torn, previews, owner, made, lastMade>>
    /\ \/ /\ now' \in now..MaxTime /\ UNCHANGED <<belongings, chat_name, dialog>>
       \/ /\ chat_name' \in previews /\ UNCHANGED <<now, belongings, dialog>>
       \/ /\ dialog' \in {"none", "add"} \/ (dialog' = "edit" /\ chat_name # NoneOpen)
          /\ UNCHANGED <<now, belongings, chat_name>>
       \/ /\ chat_name # NoneOpen
          /\ belongings' = [belongings EXCEPT ![chat_name] = @ \cup {owner[chat_name]}]
          /\ UNCHANGED <<now, chat_name, dialog>>
       \/ /\ belongings' = [belongings EXCEPT ![tmp_chat] = @ \cup {made + 1}]
          /\ UNCHANGED <<now, chat_name, dialog>>

ChatMade ==
    /\ \E title \in 0..MaxTitle : Make(title) /\ torn' \subseteq torn \cup {FileName(title)}
    /\ Refresh /\ dialog' = "none" /\ chat_name' \in {chat_name, NoneOpen}
    /\ UNCHANGED <<now, belongings>>

ChatRewritten ==
    /\ dialog = "edit" /\ chats' = Written(chat_name) /\ torn' \subseteq torn \cup {chat_name}
    /\ Refresh /\ dialog' = "none" /\ chat_name' \in {chat_name, NoneOpen}
    /\ UNCHANGED <<now, belongings, owner, made, lastMade>>

ChatDeleted ==
    /\ \E n \in Names : chats' = Without(n) /\ torn' = torn \ {n}
    /\ Refresh /\ UNCHANGED <<now, belongings, owner, made, lastMade, chat_name, dialog>>

\* What a step does to the files is one of four things.
LEMMA FileSteps ==
  ASSUME Inv, [FilesNext]_fileVars
  PROVE  NothingWritten \/ ChatMade \/ ChatRewritten \/ ChatDeleted
<1>1. chats \in Seq(Names) /\ IsInjective(chats) /\ 0 \in 0..MaxTitle /\ now \in 0..MaxTime
  BY DEF Inv, FilesTypeOK
<1>2. CASE SaveAdd
  BY <1>1, <1>2 DEF SaveAdd, ChatMade
<1>3. CASE SaveEdit
  BY <1>3 DEF SaveEdit, ChatRewritten
<1>4. ASSUME NEW n \in Names, Duplicate(n) PROVE ChatMade
  <2>1. n[1] + 1 \in 0..MaxTitle
    BY <1>4 DEF Duplicate, Names
  <2> QED
    BY <1>4, <2>1 DEF Duplicate, ChatMade
<1>5. ASSUME NEW n \in Names, Delete(n) PROVE ChatDeleted
  BY <1>5 DEF Delete, ChatDeleted
<1>6. ASSUME CrashWhileSaving PROVE ChatMade \/ ChatRewritten
  <2>1. CASE dialog = "edit" /\ chats' = Written(chat_name) /\ UNCHANGED <<made, owner, lastMade>>
    <3>1. chat_name \in Names
      BY <2>1 DEF Inv, FilesTypeOK, EditsAChat
    <3>2. chats'[1] = chat_name
      BY <1>1, <2>1, <3>1, WrittenFacts
    <3> QED
      BY <1>6, <2>1, <3>2 DEF CrashWhileSaving, ChatRewritten
  <2>2. CASE dialog = "add" /\ Make(0)
    <3>1. chats'[1] = FileName(0)
      BY <1>1, <2>2, MakeFacts DEF Inv
    <3> QED
      BY <1>1, <1>6, <2>2, <3>1 DEF CrashWhileSaving, ChatMade
  <2> QED
    BY <1>6, <2>1, <2>2 DEF CrashWhileSaving
<1>7. ASSUME Tick \/ UNCHANGED fileVars PROVE NothingWritten
  BY <1>1, <1>7 DEF Tick, fileVars, NothingWritten
<1>8. ASSUME OpenSheet \/ Cancel PROVE NothingWritten
  BY <1>8 DEF OpenSheet, Cancel, NothingWritten
<1>9. ASSUME Talk PROVE NothingWritten
  BY <1>9 DEF Talk, NothingWritten
<1>10. ASSUME ImportDocument PROVE NothingWritten
  BY <1>10 DEF ImportDocument, NothingWritten, Inv, FilesTypeOK, EditsAChat
<1>11. ASSUME NEW n \in Names, Select(n) PROVE NothingWritten
  BY <1>11 DEF Select, NothingWritten
<1> QED
  BY <1>2, <1>3, <1>4, <1>5, <1>6, <1>7, <1>8, <1>9, <1>10, <1>11 DEF FilesNext

------------------------------------------------------------------------------
(* The inductive invariant *)

\* The name of a chat is not one of the marks for none and for a new one.
LEMMA NameFacts ==
  ASSUME FilesTypeOK
  PROVE  /\ tmp_chat \notin Names /\ NoneOpen \notin Names
         /\ chat_name # NoneOpen => chat_name \in Names
         /\ \A n \in Names : n[2] \in 0..MaxTime
<1>1. \A n \in Names : Len(n) = 2 /\ n[2] \in 0..MaxTime
  BY DEF Names
<1>2. Len(tmp_chat) = 1 /\ Len(NoneOpen) = 1
  BY DEF tmp_chat, NoneOpen
<1>3. tmp_chat \notin Names /\ NoneOpen \notin Names
  BY <1>1, <1>2
<1> QED
  BY <1>1, <1>3 DEF FilesTypeOK

\* Every step keeps the types, and no file is listed twice.
LEMMA TypeStep ==
  ASSUME Inv, [FilesNext]_fileVars
  PROVE  FilesTypeOK'
<1>1. /\ chats \in Seq(Names) /\ IsInjective(chats) /\ torn \subseteq ToSet(chats)
      /\ now \in 0..MaxTime /\ lastMade \in -1..now /\ made \in 0..MaxMade
      /\ chat_name \in Names \cup {NoneOpen} /\ previews \subseteq Names
      /\ owner \in [Names -> 0..made] /\ dialog \in {"none", "add", "edit"}
      /\ belongings \in [Names \cup {tmp_chat} -> SUBSET (1..(MaxMade + 1))]
  BY DEF Inv, FilesTypeOK
<1>2. Refresh /\ chats' \in Seq(Names) => previews' \subseteq Names
  <2> SUFFICES ASSUME Refresh, chats' \in Seq(Names) PROVE previews' \subseteq Names
    OBVIOUS
  <2>1. previews' \subseteq ToSet(chats')
    BY ListedFiles DEF Refresh
  <2>2. ToSet(chats') \subseteq Names
    BY DEF ToSet
  <2> QED
    BY <2>1, <2>2
<1>3. CASE NothingWritten
  <2>1. now' \in 0..MaxTime /\ lastMade' \in -1..now'
    BY <1>1, <1>3 DEF NothingWritten
  <2>2. chat_name' \in Names \cup {NoneOpen} /\ dialog' \in {"none", "add", "edit"}
    BY <1>1, <1>3 DEF NothingWritten
  <2>3. belongings' \in [Names \cup {tmp_chat} -> SUBSET (1..(MaxMade + 1))]
    <3>1. CASE chat_name # NoneOpen /\ belongings' = [belongings EXCEPT ![chat_name] = @ \cup {owner[chat_name]}]
      <4>1. chat_name \in Names
        BY <3>1, <1>1
      <4>2. owner[chat_name] \in 1..(MaxMade + 1)
        BY <1>1, <4>1 DEF Inv, NamesWereMade
      <4>3. belongings[chat_name] \cup {owner[chat_name]} \in SUBSET (1..(MaxMade + 1))
        BY <1>1, <4>1, <4>2
      <4> QED
        BY <1>1, <3>1, <4>3
    <3>2. CASE belongings' = [belongings EXCEPT ![tmp_chat] = @ \cup {made + 1}]
      <4>1. belongings[tmp_chat] \cup {made + 1} \in SUBSET (1..(MaxMade + 1))
        BY <1>1
      <4> QED
        BY <1>1, <3>2, <4>1
    <3>3. CASE belongings' = belongings
      BY <1>1, <3>3
    <3> QED
      BY <1>3, <3>1, <3>2, <3>3 DEF NothingWritten
  <2> QED
    BY <1>1, <1>3, <2>1, <2>2, <2>3 DEF NothingWritten, FilesTypeOK
<1>4. CASE ChatMade
  <2>1. PICK title \in 0..MaxTitle : Make(title) /\ torn' \subseteq torn \cup {FileName(title)}
    BY <1>4 DEF ChatMade
  <2>2. /\ chats' \in Seq(Names) /\ IsInjective(chats') /\ torn' \subseteq ToSet(chats')
        /\ lastMade' = now /\ made' \in 0..MaxMade /\ owner' \in [Names -> 0..made']
    BY <1>1, <2>1, MakeFacts DEF Inv
  <2>3. now' = now /\ belongings' = belongings /\ dialog' = "none" /\ chat_name' \in Names \cup {NoneOpen}
    BY <1>1, <1>4 DEF ChatMade
  <2> QED
    BY <1>1, <1>2, <1>4, <2>2, <2>3 DEF ChatMade, FilesTypeOK
<1>5. CASE ChatRewritten
  <2>1. chat_name \in Names
    BY <1>1, <1>5 DEF ChatRewritten, Inv, EditsAChat
  <2>2. chats' \in Seq(Names) /\ IsInjective(chats') /\ torn' \subseteq ToSet(chats')
    BY <1>1, <1>5, <2>1, WrittenFacts DEF ChatRewritten
  <2> QED
    BY <1>1, <1>2, <1>5, <2>2 DEF ChatRewritten, FilesTypeOK
<1>6. CASE ChatDeleted
  <2>1. PICK n \in Names : chats' = Without(n) /\ torn' = torn \ {n}
    BY <1>6 DEF ChatDeleted
  <2>2. chats' \in Seq(Names) /\ IsInjective(chats') /\ torn' \subseteq ToSet(chats')
    BY <1>1, <2>1, WithoutFacts
  <2> QED
    BY <1>1, <1>2, <1>6, <2>2 DEF ChatDeleted, FilesTypeOK
<1> QED
  BY <1>3, <1>4, <1>5, <1>6, FileSteps

\* Every step leaves the chats on screen those the list of files gives.
LEMMA ListedStep ==
  ASSUME Inv, [FilesNext]_fileVars
  PROVE  Listed'
<1>1. CASE NothingWritten
  BY <1>1 DEF NothingWritten, Inv, Listed, get_chats_list
<1>2. CASE Refresh
  BY <1>2 DEF Refresh, Listed, get_chats_list
<1> QED
  BY <1>1, <1>2, FileSteps DEF ChatMade, ChatRewritten, ChatDeleted

\* Every name in the list, or open for editing, was made in a second that has passed.
LEMMA MadeStep ==
  ASSUME Inv, [FilesNext]_fileVars
  PROVE  NamesWereMade' /\ EditsAChat'
<1>1. /\ lastMade \in -1..now /\ now \in 0..MaxTime /\ made \in 0..MaxMade
      /\ owner \in [Names -> 0..made] /\ chats \in Seq(Names) /\ IsInjective(chats)
      /\ chat_name \in Names \cup {NoneOpen} /\ NamesWereMade /\ EditsAChat
  BY DEF Inv, FilesTypeOK
<1>2. EditsAChat'
  BY <1>1, FileSteps, NameFacts, ListedFiles DEF EditsAChat, NothingWritten, ChatMade, ChatRewritten, ChatDeleted,
     Inv, FilesTypeOK
<1>3. CASE NothingWritten
  <2>1. previews \subseteq ToSet(chats)
    BY ListedFiles DEF Inv, Listed
  <2>2. chat_name' = chat_name \/ chat_name' \in ToSet(chats)
    BY <1>3, <2>1 DEF NothingWritten
  <2>3. ToSet(chats)' = ToSet(chats) /\ owner' = owner /\ lastMade' = lastMade
    BY <1>3 DEF NothingWritten, ToSet
  <2> QED
    BY <1>1, <1>2, <2>2, <2>3 DEF NamesWereMade
<1>4. CASE ChatMade
  <2>1. PICK title \in 0..MaxTitle : Make(title)
    BY <1>4 DEF ChatMade
  <2> DEFINE n == FileName(title)
  <2>2. /\ n \in Names /\ n[2] = now /\ lastMade' = now /\ made' = made + 1 /\ owner'[n] = made'
        /\ \A m \in Names : m # n => owner'[m] = owner[m]
        /\ ToSet(chats') = ToSet(chats) \cup {n}
    BY <2>1, MakeFacts DEF Inv
  <2>3. ToSet(chats)' = ToSet(chats')
    BY DEF ToSet
  <2>4. chat_name' \in {chat_name, NoneOpen}
    BY <1>4 DEF ChatMade
  <2> HIDE DEF n
  <2>5. ASSUME NEW m \in Names, m \in ToSet(chats') \/ m = chat_name'
        PROVE  owner'[m] >= 1 /\ m[2] <= lastMade'
    <3>1. CASE m = n
      BY <1>1, <2>2, <3>1
    <3>2. CASE m # n
      <4>1. m \in ToSet(chats) \/ m = chat_name
        BY <2>2, <2>4, <2>5, <3>2, NameFacts DEF Inv
      <4>2. owner[m] >= 1 /\ m[2] <= lastMade /\ m[2] \in 0..MaxTime
        BY <1>1, <4>1, NameFacts DEF NamesWereMade, Inv
      <4> QED
        BY <1>1, <2>2, <3>2, <4>2
    <3> QED
      BY <3>1, <3>2
  <2> QED
    BY <1>2, <2>3, <2>5 DEF NamesWereMade
<1>5. CASE ChatRewritten
  <2>1. chat_name \in Names
    BY <1>1, <1>5 DEF ChatRewritten, EditsAChat
  <2>2. ToSet(chats') = ToSet(chats) \cup {chat_name}
    BY <1>1, <1>5, <2>1, WrittenFacts DEF ChatRewritten
  <2>3. ToSet(chats)' = ToSet(chats')
    BY DEF ToSet
  <2> QED
    BY <1>1, <1>2, <1>5, <2>1, <2>2, <2>3, NameFacts DEF ChatRewritten, NamesWereMade, Inv
<1>6. CASE ChatDeleted
  <2>1. PICK n \in Names : chats' = Without(n)
    BY <1>6 DEF ChatDeleted
  <2>2. ToSet(chats') = ToSet(chats) \ {n}
    BY <1>1, <2>1, WithoutFacts
  <2>3. ToSet(chats)' = ToSet(chats')
    BY DEF ToSet
  <2> QED
    BY <1>1, <1>2, <1>6, <2>2, <2>3 DEF ChatDeleted, NamesWereMade
<1> QED
  BY <1>2, <1>3, <1>4, <1>5, <1>6, FileSteps

\* At the start there are no files.
LEMMA InitInv == FilesInit => Inv /\ NamesAreOwn
<1> SUFFICES ASSUME FilesInit PROVE Inv /\ NamesAreOwn
  OBVIOUS
<1>1. chats = << >> /\ ToSet(chats) = {} /\ DOMAIN chats = {} /\ chats \in Seq(Names)
  BY DEF FilesInit, ToSet
<1>2. FilesTypeOK
  BY <1>1 DEF FilesInit, FilesTypeOK, IsInjective
<1>3. Listed
  BY <1>1 DEF FilesInit, Listed, get_chats_list
<1>4. NamesWereMade /\ EditsAChat
  BY <1>1, <1>2, NameFacts DEF FilesInit, NamesWereMade, EditsAChat
<1>5. NamesAreOwn
  BY DEF FilesInit, NamesAreOwn
<1> QED
  BY <1>2, <1>3, <1>4, <1>5 DEF Inv

\* The inductive invariant, for any user.
LEMMA Invariance == FilesSpec => []Inv
<1>1. FilesInit => Inv
  BY InitInv
<1>2. Inv /\ [FilesNext]_fileVars => Inv'
  BY TypeStep, ListedStep, MadeStep DEF Inv
<1> QED
  BY <1>1, <1>2, PTL DEF FilesSpec

------------------------------------------------------------------------------
(* Theorems *)

\* Type correctness; a file is never listed twice.
THEOREM TypeCorrect == FilesSpec => []FilesTypeOK
  BY Invariance, PTL DEF Inv

\* After every operation and every crash the list shows each chat that has no unreadable file
\* in front of it (get_chats_list, refresh_chat_list).
THEOREM ListedUnlessTornCorrect == FilesSpec => []ListedUnlessTorn
<1>1. Inv => ListedUnlessTorn
  BY DEF Inv, Listed, ListedUnlessTorn, get_chats_list
<1> QED
  BY <1>1, Invariance, PTL

\* In different seconds no two chats are made with one name.
LEMMA OwnStep ==
  ASSUME ~Hurry, Inv, NamesAreOwn, [FilesNext]_fileVars
  PROVE  NamesAreOwn'
<1>1. /\ lastMade \in -1..now /\ now \in 0..MaxTime /\ owner \in [Names -> 0..made]
      /\ belongings \in [Names \cup {tmp_chat} -> SUBSET (1..(MaxMade + 1))]
  BY DEF Inv, FilesTypeOK
<1>2. CASE NothingWritten
  <2>1. owner' = owner /\ lastMade' = lastMade
    BY <1>2 DEF NothingWritten
  <2>2. CASE chat_name # NoneOpen /\ belongings' = [belongings EXCEPT ![chat_name] = @ \cup {owner[chat_name]}]
    <3>1. chat_name \in Names /\ chat_name[2] <= lastMade /\ chat_name[2] \in 0..MaxTime
      BY <2>2, NameFacts DEF Inv, NamesWereMade
    <3>2. /\ belongings'[chat_name] = belongings[chat_name] \cup {owner[chat_name]}
          /\ \A n \in Names : n # chat_name => belongings'[n] = belongings[n]
      BY <1>1, <2>2, <3>1
    <3>3. ~(chat_name[2] > lastMade)
      BY <1>1, <3>1
    <3> QED
      BY <2>1, <3>2, <3>3 DEF NamesAreOwn
  <2>3. CASE belongings' = [belongings EXCEPT ![tmp_chat] = @ \cup {made + 1}]
    <3>1. \A n \in Names : belongings'[n] = belongings[n]
      BY <1>1, <2>3, NameFacts DEF Inv
    <3> QED
      BY <2>1, <3>1 DEF NamesAreOwn
  <2>4. CASE belongings' = belongings
    BY <2>1, <2>4 DEF NamesAreOwn
  <2> QED
    BY <1>2, <2>2, <2>3, <2>4 DEF NothingWritten
<1>3. CASE ChatMade
  <2>1. PICK title \in 0..MaxTitle : Make(title)
    BY <1>3 DEF ChatMade
  <2> DEFINE n == FileName(title)
  <2>2. /\ n \in Names /\ n[2] = now /\ lastMade' = now /\ lastMade < now
        /\ \A m \in Names : m # n => owner'[m] = owner[m]
    BY <2>1, MakeFacts DEF Inv
  <2> HIDE DEF n
  <2>3. belongings' = belongings
    BY <1>3 DEF ChatMade
  <2>4. belongings[n] = {}
    BY <2>2 DEF NamesAreOwn
  <2>5. \A m \in Names : m[2] > now => m[2] > lastMade
    BY <1>1, <2>2, NameFacts DEF Inv
  <2> QED
    BY <2>2, <2>3, <2>4, <2>5 DEF NamesAreOwn
<1>4. CASE ChatRewritten \/ ChatDeleted
  BY <1>4 DEF ChatRewritten, ChatDeleted, NamesAreOwn
<1> QED
  BY <1>2, <1>3, <1>4, FileSteps

\* History, documents and state under a chat's name are its own, although deleting a chat
\* leaves them behind (deleteChats): the name of a later chat is of a later second.
THEOREM BelongingsAreOwnCorrect ==
  ASSUME ~Hurry
  PROVE  FilesSpec => []BelongingsAreOwn
<1>1. FilesInit => NamesAreOwn
  BY InitInv
<1>2. Inv /\ NamesAreOwn /\ [FilesNext]_fileVars => NamesAreOwn'
  BY OwnStep
<1>3. Inv /\ NamesAreOwn => BelongingsAreOwn
  <2>1. FilesTypeOK => ToSet(chats) \subseteq Names
    BY DEF FilesTypeOK, ToSet
  <2> QED
    BY <2>1 DEF Inv, NamesAreOwn, BelongingsAreOwn
<1> QED
  BY <1>1, <1>2, <1>3, Invariance, PTL DEF FilesSpec

\* Creating or duplicating a chat never overwrites the file of another (CreateChat's salt).
THEOREM NothingReplacedCorrect ==
  ASSUME ~Hurry
  PROVE  FilesSpec => NothingReplaced
<1>1. Inv /\ [FilesNext]_fileVars => [made' # made => ~Contains(chats, chats'[1])]_fileVars
  <2> SUFFICES ASSUME Inv, [FilesNext]_fileVars, made' # made PROVE ~Contains(chats, chats'[1])
    OBVIOUS
  <2>1. PICK title \in 0..MaxTitle : Make(title)
    BY FileSteps DEF NothingWritten, ChatMade, ChatRewritten, ChatDeleted
  <2> DEFINE n == FileName(title)
  <2>2. n \in Names /\ n[2] = now /\ lastMade < now /\ chats'[1] = n
    BY <2>1, MakeFacts DEF Inv
  <2> HIDE DEF n
  <2>3. lastMade \in Int /\ now \in Int
    BY DEF Inv, FilesTypeOK
  <2>4. n \notin ToSet(chats)
    BY <2>2, <2>3 DEF Inv, NamesWereMade
  <2> QED
    BY <2>2, <2>4 DEF Contains, ToSet, Inv, FilesTypeOK
<1> QED
  BY <1>1, Invariance, PTL DEF FilesSpec, NothingReplaced

==============================================================================
