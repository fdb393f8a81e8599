--------------------------- MODULE ScreensProofs ----------------------------
(***************************************************************************)
(* Proofs about the parts of the pages that keep to themselves, one after  *)
(* the other: the input line with its typing indicator and its recorder,   *)
(* the list of messages, the dialogs of rooms and groups, the search in    *)
(* the list of rooms, and the administrator's pages.  The support widget   *)
(* has a module of its own.                                                *)
(***************************************************************************)
EXTENDS Screens, WidgetProofs, FiniteSetTheorems, SequenceTheorems, TLAPS

----------------------------------------------------------------------------
(* The typing indicator.                                                   *)

TypingTypes ==
    /\ shown \in TypingRoom \cup {Nowhere} /\ timer \in TypingRoom \cup {Nowhere}
    /\ orphans \subseteq TypingRoom
    /\ socket \in Socket \cup {NoSocket}
    /\ invoked \in [Socket -> Seq(TypingCall)]
    /\ remembered \in [Socket -> TypingRoom \cup {Nowhere}]
    /\ typing \subseteq TypingRoom

TypingInv == TypingTypes /\ IndicatorIsHeld

LEMMA TypingInitial == TypingInit => TypingInv
BY DEF TypingInit, TypingInv, TypingTypes, IndicatorIsHeld

(* A call that goes out is one of the hub's two.                           *)
LEMMA InvokeTypes ==
    ASSUME TypingTypes, NEW r \in TypingRoom, NEW ask \in {"StartTyping", "StopTyping"}, Invoke(ask, r)
    PROVE  invoked' \in [Socket -> Seq(TypingCall)]
<1>1. [ask |-> ask, room |-> r] \in TypingCall
      BY DEF TypingCall
<1> QED BY <1>1 DEF Invoke, TypingTypes

(* What the page does touches neither the hub's memory nor what others     *)
(* see.                                                                    *)
LEMMA TypistKeeps ==
    ASSUME TypingTypes,
           \/ HandleTyping \/ TimerFires \/ HideRoom \/ SocketLost
           \/ \E r \in TypingRoom : ShowRoom(r) \/ OrphanFires(r)
           \/ \E c \in Socket : SocketBack(c)
    PROVE  TypingTypes' /\ UNCHANGED hubsTyping
<1> USE TypingAssumption
<1>1. CASE HandleTyping
  <2>1. shown \in TypingRoom
        BY <1>1 DEF HandleTyping
  <2>2. invoked' \in [Socket -> Seq(TypingCall)]
        BY <1>1, <2>1, InvokeTypes DEF HandleTyping, TypingTypes
  <2> QED BY <1>1, <2>1, <2>2 DEF HandleTyping, TypingTypes, hubsTyping
<1>2. CASE TimerFires
  <2>1. timer \in TypingRoom
        BY <1>2 DEF TimerFires, TypingTypes
  <2>2. invoked' \in [Socket -> Seq(TypingCall)]
        BY <1>2, <2>1, InvokeTypes DEF TimerFires
  <2> QED BY <1>2, <2>2 DEF TimerFires, TypingTypes, hubsTyping
<1>3. CASE HideRoom
      BY <1>3 DEF HideRoom, TypingTypes, hubsTyping
<1>4. CASE SocketLost
      BY <1>4 DEF SocketLost, TypingTypes, hubsTyping
<1>5. ASSUME NEW r \in TypingRoom, ShowRoom(r)
      PROVE  TypingTypes' /\ UNCHANGED hubsTyping
      BY <1>5 DEF ShowRoom, TypingTypes, hubsTyping
<1>6. ASSUME NEW r \in TypingRoom, OrphanFires(r)
      PROVE  TypingTypes' /\ UNCHANGED hubsTyping
  <2>1. invoked' \in [Socket -> Seq(TypingCall)]
        BY <1>6, InvokeTypes DEF OrphanFires
  <2> QED BY <1>6, <2>1 DEF OrphanFires, TypingTypes, hubsTyping
<1>7. ASSUME NEW c \in Socket, SocketBack(c)
      PROVE  TypingTypes' /\ UNCHANGED hubsTyping
      BY <1>7 DEF SocketBack, TypingTypes, hubsTyping
<1> QED BY <1>1, <1>2, <1>3, <1>4, <1>5, <1>6, <1>7

(* The hub changes what it remembers of a connection together with what    *)
(* the others see: a start replaces its room in both, a stop or the end    *)
(* takes it out of both.                                                   *)
LEMMA HubKeeps ==
    ASSUME TypingInv, NEW c \in Socket, ServeNext(c)
    PROVE  TypingInv'
<1> USE TypingAssumption DEF TypingInv, TypingTypes
<1>1. /\ invoked[c] \in Seq(TypingCall) /\ invoked[c] # <<>>
      /\ UNCHANGED <<shown, timer, orphans, socket>>
      BY DEF ServeNext
<1>2. /\ Head(invoked[c]) \in TypingCall /\ Tail(invoked[c]) \in Seq(TypingCall)
      BY ONLY <1>1, HeadTailProperties
<1>3. invoked' \in [Socket -> Seq(TypingCall)]
  <2>1. invoked' = [invoked EXCEPT ![c] = Tail(invoked[c])]
        BY DEF ServeNext
  <2> QED BY <2>1, <1>2
<1>4. PICK call \in TypingCall : call = Head(invoked[c])
      BY <1>2
<1>5. call.room \in TypingRoom
      BY DEF TypingCall
<1>6. StartTyping(c, call.room) \/ StopTyping(c, call.room)
      BY <1>4 DEF ServeNext
<1>7. CASE StartTyping(c, call.room)
  <2>1. /\ remembered' \in [Socket -> TypingRoom \cup {Nowhere}]
        /\ remembered'[c] = call.room
        /\ \A d \in Socket \ {c} : remembered'[d] = remembered[d]
        BY <1>5, <1>7 DEF StartTyping
  <2>2. typing' \subseteq (typing \ ({remembered[c]} \ {call.room})) \cup {call.room}
        BY <1>7 DEF StartTyping, EndedIn
  <2> QED BY <1>1, <1>3, <1>5, <2>1, <2>2 DEF IndicatorIsHeld
<1>8. CASE StopTyping(c, call.room)
  <2>1. CASE remembered[c] = call.room
    <3>1. /\ remembered' \in [Socket -> TypingRoom \cup {Nowhere}]
          /\ \A d \in Socket \ {c} : remembered'[d] = remembered[d]
          /\ typing' = typing \ {call.room}
          BY <1>8, <2>1 DEF StopTyping
    <3> QED BY <1>1, <1>3, <2>1, <3>1 DEF IndicatorIsHeld
  <2>2. CASE remembered[c] # call.room
        BY <1>1, <1>3, <1>8, <2>2 DEF StopTyping, hubsTyping, IndicatorIsHeld
  <2> QED BY <2>1, <2>2
<1> QED BY <1>6, <1>7, <1>8

LEMMA EndKeeps ==
    ASSUME TypingInv, NEW c \in Socket, SocketEnds(c)
    PROVE  TypingInv'
<1> USE TypingAssumption DEF TypingInv, TypingTypes
<1>1. invoked' \in [Socket -> Seq(TypingCall)]
      BY DEF SocketEnds
<1> QED BY <1>1 DEF SocketEnds, IndicatorIsHeld

LEMMA TypingStep == TypingInv /\ [TypingNext]_typingVars => TypingInv'
<1> SUFFICES ASSUME TypingInv, [TypingNext]_typingVars PROVE TypingInv'
    OBVIOUS
<1>1. ASSUME TypingTypes', UNCHANGED hubsTyping PROVE TypingInv'
      BY <1>1 DEF TypingInv, IndicatorIsHeld, hubsTyping
<1>2. ASSUME NEW c \in Socket, ServeNext(c) \/ SocketEnds(c) PROVE TypingInv'
      BY <1>2, HubKeeps, EndKeeps
<1>3. CASE UNCHANGED typingVars
      BY <1>1, <1>3 DEF typingVars, TypingInv, TypingTypes, hubsTyping
<1>4. TypingTypes
      BY DEF TypingInv
<1>5. ASSUME \/ HandleTyping \/ TimerFires \/ HideRoom \/ SocketLost
             \/ \E r \in TypingRoom : ShowRoom(r) \/ OrphanFires(r)
             \/ \E c \in Socket : SocketBack(c)
      PROVE  TypingInv'
      BY <1>1, <1>4, <1>5, TypistKeeps
<1> QED BY <1>2, <1>3, <1>5 DEF TypingNext

(* Wherever others see the user type, the hub remembers it for a           *)
(* connection that has not ended, for any rooms, connections and losses:   *)
(* handleTyping of MessageInput.jsx and the typing calls of ChatHub.cs.    *)
THEOREM TypingCorrect == TypingSpec => []IndicatorIsHeld
<1>1. TypingInv => IndicatorIsHeld
      BY DEF TypingInv
<1> QED BY <1>1, TypingInitial, TypingStep, PTL DEF TypingSpec

----------------------------------------------------------------------------
(* The recorder.                                                           *)

VoiceInv ==
    /\ isRecording \in BOOLEAN /\ recorder \in BOOLEAN
    /\ isRecording => recorder /\ supported
    /\ MicShown

LEMMA VoiceInitial == VoiceInit => VoiceInv
BY DEF VoiceInit, VoiceInv, MicShown

(* Every stop of what is recorded, by the button, by the cross, by an      *)
(* upload that ends or by the component that goes, either ends the tracks  *)
(* or has onstop to come, which ends them; a stream that is opened beside  *)
(* another makes that one a stray.                                         *)
LEMMA VoiceStep == VoiceInv /\ [VoiceNext]_voiceVars => VoiceInv'
<1> SUFFICES ASSUME VoiceInv, [VoiceNext]_voiceVars PROVE VoiceInv'
    OBVIOUS
<1> USE DEF VoiceInv, MicShown
<1>1. CASE StartRecording
      BY <1>1 DEF StartRecording
<1>2. CASE StopRecording
      BY <1>2 DEF StopRecording, StopClock
<1>3. CASE PauseResume
      BY <1>3 DEF PauseResume
<1>4. CASE CancelRecording
      BY <1>4 DEF CancelRecording, Reset, EndTracks
<1>5. CASE SendVoiceMessage \/ UploadFailed
      BY <1>5 DEF SendVoiceMessage, UploadFailed
<1>6. CASE UploadedVoice
      BY <1>6 DEF UploadedVoice, Reset, EndTracks
<1>7. CASE Unmount
      BY <1>7 DEF Unmount, EndTracks
<1>8. ASSUME NEW t \in asked, Refused(t) \/ Granted(t) \/ Unsupported(t) PROVE VoiceInv'
  <2>1. CASE Refused(t)
        BY <2>1 DEF Refused
  <2>2. CASE Granted(t) /\ recorder
        BY <2>2 DEF Granted
  <2>3. CASE Granted(t) /\ ~recorder
        BY <2>3 DEF Granted
  <2>4. CASE Unsupported(t)
        BY <2>4 DEF Unsupported
  <2> QED BY <1>8, <2>1, <2>2, <2>3, <2>4
<1>9. ASSUME NEW t \in stopping, Stopped(t) PROVE VoiceInv'
      BY <1>9 DEF Stopped, TracksEnded
<1>10. CASE UNCHANGED voiceVars
      BY <1>10 DEF voiceVars
<1> QED BY <1>1, <1>2, <1>3, <1>4, <1>5, <1>6, <1>7, <1>8, <1>9, <1>10 DEF VoiceNext

(* No stream is open behind the user's back, for any number of takes:      *)
(* startRecording and onstop of VoiceRecorderComponent.jsx.                *)
THEOREM MicCorrect == VoiceSpec => []MicShown
<1>1. VoiceInv => MicShown
      BY DEF VoiceInv
<1> QED BY <1>1, VoiceInitial, VoiceStep, PTL DEF VoiceSpec

----------------------------------------------------------------------------
(* Texts and files: MessageInput.jsx.                                      *)

File == 1..MaxFiles

Texts(n) == 0..n \cup {Old}

SendType == [op : {"message", "edit", "voice"}, draft : Texts(MaxDrafts), file : 0..MaxFiles,
            replied : BOOLEAN, saved : BOOLEAN, here : BOOLEAN]

(* Texts and files are counted as they come; nothing knows of later ones.  *)
LineTypes ==
    /\ written \in 0..MaxDrafts /\ picked \in 0..MaxFiles /\ voices \in Nat
    /\ draft \in Texts(written)
    /\ pending \in 0..picked /\ uploading \in 0..picked
    /\ replying \in BOOLEAN

SendTypes ==
    /\ sends \subseteq SendType
    /\ \A s \in sends : s.draft \in Texts(written) /\ s.file \in 0..picked

ServerTypes ==
    /\ posted \in [Draft -> Nat] /\ \A d \in Draft : d > written => posted[d] = 0
    /\ filed \in [File -> Nat] /\ \A f \in File : f > picked => filed[f] = 0
    /\ overlap \in BOOLEAN

----------------------------------------------------------------------------

(* A text or an edit whose answer the line waits for.                      *)
Waits(s) == s.here /\ s.op # "voice"

(* The flag does its work: there is one at a time, while the flag is up.   *)
FlagWorks ==
    /\ \A s \in sends : Waits(s) => isSending = TRUE
    /\ \A s, t \in sends : Waits(s) /\ Waits(t) => s = t

LostText(d) == \E l \in lost : l[1] = d
LostFile(f) == \E l \in lost : l[2] = f

SendsText(s, d) == s.op = "message" /\ s.draft = d
SendsFile(s, f) == s.op = "message" /\ s.file = f

UnsentText(d) == posted[d] = 0 /\ \A s \in sends : ~SendsText(s, d)
UnsentFile(f) == filed[f] = 0 /\ \A s \in sends : ~SendsFile(s, f)

(* A text is in one place: in the line, in an edit that would put it back, *)
(* in one request, or on the server.                                       *)
TextOK(d) ==
    /\ posted[d] <= 1
    /\ \A s, t \in sends : SendsText(s, d) /\ SendsText(t, d) => s = t
    /\ \A s \in sends : SendsText(s, d) /\ ~s.saved => posted[d] = 0
    /\ draft = d => UnsentText(d)
    /\ \A s \in sends : s.op = "edit" /\ s.here /\ s.draft = d => UnsentText(d)

(* A file stays attached until the answer of the message that takes it.    *)
FileOK(f) ==
    /\ filed[f] <= 1
    /\ \A s, t \in sends : SendsFile(s, f) /\ SendsFile(t, f) => s = t
    /\ \A s \in sends : SendsFile(s, f) /\ ~s.saved => filed[f] = 0
    /\ pending = f => UnsentFile(f) \/ \E s \in sends : SendsFile(s, f) /\ s.here
    /\ uploading = f => UnsentFile(f) /\ pending # f

TextsOK == \A d \in Draft : LostText(d) \/ TextOK(d)
FilesOK == \A f \in File : LostFile(f) \/ FileOK(f)

ComposerInv ==
    /\ LineTypes /\ SendTypes /\ ServerTypes
    /\ ~overlap => FlagWorks /\ TextsOK /\ FilesOK

----------------------------------------------------------------------------
(* Types.                                                                  *)

LEMMA NumberFacts ==
    /\ MaxDrafts \in Nat /\ MaxFiles \in Nat
    /\ Old = MaxDrafts + 1 /\ Empty = 0 /\ Draft = 1..MaxDrafts
BY ComposerAssumption DEF Old, Empty, Draft

(* What the line would send.                                               *)
LEMMA SendingType ==
    ASSUME LineTypes, NEW op \in {"message", "edit"}
    PROVE  /\ Sending(op) \in SendType
           /\ Sending(op).op = op /\ Sending(op).draft = draft /\ Sending(op).file = pending
           /\ Sending(op).saved = FALSE /\ Sending(op).here = TRUE
BY NumberFacts DEF LineTypes, Sending, SendType, Texts

(* A step that sends nothing and hears no answer.                          *)
QuietSends == UNCHANGED <<sends, posted, filed, lost, overlap>>

LEMMA TypesStep ==
    ASSUME LineTypes, SendTypes, ServerTypes, ComposerNext
    PROVE  LineTypes' /\ SendTypes' /\ ServerTypes'
<1> USE NumberFacts
<1>1. ASSUME QuietSends, LineTypes', written' >= written, picked' >= picked
      PROVE  LineTypes' /\ SendTypes' /\ ServerTypes'
  <2>1. SendTypes'
        BY <1>1 DEF QuietSends, SendTypes, LineTypes, Texts
  <2>2. ServerTypes'
        BY <1>1 DEF QuietSends, ServerTypes, LineTypes, Draft, File
  <2> QED BY <1>1, <2>1, <2>2
<1>2. CASE \/ Show \/ EraseDraft \/ SetEditing \/ SetReplying \/ SetForwarding \/ ForwardingOver
           \/ CancelAction \/ Uploaded \/ UploadFails \/ RemoveFile
  <2>1. QuietSends /\ UNCHANGED bounds
        BY <1>2 DEF Show, EraseDraft, SetEditing, SetReplying, SetForwarding, ForwardingOver,
                    CancelAction, Uploaded, UploadFails, RemoveFile, QuietSends, onServer
  <2>2. draft' \in {draft, Old, Empty} /\ pending' \in {pending, uploading, Empty}
        /\ uploading' \in {uploading, Empty}
        BY <1>2 DEF Show, EraseDraft, SetEditing, SetReplying, SetForwarding, ForwardingOver,
                    CancelAction, Uploaded, UploadFails, RemoveFile, Refill, inputLine, intentions
  <2>3. replying' \in BOOLEAN
        BY <1>2 DEF Show, EraseDraft, SetEditing, SetReplying, SetForwarding, ForwardingOver,
                    CancelAction, Uploaded, UploadFails, RemoveFile, intentions, LineTypes
  <2>4. written' = written /\ picked' = picked /\ voices' = voices
        BY <2>1 DEF bounds
  <2>5. draft' \in 0..written \cup {Old} /\ pending' \in 0..picked /\ uploading' \in 0..picked
        BY <2>2 DEF LineTypes, Texts
  <2>6. LineTypes'
        BY <2>3, <2>4, <2>5 DEF LineTypes, Texts
  <2> QED BY <1>1, <2>1, <2>4, <2>6 DEF LineTypes
<1>3. CASE TypeKey \/ PickEmoji
  <2>1. QuietSends /\ written' = written + 1 /\ written < MaxDrafts /\ draft' = written + 1
        /\ UNCHANGED <<picked, voices, pending, uploading, replying>>
        BY <1>3 DEF TypeKey, PickEmoji, Write, QuietSends, onServer, intentions
  <2>2. LineTypes'
        BY <2>1 DEF LineTypes, Texts
  <2> QED BY <1>1, <2>1, <2>2 DEF LineTypes
<1>4. CASE PickFile
  <2>1. QuietSends /\ picked' = picked + 1 /\ uploading' = picked + 1
        /\ UNCHANGED <<written, voices, draft, pending, replying>>
        BY <1>4 DEF PickFile, QuietSends, onServer, intentions
  <2>2. picked + 1 <= MaxFiles
        BY <1>4 DEF PickFile, LineTypes
  <2>3. LineTypes'
        BY <2>1, <2>2 DEF LineTypes, Texts
  <2> QED BY <1>1, <2>1, <2>3 DEF LineTypes
<1>5. CASE Hide
  <2>1. LineTypes' /\ ServerTypes'
        BY <1>5 DEF Hide, LineTypes, ServerTypes, Texts, onServer, bounds, intentions
  <2>2. \A s \in sends : LET t == [s EXCEPT !.here = FALSE] IN
            t \in SendType /\ t.draft = s.draft /\ t.file = s.file
        BY DEF SendTypes, SendType
  <2>3. SendTypes'
        BY <1>5, <2>2 DEF Hide, SendTypes, bounds
  <2> QED BY <2>1, <2>3
<1>6. CASE Send \/ SubmitEdit
  <2>1. PICK op \in {"message", "edit"} : sends' = sends \cup {Sending(op)}
        BY <1>6 DEF Send, SubmitEdit
  <2>2. draft' \in {draft, Empty} /\ UNCHANGED <<pending, uploading, replying, written, picked, voices>>
        /\ UNCHANGED <<posted, filed, overlap>>
        BY <1>6 DEF Send, SubmitEdit, DraftTaken, onServer, bounds, intentions
  <2>3. LineTypes' /\ ServerTypes'
        BY <2>2 DEF LineTypes, ServerTypes, Texts
  <2>4. SendTypes'
        BY <2>1, <2>2, SendingType DEF SendTypes, LineTypes
  <2> QED BY <2>3, <2>4
<1>7. ASSUME NEW here \in BOOLEAN, SendVoice(here)
      PROVE  LineTypes' /\ SendTypes' /\ ServerTypes'
  <2> DEFINE v == [op |-> "voice", draft |-> Empty, file |-> Empty, replied |-> replying,
                   saved |-> FALSE, here |-> here]
  <2>1. LineTypes' /\ ServerTypes' /\ UNCHANGED <<written, picked>>
        BY <1>7 DEF SendVoice, LineTypes, ServerTypes, onServer, intentions
  <2>2. v \in SendType /\ v.draft = 0 /\ v.file = 0
        BY DEF SendType, Texts, LineTypes
  <2>3. sends' = sends \cup {v}
        BY <1>7 DEF SendVoice
  <2> HIDE DEF v
  <2>4. SendTypes'
        BY <2>1, <2>2, <2>3 DEF SendTypes, LineTypes, Texts
  <2> QED BY <2>1, <2>4
<1>8. ASSUME NEW s \in sends, Save(s)
      PROVE  LineTypes' /\ SendTypes' /\ ServerTypes'
  <2> DEFINE t == [s EXCEPT !.saved = TRUE]
  <2>1. s \in SendType /\ s.draft \in Texts(written) /\ s.file \in 0..picked
        BY DEF SendTypes
  <2>2. t \in SendType /\ t.draft = s.draft /\ t.file = s.file
        BY <2>1 DEF SendType
  <2>3. sends' = (sends \ {s}) \cup {t} /\ UNCHANGED <<written, picked>>
        BY <1>8 DEF Save, bounds
  <2>4. LineTypes'
        BY <1>8 DEF Save, LineTypes, inputLine, bounds, intentions
  <2> HIDE DEF t
  <2>5. SendTypes'
        BY <2>2, <2>1, <2>3 DEF SendTypes
  <2>6. posted' \in [Draft -> Nat] /\ \A d \in Draft : d > written => posted'[d] = 0
    <3>1. CASE s.op = "message" /\ s.draft \in Draft
      <4>1. posted' = [posted EXCEPT ![s.draft] = posted[s.draft] + 1]
            BY <1>8, <3>1 DEF Save
      <4>2. s.draft <= written /\ s.draft \in Nat /\ written \in Nat
            BY <2>1, <3>1 DEF Texts, LineTypes, Draft
      <4> QED BY <3>1, <4>1, <4>2 DEF ServerTypes, LineTypes
    <3>2. CASE ~(s.op = "message" /\ s.draft \in Draft)
          BY <1>8, <3>2 DEF Save, ServerTypes
    <3> QED BY <3>1, <3>2
  <2>7. filed' \in [File -> Nat] /\ \A f \in File : f > picked => filed'[f] = 0
    <3>1. CASE s.op = "message" /\ s.file # Empty
      <4>1. filed' = [filed EXCEPT ![s.file] = filed[s.file] + 1]
            BY <1>8, <3>1 DEF Save
      <4>2. s.file \in File /\ s.file <= picked
            BY <2>1, <3>1 DEF LineTypes, File
      <4> QED BY <4>1, <4>2 DEF ServerTypes, LineTypes, File
    <3>2. CASE ~(s.op = "message" /\ s.file # Empty)
          BY <1>8, <3>2 DEF Save, ServerTypes
    <3> QED BY <3>1, <3>2
  <2> QED BY <1>8, <2>3, <2>4, <2>5, <2>6, <2>7 DEF Save, ServerTypes
<1>9. ASSUME NEW s \in sends, Done(s) \/ Fail(s)
      PROVE  LineTypes' /\ SendTypes' /\ ServerTypes'
  <2>1. s.draft \in Texts(written) /\ overlap' \in BOOLEAN
        BY <1>9 DEF SendTypes, Done, Fail, ServerTypes
  <2>2. draft' \in {draft, s.draft, Empty, Old} /\ pending' \in {pending, Empty}
        /\ sends' = sends \ {s} /\ replying' \in BOOLEAN
        /\ UNCHANGED <<written, picked, voices, uploading, posted, filed>>
        BY <1>9 DEF Done, Fail, FileTaken, bounds, intentions, LineTypes
  <2>3. LineTypes'
        BY <2>1, <2>2 DEF LineTypes, Texts
  <2> QED BY <2>1, <2>2, <2>3 DEF SendTypes, ServerTypes
<1> QED BY <1>2, <1>3, <1>4, <1>5, <1>6, <1>7, <1>8, <1>9 DEF ComposerNext

LEMMA Initially == ComposerInit => ComposerInv
<1> SUFFICES ASSUME ComposerInit PROVE ComposerInv
    OBVIOUS
<1> USE NumberFacts
<1>1. LineTypes
  <2>1. written = 0 /\ picked = 0 /\ voices = 0 /\ draft = 0 /\ pending = 0 /\ uploading = 0
        BY DEF ComposerInit
  <2>2. replying \in BOOLEAN
        BY DEF ComposerInit
  <2> QED BY <2>1, <2>2 DEF LineTypes, Texts
<1>2. sends = {} /\ draft = 0 /\ pending = 0 /\ uploading = 0 /\ overlap = FALSE
      /\ posted = [d \in Draft |-> 0] /\ filed = [f \in File |-> 0]
      BY DEF ComposerInit, File
<1>3. SendTypes /\ FlagWorks
      BY <1>2 DEF SendTypes, FlagWorks
<1>4. ServerTypes
  <2>1. posted \in [Draft -> Nat] /\ \A d \in Draft : posted[d] = 0
        BY <1>2
  <2>2. filed \in [File -> Nat] /\ \A f \in File : filed[f] = 0
        BY <1>2
  <2> QED BY <1>2, <2>1, <2>2 DEF ServerTypes
<1>5. TextsOK
      BY <1>2 DEF TextsOK, TextOK, UnsentText
<1>6. FilesOK
      BY <1>2 DEF FilesOK, FileOK, UnsentFile, File
<1> QED BY <1>1, <1>3, <1>4, <1>5, <1>6 DEF ComposerInv

----------------------------------------------------------------------------
(* What the line sends.                                                    *)

LEMMA SendAdds ==
    Send => \E n : /\ sends' = sends \cup {n} /\ n.op = "message" /\ n.draft = draft
                   /\ n.file = pending /\ n.saved = FALSE /\ n.here = TRUE
<1>1. LET n == Sending("message") IN /\ n.op = "message" /\ n.draft = draft
                                     /\ n.file = pending /\ n.saved = FALSE /\ n.here = TRUE
      BY DEF Sending
<1> QED BY <1>1 DEF Send

LEMMA EditAdds ==
    SubmitEdit => \E n : sends' = sends \cup {n} /\ n.op = "edit" /\ n.draft = draft
<1>1. LET n == Sending("edit") IN n.op = "edit" /\ n.draft = draft
      BY DEF Sending
<1> QED BY <1>1 DEF SubmitEdit

LEMMA VoiceAdds ==
    ASSUME NEW here, SendVoice(here)
    PROVE  \E n : sends' = sends \cup {n} /\ n.op = "voice"
<1> DEFINE v == [op |-> "voice", draft |-> Empty, file |-> Empty, replied |-> replying,
                 saved |-> FALSE, here |-> here]
<1>1. v.op = "voice"
      OBVIOUS
<1>2. sends' = sends \cup {v}
      BY DEF SendVoice
<1> HIDE DEF v
<1> QED BY <1>1, <1>2

----------------------------------------------------------------------------
(* The flag.                                                               *)

(* With the flag down, nothing that the line waits for is under way.       *)
LEMMA FlagStep ==
    ASSUME SendTypes, FlagWorks, ComposerNext, ~overlap'
    PROVE  FlagWorks'
<1>1. CASE \/ Show \/ EraseDraft \/ SetEditing \/ SetReplying \/ SetForwarding \/ ForwardingOver
           \/ CancelAction \/ Uploaded \/ UploadFails \/ RemoveFile \/ TypeKey \/ PickEmoji \/ PickFile
  <2>1. UNCHANGED <<sends, isSending>>
        BY <1>1 DEF Show, EraseDraft, SetEditing, SetReplying, SetForwarding, ForwardingOver,
                    CancelAction, Uploaded, UploadFails, RemoveFile, TypeKey, PickEmoji, Write, PickFile,
                    inputLine
  <2> QED BY <2>1 DEF FlagWorks, Waits
<1>2. CASE Hide
  <2>1. \A s \in sends : LET t == [s EXCEPT !.here = FALSE] IN t.here = FALSE
        BY DEF SendTypes, SendType
  <2>2. \A t \in sends' : t.here = FALSE
        BY <1>2, <2>1 DEF Hide
  <2> QED BY <2>2 DEF FlagWorks, Waits
<1>3. CASE Send \/ SubmitEdit
  <2>1. PICK n : sends' = sends \cup {n} /\ isSending' = TRUE /\ ~isSending
        BY <1>3 DEF Send, SubmitEdit, Sendable
  <2> QED BY <2>1 DEF FlagWorks, Waits
<1>4. ASSUME NEW here \in BOOLEAN, SendVoice(here)
      PROVE  FlagWorks'
  <2>1. PICK v : sends' = sends \cup {v} /\ v.op = "voice"
        BY <1>4, VoiceAdds
  <2>2. isSending = TRUE => isSending' = TRUE
        BY <1>4 DEF SendVoice
  <2>3. \A r \in sends' : Waits(r) => r \in sends
        BY <2>1 DEF Waits
  <2> HIDE DEF Waits
  <2> QED BY <2>2, <2>3 DEF FlagWorks
<1>5. ASSUME NEW s \in sends, Save(s)
      PROVE  FlagWorks'
  <2>3. sends' = (sends \ {s}) \cup {[s EXCEPT !.saved = TRUE]}
        BY <1>5 DEF Save
  <2>4. LET t == [s EXCEPT !.saved = TRUE] IN t.op = s.op /\ t.here = s.here
        BY DEF SendTypes, SendType
  <2>1. PICK t : sends' = (sends \ {s}) \cup {t} /\ t.op = s.op /\ t.here = s.here
        BY <2>3, <2>4
  <2>2. isSending' = isSending
        BY <1>5 DEF Save, inputLine
  <2>5. s \in sends /\ (Waits(t) <=> Waits(s))
        BY <2>1 DEF Waits
  <2>6. \A r \in sends' : r = t \/ (r \in sends /\ r # s)
        BY <2>1
  <2> HIDE DEF Waits
  <2> QED BY <2>2, <2>5, <2>6 DEF FlagWorks
<1>6. ASSUME NEW s \in sends, Done(s) \/ Fail(s)
      PROVE  FlagWorks'
  <2>1. sends' = sends \ {s} /\ isSending' = (IF s.here THEN FALSE ELSE isSending) /\ ~Overlaps(s)
        BY <1>6 DEF Done, Fail
  <2> QED BY <2>1 DEF FlagWorks, Waits, Overlaps
<1> QED BY <1>1, <1>2, <1>3, <1>4, <1>5, <1>6 DEF ComposerNext


----------------------------------------------------------------------------
(* Texts.                                                                  *)

LEMMA TextStep ==
    ASSUME LineTypes, SendTypes, ServerTypes, FlagWorks, ComposerNext, ~overlap',
           NEW d \in Draft, ~LostText(d)', TextOK(d)
    PROVE  TextOK(d)'
<1> USE NumberFacts
<1>0. d \in Nat /\ d # Empty /\ d # Old
      BY DEF Draft
<1>1. CASE \/ Show \/ EraseDraft \/ SetEditing \/ SetReplying \/ SetForwarding \/ ForwardingOver
           \/ CancelAction \/ Uploaded \/ UploadFails \/ RemoveFile \/ PickFile
  <2>1. UNCHANGED <<sends, posted>>
        BY <1>1 DEF Show, EraseDraft, SetEditing, SetReplying, SetForwarding, ForwardingOver,
                    CancelAction, Uploaded, UploadFails, RemoveFile, PickFile, onServer
  <2>2. draft' \in {draft, Old, Empty}
        BY <1>1 DEF Show, EraseDraft, SetEditing, SetReplying, SetForwarding, ForwardingOver,
                    CancelAction, Uploaded, UploadFails, RemoveFile, Refill, PickFile, inputLine
  <2> QED BY <1>0, <2>1, <2>2 DEF TextOK, UnsentText, SendsText
<1>2. CASE TypeKey \/ PickEmoji
  <2>1. UNCHANGED <<sends, posted>> /\ draft' = written + 1
        BY <1>2 DEF TypeKey, PickEmoji, Write, onServer
  <2>2. d = written + 1 => UnsentText(d)
        BY <1>0 DEF UnsentText, SendsText, ServerTypes, SendTypes, LineTypes, Texts
  <2> QED BY <2>1, <2>2 DEF TextOK, UnsentText, SendsText
<1>3. CASE Hide
  <2>1. \A s \in sends : LET t == [s EXCEPT !.here = FALSE] IN
            t.here = FALSE /\ t.op = s.op /\ t.draft = s.draft /\ t.saved = s.saved
        BY DEF SendTypes, SendType
  <2>2. \A t \in sends' : \E s \in sends : /\ t = [s EXCEPT !.here = FALSE]
                                          /\ t.here = FALSE /\ t.op = s.op
                                          /\ t.draft = s.draft /\ t.saved = s.saved
        BY <1>3, <2>1 DEF Hide
  <2>3. draft' = Empty /\ posted' = posted
        BY <1>3 DEF Hide, onServer
  <2>4. \A t \in sends' : SendsText(t, d) =>
            \E s \in sends : SendsText(s, d) /\ t = [s EXCEPT !.here = FALSE] /\ t.saved = s.saved
        BY <2>2 DEF SendsText
  <2>5. \A s, t \in sends' : SendsText(s, d) /\ SendsText(t, d) => s = t
        BY <2>4 DEF TextOK
  <2>6. \A s \in sends' : SendsText(s, d) /\ ~s.saved => posted[d] = 0
        BY <2>4 DEF TextOK
  <2>7. \A s \in sends' : ~s.here
        BY <2>2
  <2>8. posted[d] <= 1
        BY DEF TextOK
  <2> QED BY <1>0, <2>3, <2>5, <2>6, <2>7, <2>8 DEF TextOK
<1>4. CASE Send
  <2>4. draft' = Empty /\ posted' = posted
        BY <1>4 DEF Send, DraftTaken, onServer
  <2>5. PICK n : sends' = sends \cup {n} /\ n.op = "message" /\ n.draft = draft /\ n.saved = FALSE
        BY <1>4, SendAdds
  <2>1. /\ sends' = sends \cup {n} /\ n.op = "message" /\ n.draft = draft
        /\ draft' = Empty /\ posted' = posted /\ ~n.saved
        BY <2>4, <2>5
  <2>2. CASE draft = d
    <3>1. UnsentText(d)
          BY <2>2 DEF TextOK
    <3>2. \A s \in sends' : SendsText(s, d) => s = n
          BY <2>1, <3>1 DEF UnsentText
    <3>3. \A s \in sends : ~(s.op = "edit" /\ s.here)
          BY <1>4 DEF FlagWorks, Waits, Send, Sendable
    <3> QED BY <1>0, <2>1, <3>1, <3>2, <3>3 DEF TextOK, UnsentText
  <2>3. CASE draft # d
    <3>1. ~SendsText(n, d)
          BY <2>1, <2>3 DEF SendsText
    <3> QED BY <1>0, <2>1, <3>1 DEF TextOK, UnsentText
  <2> QED BY <2>2, <2>3
<1>5. CASE SubmitEdit
  <2>1. PICK n : sends' = sends \cup {n} /\ n.op = "edit" /\ n.draft = draft
        BY <1>5, EditAdds
  <2>2. draft' = draft /\ posted' = posted
        BY <1>5 DEF SubmitEdit, onServer
  <2>3. ~SendsText(n, d)
        BY <2>1 DEF SendsText
  <2> QED BY <2>1, <2>2, <2>3 DEF TextOK, UnsentText
<1>6. ASSUME NEW here \in BOOLEAN, SendVoice(here)
      PROVE  TextOK(d)'
  <2>1. PICK n : sends' = sends \cup {n} /\ n.op = "voice"
        BY <1>6, VoiceAdds
  <2>2. draft' = draft /\ posted' = posted
        BY <1>6 DEF SendVoice, onServer
  <2>3. ~SendsText(n, d)
        BY <2>1 DEF SendsText
  <2> QED BY <2>1, <2>2, <2>3 DEF TextOK, UnsentText
<1>7. ASSUME NEW s \in sends, Save(s)
      PROVE  TextOK(d)'
  <2>1. sends' = (sends \ {s}) \cup {[s EXCEPT !.saved = TRUE]} /\ ~s.saved /\ draft' = draft
        BY <1>7 DEF Save, inputLine
  <2>2. LET t == [s EXCEPT !.saved = TRUE] IN
            t.op = s.op /\ t.draft = s.draft /\ t.here = s.here /\ t.saved = TRUE
        BY DEF SendTypes, SendType
  <2>3. PICK t : /\ sends' = (sends \ {s}) \cup {t}
                 /\ t.op = s.op /\ t.draft = s.draft /\ t.here = s.here /\ t.saved = TRUE
        BY <2>1, <2>2
  <2>4. SendsText(t, d) <=> SendsText(s, d)
        BY <2>3 DEF SendsText
  <2>5. CASE SendsText(s, d)
    <3>1. posted[d] = 0 /\ \A r \in sends : SendsText(r, d) => r = s
          BY <2>1, <2>5 DEF TextOK
    <3>2. posted' = [posted EXCEPT ![d] = posted[d] + 1]
          BY <1>7, <2>5 DEF Save, SendsText
    <3>3. posted'[d] = 1
          BY <3>1, <3>2 DEF ServerTypes
    <3>4. ~UnsentText(d)
          BY <2>5 DEF UnsentText
    <3>5. \A r \in sends' : SendsText(r, d) => r = t
          BY <2>3, <3>1
    <3>6. \A r \in sends' : ~(r.op = "edit" /\ r.here /\ r.draft = d)
          BY <2>3, <2>5, <3>4 DEF TextOK, SendsText
    <3> QED BY <2>1, <2>3, <3>3, <3>4, <3>5, <3>6 DEF TextOK
  <2>6. CASE ~SendsText(s, d)
    <3>1. posted'[d] = posted[d]
          BY <1>7, <2>6 DEF Save, SendsText, ServerTypes
    <3>2. \A r \in sends' : SendsText(r, d) => r \in sends /\ r # t
          BY <2>3, <2>4, <2>6
    <3> QED BY <2>1, <2>3, <2>4, <2>6, <3>1, <3>2 DEF TextOK, UnsentText
  <2> QED BY <2>5, <2>6
<1>8. ASSUME NEW s \in sends, Done(s)
      PROVE  TextOK(d)'
  <2>1. sends' = sends \ {s} /\ posted' = posted /\ draft' \in {draft, Old, Empty}
        BY <1>8 DEF Done
  <2> QED BY <1>0, <2>1 DEF TextOK, UnsentText, SendsText
<1>9. ASSUME NEW s \in sends, Fail(s)
      PROVE  TextOK(d)'
  <2>1. sends' = sends \ {s} /\ posted' = posted
        /\ draft' = IF s.here /\ s.op # "voice" THEN s.draft ELSE draft
        BY <1>9 DEF Fail
  <2>2. CASE SendsText(s, d)
    <3>1. ~s.saved
      <4>1. ASSUME s.saved PROVE FALSE
        <5>1. <<s.draft, s.file>> \in lost' /\ <<s.draft, s.file>>[1] = d
              BY <1>9, <2>2, <4>1 DEF Fail, SendsText
        <5> QED BY <5>1 DEF LostText
      <4> QED BY <4>1
    <3>2. posted[d] = 0 /\ \A r \in sends : SendsText(r, d) => r = s
          BY <2>2, <3>1 DEF TextOK
    <3> QED BY <2>1, <3>2 DEF TextOK, UnsentText, SendsText
  <2>3. CASE ~SendsText(s, d)
    <3>1. s.here /\ s.op # "voice" /\ s.draft = d => s.op = "edit"
          BY <2>3 DEF SendsText, SendTypes, SendType
    <3> QED BY <2>1, <3>1 DEF TextOK, UnsentText, SendsText
  <2> QED BY <2>2, <2>3
<1> QED BY <1>1, <1>2, <1>3, <1>4, <1>5, <1>6, <1>7, <1>8, <1>9 DEF ComposerNext


----------------------------------------------------------------------------
(* Files.                                                                  *)

LEMMA FileStep ==
    ASSUME LineTypes, SendTypes, ServerTypes, FlagWorks, ComposerNext, ~overlap',
           NEW f \in File, ~LostFile(f)', FileOK(f)
    PROVE  FileOK(f)'
<1> USE NumberFacts
<1>0. f \in Nat /\ f # Empty
      BY DEF File
<1>1. CASE \/ Show \/ EraseDraft \/ SetEditing \/ SetReplying \/ SetForwarding \/ ForwardingOver
           \/ CancelAction \/ UploadFails \/ RemoveFile \/ TypeKey \/ PickEmoji
  <2>1. UNCHANGED <<sends, filed>>
        BY <1>1 DEF Show, EraseDraft, SetEditing, SetReplying, SetForwarding, ForwardingOver,
                    CancelAction, UploadFails, RemoveFile, TypeKey, PickEmoji, Write, onServer
  <2>2. pending' \in {pending, Empty} /\ uploading' \in {uploading, Empty}
        BY <1>1 DEF Show, EraseDraft, SetEditing, SetReplying, SetForwarding, ForwardingOver,
                    CancelAction, UploadFails, RemoveFile, TypeKey, PickEmoji, Write, inputLine
  <2> QED BY <1>0, <2>1, <2>2 DEF FileOK, UnsentFile, SendsFile
<1>2. CASE Uploaded
  <2>1. UNCHANGED <<sends, filed>> /\ pending' = uploading /\ uploading' = Empty
        BY <1>2 DEF Uploaded, onServer
  <2> QED BY <1>0, <2>1 DEF FileOK, UnsentFile, SendsFile
<1>3. CASE PickFile
  <2>1. UNCHANGED <<sends, filed, pending>> /\ uploading' = picked + 1
        BY <1>3 DEF PickFile, onServer
  <2>2. f = picked + 1 => UnsentFile(f) /\ pending # f
        BY <1>0 DEF UnsentFile, SendsFile, ServerTypes, SendTypes, LineTypes
  <2> QED BY <2>1, <2>2 DEF FileOK, UnsentFile, SendsFile
<1>4. CASE Hide
  <2>1. \A s \in sends : LET t == [s EXCEPT !.here = FALSE] IN
            t.op = s.op /\ t.file = s.file /\ t.saved = s.saved
        BY DEF SendTypes, SendType
  <2>7. \A t \in sends' : \E s \in sends : /\ t = [s EXCEPT !.here = FALSE]
                                          /\ t.op = s.op /\ t.file = s.file /\ t.saved = s.saved
        BY <1>4, <2>1 DEF Hide
  <2>2. \A t \in sends' : SendsFile(t, f) =>
            \E s \in sends : SendsFile(s, f) /\ t = [s EXCEPT !.here = FALSE] /\ t.saved = s.saved
        BY <2>7 DEF SendsFile
  <2>3. pending' = Empty /\ uploading' = Empty /\ filed' = filed
        BY <1>4 DEF Hide, onServer
  <2>4. \A s, t \in sends' : SendsFile(s, f) /\ SendsFile(t, f) => s = t
        BY <2>2 DEF FileOK
  <2>5. \A s \in sends' : SendsFile(s, f) /\ ~s.saved => filed[f] = 0
        BY <2>2 DEF FileOK
  <2>6. filed[f] <= 1
        BY DEF FileOK
  <2> QED BY <1>0, <2>3, <2>4, <2>5, <2>6 DEF FileOK
<1>5. CASE Send
  <2>1. pending' = pending /\ uploading' = uploading /\ filed' = filed
        BY <1>5 DEF Send, onServer
  <2>2. PICK n : /\ sends' = sends \cup {n} /\ n.op = "message"
                 /\ n.file = pending /\ n.saved = FALSE /\ n.here = TRUE
        BY <1>5, SendAdds
  <2>3. CASE pending = f
    <3>1. \A s \in sends : ~(SendsFile(s, f) /\ s.here)
          BY <1>5 DEF FlagWorks, Waits, SendsFile, Send, Sendable
    <3>2. UnsentFile(f)
          BY <2>3, <3>1 DEF FileOK
    <3>3. \A s \in sends' : SendsFile(s, f) => s = n
          BY <2>2, <3>2 DEF UnsentFile
    <3>4. n \in sends' /\ SendsFile(n, f) /\ n.here
          BY <2>2, <2>3 DEF SendsFile
    <3> QED BY <2>1, <2>3, <3>2, <3>3, <3>4 DEF FileOK, UnsentFile
  <2>4. CASE pending # f
    <3>1. ~SendsFile(n, f)
          BY <2>2, <2>4 DEF SendsFile
    <3> QED BY <2>1, <2>2, <2>4, <3>1 DEF FileOK, UnsentFile
  <2> QED BY <2>3, <2>4
<1>6. CASE SubmitEdit \/ \E here \in BOOLEAN : SendVoice(here)
  <2>1. PICK n : sends' = sends \cup {n} /\ n.op \in {"edit", "voice"}
        BY <1>6, EditAdds, VoiceAdds
  <2>2. UNCHANGED <<pending, uploading, filed>>
        BY <1>6 DEF SubmitEdit, SendVoice, onServer
  <2>3. ~SendsFile(n, f)
        BY <2>1 DEF SendsFile
  <2> QED BY <2>1, <2>2, <2>3 DEF FileOK, UnsentFile
<1>7. ASSUME NEW s \in sends, Save(s)
      PROVE  FileOK(f)'
  <2>1. /\ sends' = (sends \ {s}) \cup {[s EXCEPT !.saved = TRUE]} /\ ~s.saved
        /\ UNCHANGED <<pending, uploading>>
        BY <1>7 DEF Save, inputLine
  <2>2. LET t == [s EXCEPT !.saved = TRUE] IN
            t.op = s.op /\ t.file = s.file /\ t.here = s.here /\ t.saved = TRUE
        BY DEF SendTypes, SendType
  <2>3. PICK t : /\ sends' = (sends \ {s}) \cup {t}
                 /\ t.op = s.op /\ t.file = s.file /\ t.here = s.here /\ t.saved = TRUE
        BY <2>1, <2>2
  <2>4. SendsFile(t, f) <=> SendsFile(s, f)
        BY <2>3 DEF SendsFile
  <2>5. CASE SendsFile(s, f)
    <3>1. filed[f] = 0 /\ \A r \in sends : SendsFile(r, f) => r = s
          BY <2>1, <2>5 DEF FileOK
    <3>2. filed' = [filed EXCEPT ![f] = filed[f] + 1]
          BY <1>0, <1>7, <2>5 DEF Save, SendsFile
    <3>3. filed'[f] = 1
          BY <3>1, <3>2 DEF ServerTypes
    <3>4. ~UnsentFile(f)
          BY <2>5 DEF UnsentFile
    <3>5. t \in sends' /\ \A r \in sends' : SendsFile(r, f) => r = t
          BY <2>3, <3>1
    <3>6. uploading # f /\ (pending = f => s.here)
          BY <3>1, <3>4 DEF FileOK
    <3> QED BY <2>1, <2>3, <2>4, <2>5, <3>3, <3>5, <3>6 DEF FileOK
  <2>6. CASE ~SendsFile(s, f)
    <3>1. filed'[f] = filed[f]
          BY <1>7, <2>6 DEF Save, SendsFile, ServerTypes
    <3>2. \A r : SendsFile(r, f) => (r \in sends' <=> r \in sends)
          BY <2>3, <2>4, <2>6
    <3> QED BY <2>1, <3>1, <3>2 DEF FileOK, UnsentFile
  <2> QED BY <2>5, <2>6
<1>8. ASSUME NEW s \in sends, Done(s)
      PROVE  FileOK(f)'
  <2>1. /\ sends' = sends \ {s} /\ UNCHANGED <<uploading, filed>>
        /\ pending' = FileTaken(s)
        BY <1>8 DEF Done
  <2>2. pending' \in {pending, Empty}
        BY <2>1 DEF FileTaken
  <2>3. CASE SendsFile(s, f)
    <3>1. \A r \in sends : SendsFile(r, f) => r = s
          BY <2>3 DEF FileOK
    <3>2. pending' # f
      <4>1. CASE s.here
            BY <1>0, <2>1, <2>3, <4>1 DEF FileTaken, SendsFile
      <4>2. CASE ~s.here
            BY <1>0, <2>2, <2>3, <3>1, <4>2 DEF FileOK, UnsentFile
      <4> QED BY <4>1, <4>2
    <3>3. uploading # f
          BY <2>3 DEF FileOK, UnsentFile
    <3> QED BY <2>1, <3>1, <3>2, <3>3 DEF FileOK
  <2>4. CASE ~SendsFile(s, f)
        BY <1>0, <2>1, <2>2, <2>4 DEF FileOK, UnsentFile
  <2> QED BY <2>3, <2>4
<1>9. ASSUME NEW s \in sends, Fail(s)
      PROVE  FileOK(f)'
  <2>1. sends' = sends \ {s} /\ UNCHANGED <<pending, uploading, filed>>
        BY <1>9 DEF Fail
  <2>2. CASE SendsFile(s, f)
    <3>1. ~s.saved
      <4>1. ASSUME s.saved PROVE FALSE
        <5>1. <<s.draft, s.file>> \in lost' /\ <<s.draft, s.file>>[2] = f
              BY <1>9, <2>2, <4>1 DEF Fail, SendsFile
        <5> QED BY <5>1 DEF LostFile
      <4> QED BY <4>1
    <3>2. filed[f] = 0 /\ \A r \in sends : SendsFile(r, f) => r = s
          BY <2>2, <3>1 DEF FileOK
    <3>3. UnsentFile(f)'
          BY <2>1, <3>2 DEF UnsentFile, SendsFile
    <3>4. uploading # f
          BY <2>2 DEF FileOK, UnsentFile
    <3> QED BY <2>1, <3>2, <3>3, <3>4 DEF FileOK, SendsFile
  <2>3. CASE ~SendsFile(s, f)
        BY <2>1, <2>3 DEF FileOK, UnsentFile
  <2> QED BY <2>2, <2>3
<1> QED BY <1>1, <1>2, <1>3, <1>4, <1>5, <1>6, <1>7, <1>8, <1>9 DEF ComposerNext

----------------------------------------------------------------------------
(* A text is saved once and a file goes out with one message, whatever     *)
(* sends, failures, edits and room changes do, unless an answer was lost   *)
(* or a voice message ended beside another request: handleSendMessage and  *)
(* handleSubmit, for any number of texts, files and requests.              *)
THEOREM SentCorrect == ComposerSpec => []SentOnce
<1>1. ComposerInv /\ [ComposerNext]_composerVars => ComposerInv'
  <2> SUFFICES ASSUME ComposerInv, [ComposerNext]_composerVars PROVE ComposerInv'
      OBVIOUS
  <2>1. CASE ComposerNext
    <3>1. LineTypes' /\ SendTypes' /\ ServerTypes'
          BY <2>1, TypesStep DEF ComposerInv
    <3>2. ASSUME ~overlap' PROVE ~overlap /\ \A l \in lost : l \in lost'
      <4>1. CASE \E s \in sends : Done(s) \/ Fail(s)
            BY <3>2, <4>1 DEF Done, Fail
      <4>2. CASE ~\E s \in sends : Done(s) \/ Fail(s)
        <5>1. UNCHANGED <<lost, overlap>>
              BY <2>1, <4>2 DEF ComposerNext, Show, EraseDraft, SetEditing, SetReplying, SetForwarding,
                    ForwardingOver, CancelAction, Uploaded, UploadFails, RemoveFile, PickFile, Hide,
                    TypeKey, PickEmoji, Write, Send, SubmitEdit, SendVoice, Save, onServer
        <5> QED BY <3>2, <5>1
      <4> QED BY <4>1, <4>2
    <3>3. ASSUME ~overlap' PROVE FlagWorks' /\ TextsOK' /\ FilesOK'
      <4>1. FlagWorks /\ TextsOK /\ FilesOK
            BY <3>2, <3>3 DEF ComposerInv
      <4>2. FlagWorks'
            BY <2>1, <3>3, <4>1, FlagStep DEF ComposerInv
      <4>3. ASSUME NEW d \in Draft, ~LostText(d)' PROVE TextOK(d)'
        <5>1. TextOK(d)
              BY <3>2, <3>3, <4>1, <4>3 DEF TextsOK, LostText
        <5> QED BY <2>1, <3>3, <4>1, <4>3, <5>1, TextStep DEF ComposerInv
      <4>4. ASSUME NEW f \in File, ~LostFile(f)' PROVE FileOK(f)'
        <5>1. FileOK(f)
              BY <3>2, <3>3, <4>1, <4>4 DEF FilesOK, LostFile
        <5> QED BY <2>1, <3>3, <4>1, <4>4, <5>1, FileStep DEF ComposerInv
      <4> QED BY <4>2, <4>3, <4>4 DEF TextsOK, FilesOK
    <3> QED BY <3>1, <3>3 DEF ComposerInv
  <2>2. CASE UNCHANGED composerVars
    <3>1. UNCHANGED <<written, picked, voices, draft, pending, uploading, replying>>
          /\ UNCHANGED <<isSending, sends, posted, filed, lost, overlap>>
          BY <2>2 DEF composerVars, inputLine, intentions, onServer, bounds
    <3>2. LineTypes' /\ SendTypes' /\ ServerTypes' /\ (FlagWorks <=> FlagWorks')
          BY <3>1 DEF ComposerInv, LineTypes, SendTypes, ServerTypes, FlagWorks, Waits
    <3>3. (TextsOK <=> TextsOK') /\ (FilesOK <=> FilesOK')
          BY <3>1 DEF TextsOK, FilesOK, LostText, LostFile, TextOK, FileOK, UnsentText, UnsentFile,
                      SendsText, SendsFile
    <3> QED BY <3>1, <3>2, <3>3 DEF ComposerInv
  <2> QED BY <2>1, <2>2
<1>2. ASSUME ComposerInv PROVE SentOnce
  <2>1. SUFFICES ASSUME ~overlap
                 PROVE  /\ \A d \in Draft : posted[d] > 1 => LostText(d)
                        /\ \A f \in File : filed[f] > 1 => LostFile(f)
        BY DEF SentOnce, LostText, LostFile, File
  <2>2. TextsOK /\ FilesOK
        BY <1>2, <2>1 DEF ComposerInv
  <2>3. posted \in [Draft -> Nat] /\ filed \in [File -> Nat]
        BY <1>2 DEF ComposerInv, ServerTypes
  <2>4. ASSUME NEW d \in Draft, posted[d] > 1 PROVE LostText(d)
    <3>1. ~(posted[d] <= 1)
          BY <2>3, <2>4
    <3> QED BY <2>2, <3>1 DEF TextsOK, TextOK
  <2>5. ASSUME NEW f \in File, filed[f] > 1 PROVE LostFile(f)
    <3>1. ~(filed[f] <= 1)
          BY <2>3, <2>5
    <3> QED BY <2>2, <3>1 DEF FilesOK, FileOK
  <2> QED BY <2>4, <2>5
<1> QED BY Initially, <1>1, <1>2, PTL DEF ComposerSpec

----------------------------------------------------------------------------
(* The list of messages: MessageItem.jsx and MessageList.jsx.              *)

ListNext == GestureNext \/ PlaceNext

----------------------------------------------------------------------------
(* The selection.                                                          *)

SelectionInv ==
    /\ selectionMode \in BOOLEAN /\ late \in BOOLEAN
    /\ SelectionShown

(* A toggle takes the selection down with its last message; outside of a   *)
(* selection it is late, unless it takes out what was the last.            *)
LEMMA ToggleKeeps ==
    ASSUME SelectionInv, NEW m, Toggle(m) PROVE SelectionInv'
BY DEF SelectionInv, SelectionShown, Toggle, ModeAfter

LEMMA SelectionStep == SelectionInv /\ [ListNext]_listVars => SelectionInv'
<1> SUFFICES ASSUME SelectionInv, [ListNext]_listVars PROVE SelectionInv'
    OBVIOUS
<1>1. CASE UNCHANGED picking
      BY <1>1 DEF SelectionInv, SelectionShown, picking
<1>2. CASE ExitSelection
      BY <1>2 DEF ExitSelection, SelectionInv, SelectionShown
<1>3. ASSUME NEW m \in Message, ContextMenu(m) \/ Click(m) PROVE SelectionInv'
      BY <1>1, <1>3, ToggleKeeps DEF ContextMenu, Click
<1>4. ASSUME NEW t \in tapped, TapFires(t) PROVE SelectionInv'
      BY <1>1, <1>4, ToggleKeeps DEF TapFires
<1>5. ASSUME NEW t \in held, HoldFires(t) PROVE SelectionInv'
  <2>1. CASE EnterSelection(t[1])
        BY <2>1 DEF EnterSelection, SelectionInv, SelectionShown
  <2> QED BY <1>1, <1>5, <2>1 DEF HoldFires
<1>6. ASSUME NEW m \in Message,
             \/ ToggleGrid(m) \/ ChooseItem(m) \/ HandleReaction(m) \/ EraseMessage(m)
             \/ TouchStart(m) \/ TouchMove(m) \/ TouchEnd(m) \/ MouseDown(m) \/ Messages(m)
      PROVE  UNCHANGED picking
      BY <1>6 DEF ToggleGrid, ChooseItem, HandleReaction, MenuCloses, EraseMessage, TouchStart,
                  TouchMove, TouchEnd, MouseDown, Messages
<1>7. CASE MouseUp \/ ClickElsewhere \/ ScrollFires \/ UserScrolls \/ Jump \/ UNCHANGED listVars
      BY <1>1, <1>7 DEF MouseUp, ClickElsewhere, ScrollFires, UserScrolls, Jump, listVars
<1> QED BY <1>1, <1>2, <1>3, <1>4, <1>5, <1>6, <1>7 DEF ListNext, GestureNext, PlaceNext

(* The toolbar of the selection is there exactly while messages are        *)
(* selected, unless a tap was late, for any number of messages and timers. *)
THEOREM SelectionCorrect == ListSpec => []SelectionShown
<1>1. ListInit => SelectionInv
      BY DEF ListInit, SelectionInv, SelectionShown
<1>2. SelectionInv => SelectionShown
      BY DEF SelectionInv
<1> QED BY <1>1, <1>2, SelectionStep, PTL DEF ListSpec, ListNext

----------------------------------------------------------------------------
(* The place.                                                              *)

PlaceInv ==
    /\ last \in Nat /\ scrolls \in Nat /\ lastSeen = last
    /\ inited \in BOOLEAN /\ jumps \in BOOLEAN
    /\ inited => last # NoMessage
    /\ FollowsNewest

(* A render that finds new messages jumps to the bottom the first time and *)
(* asks for a scroll after that; the first time there was no list before.  *)
LEMMA RenderKeeps ==
    ASSUME PlaceInv, NEW m \in Message, Messages(m) PROVE PlaceInv'
<1> USE ListAssumption DEF PlaceInv, FollowsNewest, Message, NoMessage
<1>1. m \in Nat /\ m > 0 /\ last' = m /\ lastSeen' = m /\ jumps' = jumps
      BY DEF Messages, Render, where
<1>2. inited' \in BOOLEAN /\ scrolls' \in Nat
      BY DEF Messages, Render, LayoutInits
<1>3. ASSUME ~jumps PROVE place' \in {"bottom", "read"} \/ scrolls' > 0
  <2>1. CASE ~inited
        BY <1>1, <2>1, <1>3 DEF Messages, Render, LayoutInits
  <2>2. CASE inited /\ m # last
        BY <1>1, <2>2, <1>3 DEF Messages, Render, LayoutInits
  <2>3. CASE inited /\ m = last
        BY <1>1, <2>3, <1>3 DEF Messages, Render, LayoutInits
  <2> QED BY <2>1, <2>2, <2>3
<1> QED BY <1>1, <1>2, <1>3

LEMMA PlaceStep == PlaceInv /\ [ListNext]_listVars => PlaceInv'
<1> SUFFICES ASSUME PlaceInv, [ListNext]_listVars PROVE PlaceInv'
    OBVIOUS
<1>1. CASE UNCHANGED where /\ UNCHANGED last
      BY <1>1 DEF PlaceInv, FollowsNewest, where
<1>2. ASSUME NEW m \in Message, Messages(m) PROVE PlaceInv'
      BY <1>2, RenderKeeps
<1>3. CASE ScrollFires
      BY <1>3 DEF ScrollFires, PlaceInv, FollowsNewest
<1>4. CASE UserScrolls
      BY <1>4 DEF UserScrolls, PlaceInv, FollowsNewest
<1>5. CASE Jump
      BY <1>5 DEF Jump, PlaceInv, FollowsNewest
<1>6. ASSUME NEW m \in Message,
             \/ ContextMenu(m) \/ ToggleGrid(m) \/ ChooseItem(m) \/ HandleReaction(m)
             \/ EraseMessage(m) \/ Click(m) \/ TouchStart(m) \/ TouchMove(m) \/ TouchEnd(m)
             \/ MouseDown(m)
      PROVE  PlaceInv'
      BY <1>1, <1>6 DEF ContextMenu, ToggleGrid, ChooseItem, HandleReaction, MenuCloses,
                        EraseMessage, Click, TouchStart, TouchMove, TouchEnd, MouseDown
<1>7. ASSUME NEW t, TapFires(t) \/ HoldFires(t) PROVE PlaceInv'
      BY <1>1, <1>7 DEF TapFires, HoldFires
<1>8. CASE ExitSelection \/ MouseUp \/ ClickElsewhere \/ UNCHANGED listVars
      BY <1>1, <1>8 DEF ExitSelection, MouseUp, ClickElsewhere, listVars
<1> QED BY <1>2, <1>3, <1>4, <1>5, <1>6, <1>7, <1>8 DEF ListNext, GestureNext, PlaceNext

(* The list is at its newest message or about to scroll there, for any     *)
(* number of messages and scrolls that wait, until the user scrolls or the *)
(* page jumps: the effects of MessageList.jsx.                             *)
THEOREM PlaceCorrect == ListSpec => []FollowsNewest
<1>1. ASSUME ListInit PROVE PlaceInv
  <2>1. last \in Nat
        BY <1>1 DEF ListInit, NoMessage
  <2> QED BY <1>1, <2>1 DEF ListInit, PlaceInv, FollowsNewest
<1>2. PlaceInv => FollowsNewest
      BY DEF PlaceInv
<1> QED BY <1>1, <1>2, PlaceStep, PTL DEF ListSpec, ListNext

----------------------------------------------------------------------------
(* The dialog of a group: GroupManagementModal.jsx.                        *)

RequestType == [op : {"load", "add", "added", "remove", "removed", "update", "delete", "leave"},
                of : Group, at : {"asked", "served"}, got : Role]

GroupsTypeOK ==
    /\ dialog \in BOOLEAN /\ busy \in BOOLEAN /\ orphaned \in BOOLEAN /\ muddled \in BOOLEAN
    /\ group \in Group \cup {NoGroup}
    /\ role \in [Group -> Role]
    /\ members \in [of : Group \cup {NoGroup}, role : Role]
    /\ requests \subseteq RequestType

Managed == dialog /\ group # NoGroup

(* What holds until something fails or overlaps: there is one request at a *)
(* time, for the group that is managed, and what it has got of the role    *)
(* still says whether the user owns the group; so does the list, when      *)
(* nothing is under way; and whoever is about to leave is no owner.        *)
OneAtATime ==
    \/ requests = {} /\ ~busy
    \/ busy /\ \E x \in requests : requests = {x}

OfTheManaged == \A x \in requests : Managed => x.of = group

AnswersKnowOwner ==
    \A x \in requests : x.at = "served" /\ role[x.of] = "owner" => x.got = "owner"

ListKnowsOwner ==
    Managed /\ ~busy /\ role[group] = "owner" => IsOwner

LeaversOwnNothing ==
    \A x \in requests : x.op = "leave" /\ x.at = "asked" => role[x.of] # "owner"

Clear ==
    /\ OneAtATime /\ OfTheManaged /\ AnswersKnowOwner /\ ListKnowsOwner /\ LeaversOwnNothing
    /\ ~orphaned

GroupsInv == GroupsTypeOK /\ (~muddled => Clear)

----------------------------------------------------------------------------

LEMMA GroupsInitial == GroupsInit => GroupsInv
<1> SUFFICES ASSUME GroupsInit PROVE GroupsInv
    OBVIOUS
<1>1. role \in [Group -> Role] /\ members \in [of : Group \cup {NoGroup}, role : Role]
      BY DEF GroupsInit, Role
<1>2. GroupsTypeOK
      BY <1>1 DEF GroupsInit, GroupsTypeOK
<1>3. Clear
      BY DEF GroupsInit, Clear, OneAtATime, OfTheManaged, AnswersKnowOwner, ListKnowsOwner,
             LeaversOwnNothing, Managed
<1> QED BY <1>2, <1>3 DEF GroupsInv

(* What every request does: it is added, and is alone if all stays clear.  *)
LEMMA RequestAlone ==
    ASSUME GroupsInv, NEW op \in {"load", "add", "remove", "update", "delete", "leave"},
           Request(op), group' \in Group
    PROVE  /\ requests' \subseteq RequestType /\ busy' \in BOOLEAN /\ muddled' \in BOOLEAN
           /\ ~muddled' => /\ ~muddled /\ ~busy /\ busy'
                           /\ requests' = {[op |-> op, of |-> group', at |-> "asked", got |-> "none"]}
<1> DEFINE new == [op |-> op, of |-> group', at |-> "asked", got |-> "none"]
<1>1. new \in RequestType
      BY DEF RequestType, Role
<1>2. requests' = requests \cup {new} /\ busy' = TRUE
      /\ muddled' = (muddled \/ (busy /\ requests # {}))
      BY DEF Request
<1>3. requests' \subseteq RequestType /\ busy' \in BOOLEAN /\ muddled' \in BOOLEAN
      BY <1>1, <1>2 DEF GroupsInv, GroupsTypeOK
<1>4. ASSUME ~muddled' PROVE ~muddled /\ requests = {} /\ ~busy
      BY <1>2, <1>4 DEF GroupsInv, Clear, OneAtATime
<1> QED BY <1>2, <1>3, <1>4

(* A load of the members of the group that is shown.                       *)
LEMMA LoadKeeps ==
    ASSUME GroupsInv, Load, group' \in Group, dialog' \in BOOLEAN,
           UNCHANGED <<role, members, orphaned>>
    PROVE  GroupsInv'
<1>1. Request("load")
      BY DEF Load
<1>2. /\ requests' \subseteq RequestType /\ busy' \in BOOLEAN /\ muddled' \in BOOLEAN
      /\ ~muddled' => /\ ~muddled /\ ~busy /\ busy'
                      /\ requests' = {[op |-> "load", of |-> group', at |-> "asked", got |-> "none"]}
      BY <1>1, RequestAlone
<1>3. GroupsTypeOK'
      BY <1>2 DEF GroupsInv, GroupsTypeOK
<1>4. ASSUME ~muddled' PROVE Clear'
  <2> DEFINE new == [op |-> "load", of |-> group', at |-> "asked", got |-> "none"]
  <2>1. ~muddled /\ busy' /\ requests' = {new}
        BY <1>2, <1>4
  <2>2. new.op = "load" /\ new.of = group' /\ new.at = "asked"
        OBVIOUS
  <2> HIDE DEF new
  <2>3. OneAtATime' /\ OfTheManaged' /\ AnswersKnowOwner' /\ ListKnowsOwner' /\ LeaversOwnNothing'
        BY <2>1, <2>2 DEF OneAtATime, OfTheManaged, AnswersKnowOwner, ListKnowsOwner,
                          LeaversOwnNothing
  <2> QED BY <2>1, <2>3 DEF GroupsInv, Clear
<1> QED BY <1>3, <1>4 DEF GroupsInv

(* A button: the list of members knows what the user may press.            *)
LEMMA PressKeeps ==
    ASSUME GroupsInv, NEW op \in {"add", "remove", "update", "delete", "leave"}, Press(op)
    PROVE  GroupsInv'
<1>1. /\ Request(op) /\ Managed /\ ~busy /\ Shows(op)
      /\ UNCHANGED <<dialog, group, role, members, orphaned>>
      BY DEF Press, Managed
<1>2. group' \in Group
      BY <1>1 DEF GroupsInv, GroupsTypeOK, Managed
<1>3. /\ requests' \subseteq RequestType /\ busy' \in BOOLEAN /\ muddled' \in BOOLEAN
      /\ ~muddled' => /\ ~muddled /\ ~busy /\ busy'
                      /\ requests' = {[op |-> op, of |-> group', at |-> "asked", got |-> "none"]}
      BY <1>1, <1>2, RequestAlone
<1>4. GroupsTypeOK'
      BY <1>1, <1>3 DEF GroupsInv, GroupsTypeOK
<1>5. ASSUME ~muddled', op = "leave" PROVE role[group] # "owner"
      BY <1>1, <1>3, <1>5 DEF Shows, GroupsInv, Clear, ListKnowsOwner
<1>6. ASSUME ~muddled' PROVE Clear'
  <2> DEFINE new == [op |-> op, of |-> group', at |-> "asked", got |-> "none"]
  <2>1. ~muddled /\ busy' /\ requests' = {new}
        BY <1>3, <1>6
  <2>2. new.op = op /\ new.of = group' /\ new.at = "asked"
        OBVIOUS
  <2> HIDE DEF new
  <2>3. OneAtATime' /\ OfTheManaged' /\ AnswersKnowOwner' /\ ListKnowsOwner' /\ LeaversOwnNothing'
        BY <1>1, <1>5, <1>6, <2>1, <2>2
           DEF OneAtATime, OfTheManaged, AnswersKnowOwner, ListKnowsOwner, LeaversOwnNothing
  <2> QED BY <1>1, <2>1, <2>3 DEF GroupsInv, Clear
<1> QED BY <1>4, <1>6 DEF GroupsInv

(* The server: a role is only ever lost.                                   *)
LEMMA ServeKeeps ==
    ASSUME GroupsInv, NEW x \in requests, Serve(x) PROVE GroupsInv'
<1> DEFINE y == [x EXCEPT !.at = "served", !.got = role[x.of]]
<1>1. /\ x.at = "asked" /\ requests' = (requests \ {x}) \cup {y}
      /\ role' = IF x.op \in {"leave", "delete"} THEN [role EXCEPT ![x.of] = "none"] ELSE role
      /\ orphaned' = (orphaned \/ (x.op = "leave" /\ role[x.of] = "owner"))
      /\ UNCHANGED <<dialog, group, members, busy, muddled>>
      BY DEF Serve
<1>2. x \in RequestType /\ role \in [Group -> Role]
      BY DEF GroupsInv, GroupsTypeOK
<1>3. y \in RequestType /\ y.op = x.op /\ y.of = x.of /\ y.at = "served" /\ y.got = role[x.of]
      BY <1>2 DEF RequestType
<1>4. role' \in [Group -> Role] /\ \A g \in Group : role'[g] = "owner" => role[g] = "owner"
      BY <1>1, <1>2 DEF Role, RequestType
<1>5. GroupsTypeOK'
      BY <1>1, <1>3, <1>4 DEF GroupsInv, GroupsTypeOK
<1>6. ASSUME ~muddled PROVE Clear'
  <2>1. busy /\ requests = {x} /\ requests' = {y} /\ x.of \in Group
        BY <1>1, <1>2, <1>6 DEF GroupsInv, Clear, OneAtATime, RequestType
  <2>2. Managed' = Managed
        BY <1>1 DEF Managed
  <2>3. ~orphaned'
        BY <1>1, <1>6 DEF GroupsInv, Clear, LeaversOwnNothing
  <2>4. OneAtATime' /\ OfTheManaged' /\ AnswersKnowOwner' /\ ListKnowsOwner' /\ LeaversOwnNothing'
        BY <1>1, <1>3, <1>4, <1>6, <2>1, <2>2
           DEF GroupsInv, Clear, OneAtATime, OfTheManaged, AnswersKnowOwner, ListKnowsOwner,
               LeaversOwnNothing
  <2> QED BY <2>3, <2>4 DEF Clear
<1> QED BY <1>1, <1>5, <1>6 DEF GroupsInv

(* Answers.  One that leaves the page without a room needs no list.        *)
LEMMA AnswerKeeps ==
    ASSUME GroupsInv, NEW x \in requests,
           MembersLoaded(x) \/ ListedAgain(x) \/ GroupChanged(x)
    PROVE  GroupsInv'
<1>1. /\ x.at = "served" /\ requests' = requests \ {x} /\ ~busy' /\ busy' \in BOOLEAN
      /\ UNCHANGED <<muddled, role, orphaned>>
      BY DEF MembersLoaded, ListedAgain, GroupChanged, Answer
<1>2. x \in RequestType
      BY DEF GroupsInv, GroupsTypeOK
<1>3. \/ members' = [of |-> x.of, role |-> x.got] /\ UNCHANGED <<dialog, group>>
      \/ ~Managed' /\ group' = NoGroup /\ dialog' = FALSE
         /\ (members' = members \/ members' = [of |-> x.of, role |-> x.got])
      BY DEF MembersLoaded, ListedAgain, GroupChanged, Listed, Updated, Managed
<1> DEFINE list == [of |-> x.of, role |-> x.got]
<1>4. list \in [of : Group \cup {NoGroup}, role : Role] /\ list.role = x.got
      BY <1>2 DEF RequestType
<1>5. members' \in [of : Group \cup {NoGroup}, role : Role]
      /\ group' \in Group \cup {NoGroup} /\ dialog' \in BOOLEAN
  <2>1. members' = list \/ members' = members
        BY <1>3
  <2> HIDE DEF list
  <2> QED BY <1>3, <1>4, <2>1 DEF GroupsInv, GroupsTypeOK
<1>6. GroupsTypeOK'
      BY <1>1, <1>5 DEF GroupsInv, GroupsTypeOK
<1>7. ASSUME ~muddled PROVE Clear'
  <2>1. requests = {x} /\ requests' = {}
        BY <1>1, <1>7 DEF GroupsInv, Clear, OneAtATime
  <2>2. ASSUME members' = list, UNCHANGED <<dialog, group>> PROVE ListKnowsOwner'
    <3>1. ASSUME Managed, role[group] = "owner" PROVE x.got = "owner"
          BY <1>1, <1>7, <3>1 DEF GroupsInv, Clear, OfTheManaged, AnswersKnowOwner
    <3>2. members'.role = x.got /\ role' = role /\ group' = group /\ dialog' = dialog
          BY <1>1, <1>4, <2>2
    <3> QED BY <3>1, <3>2 DEF ListKnowsOwner, Managed, IsOwner
  <2>3. ASSUME ~Managed' PROVE ListKnowsOwner'
        BY <2>3 DEF ListKnowsOwner
  <2>4. ListKnowsOwner'
        BY <1>3, <2>2, <2>3
  <2> QED BY <1>1, <1>7, <2>1, <2>4
             DEF GroupsInv, Clear, OneAtATime, OfTheManaged, AnswersKnowOwner, LeaversOwnNothing
<1> QED BY <1>1, <1>6, <1>7 DEF GroupsInv

(* Members that were added or removed: the list is asked for again.        *)
LEMMA AgainKeeps ==
    ASSUME GroupsInv, NEW x \in requests, MembersChanged(x) PROVE GroupsInv'
<1> DEFINE y == [x EXCEPT !.op = IF x.op = "add" THEN "added" ELSE "removed", !.at = "asked"]
<1>1. /\ requests' = (requests \ {x}) \cup {y} /\ busy' = TRUE
      /\ UNCHANGED <<dialog, group, role, members, orphaned, muddled>>
      BY DEF MembersChanged
<1>2. x \in RequestType
      BY DEF GroupsInv, GroupsTypeOK
<1>3. y \in RequestType /\ y.of = x.of /\ y.at = "asked" /\ y.op # "leave"
      BY <1>2 DEF RequestType
<1>4. GroupsTypeOK'
      BY <1>1, <1>3 DEF GroupsInv, GroupsTypeOK
<1>5. ASSUME ~muddled PROVE Clear'
  <2>1. requests' = {y}
        BY <1>1, <1>5 DEF GroupsInv, Clear, OneAtATime
  <2> QED BY <1>1, <1>3, <1>5, <2>1
             DEF GroupsInv, Clear, OneAtATime, OfTheManaged, AnswersKnowOwner, ListKnowsOwner,
                 LeaversOwnNothing, Managed
<1> QED BY <1>1, <1>4, <1>5 DEF GroupsInv

LEMMA GroupsStep == GroupsInv /\ [GroupsNext]_groupVars => GroupsInv'
<1> SUFFICES ASSUME GroupsInv, [GroupsNext]_groupVars PROVE GroupsInv'
    OBVIOUS
<1>1. CASE Manage
  <2>1. group' \in Group /\ dialog' \in BOOLEAN
        BY <1>1 DEF Manage, GroupsInv, GroupsTypeOK
  <2> QED BY <1>1, <2>1, LoadKeeps DEF Manage
<1>2. CASE CloseManage
      BY <1>2 DEF CloseManage, GroupsInv, GroupsTypeOK, Clear, OneAtATime, OfTheManaged,
                  AnswersKnowOwner, ListKnowsOwner, LeaversOwnNothing, Managed
<1>3. ASSUME NEW g \in Group \cup {NoGroup}, Enter(g) PROVE GroupsInv'
  <2>1. CASE dialog /\ g # NoGroup
    <3>1. group' \in Group /\ dialog' \in BOOLEAN /\ Load
          BY <1>3, <2>1 DEF Enter, GroupsInv, GroupsTypeOK
    <3> QED BY <1>3, <3>1, LoadKeeps DEF Enter
  <2>2. CASE ~(dialog /\ g # NoGroup)
        BY <1>3, <2>2 DEF Enter, GroupsInv, GroupsTypeOK, Clear, OneAtATime, OfTheManaged,
                          AnswersKnowOwner, ListKnowsOwner, LeaversOwnNothing, Managed
  <2> QED BY <2>1, <2>2
<1>4. ASSUME NEW g \in Group, Removed(g) PROVE GroupsInv'
  <2>1. role' \in [Group -> Role] /\ \A h \in Group : role'[h] = "owner" => role[h] = "owner"
        BY <1>4 DEF Removed, GroupsInv, GroupsTypeOK, Role
  <2>2. GroupsTypeOK'
        BY <1>4, <2>1 DEF Removed, GroupsInv, GroupsTypeOK
  <2>3. \A x \in requests : x.of \in Group
        BY DEF GroupsInv, GroupsTypeOK, RequestType
  <2> QED BY <1>4, <2>1, <2>2, <2>3
             DEF Removed, GroupsInv, GroupsTypeOK, Clear, OneAtATime, OfTheManaged,
                 AnswersKnowOwner, ListKnowsOwner, LeaversOwnNothing, Managed, IsOwner
<1>5. ASSUME NEW op \in {"add", "remove", "update", "delete", "leave"}, Press(op) PROVE GroupsInv'
      BY <1>5, PressKeeps
<1>6. ASSUME NEW x \in requests, Fails(x) PROVE GroupsInv'
      BY <1>6 DEF Fails, Updated, GroupsInv, GroupsTypeOK
<1>7. ASSUME NEW x \in requests,
             Serve(x) \/ MembersLoaded(x) \/ MembersChanged(x) \/ ListedAgain(x) \/ GroupChanged(x)
      PROVE  GroupsInv'
      BY <1>7, ServeKeeps, AnswerKeeps, AgainKeeps
<1>8. CASE UNCHANGED groupVars
      BY <1>8 DEF groupVars, GroupsInv, GroupsTypeOK, Clear, OneAtATime, OfTheManaged,
                  AnswersKnowOwner, ListKnowsOwner, LeaversOwnNothing, Managed, IsOwner
<1> QED BY <1>1, <1>2, <1>3, <1>4, <1>5, <1>6, <1>7, <1>8 DEF GroupsNext

(* An owner leaves a group only after a request failed or overlapped       *)
(* another: the button of leaveGroup is hidden from owners, by the list.   *)
THEOREM OwnerCorrect == GroupsSpec => []OwnerStays
<1>1. GroupsInv => OwnerStays
      BY DEF GroupsInv, GroupsTypeOK, Clear, OwnerStays
<1> QED BY <1>1, GroupsInitial, GroupsStep, PTL DEF GroupsSpec

----------------------------------------------------------------------------
(* The field for users of the dialogs: NewRoomModal.jsx and                *)
(* GroupManagementModal.jsx.                                               *)

PickerTypeOK ==
    /\ query \in Queries /\ waiting \in BOOLEAN /\ crossed \in BOOLEAN
    /\ searches \in [Queries -> Nat]
    /\ results \in Queries \cup {Nothing}

(* Unless the half second runs, whatever is searched for is the query.     *)
AsksForTheQuery == ~crossed /\ ~waiting => Underway \subseteq {query}

PickerInv == PickerTypeOK /\ AsksForTheQuery /\ PickedFit

LEMMA AskedFor ==
    ASSUME PickerTypeOK, NEW q \in Queries, Asks(q)
    PROVE  searches' \in [Queries -> Nat] /\ Underway' \subseteq Underway \cup {q} /\ q \in Underway'
BY DEF PickerTypeOK, Asks, Underway

LEMMA EndedOf ==
    ASSUME PickerTypeOK, NEW q \in Queries, Ends(q)
    PROVE  searches' \in [Queries -> Nat] /\ Underway' \subseteq Underway
BY DEF PickerTypeOK, Ends, Underway

LEMMA EmptiedFits == ASSUME PickerInv, Emptied PROVE PickerInv'
<1>1. Blank \in Queries /\ Underway' = Underway
      BY DEF Queries, Underway, Emptied
<1> QED BY <1>1 DEF PickerInv, PickerTypeOK, AsksForTheQuery, PickedFit, Emptied

LEMMA PickerStep == PickerInv /\ [PickerNext]_pickerVars => PickerInv'
<1> SUFFICES ASSUME PickerInv, [PickerNext]_pickerVars PROVE PickerInv'
    OBVIOUS
<1> USE DEF PickerInv, PickerTypeOK, AsksForTheQuery, PickedFit
<1>1. CASE UNCHANGED searched
  <2>1. Underway' = Underway
        BY <1>1 DEF searched, Underway
  <2> QED BY <1>1, <2>1 DEF searched
<1>2. ASSUME NEW q \in Queries, Type(q) PROVE PickerInv'
      BY <1>2 DEF Type
<1>3. CASE SearchDue
  <2>1. CASE query \in Word /\ Asks(query) /\ UNCHANGED results
        BY <1>3, <2>1, AskedFor DEF SearchDue
  <2>2. CASE query = Blank /\ results' = Cleared /\ UNCHANGED <<searches, searching>>
    <3>1. Underway' = Underway
          BY <2>2 DEF Underway
    <3> QED BY <1>3, <2>2, <3>1 DEF SearchDue, Cleared
  <2> QED BY <1>3, <2>1, <2>2 DEF SearchDue
<1>4. CASE Focus
  <2>1. CASE results = Nothing /\ ~searching
    <3>1. Blank \in Queries
          BY DEF Queries
    <3> QED BY <1>4, <2>1, <3>1, AskedFor DEF Focus
  <2>2. CASE ~(results = Nothing /\ ~searching)
    <3>1. Underway' = Underway
          BY <1>4, <2>2 DEF Focus, Underway
    <3> QED BY <1>4, <2>2, <3>1 DEF Focus
  <2> QED BY <2>1, <2>2
<1>5. ASSUME NEW q \in Queries, SearchFails(q) PROVE PickerInv'
      BY <1>5, EndedOf DEF SearchFails, Ends
<1>6. ASSUME NEW q \in Queries, NEW found \in BOOLEAN, Searched(q, found) PROVE PickerInv'
      BY <1>6, EndedOf DEF Searched, Ends
<1>7. ASSUME Emptied PROVE PickerInv'
      BY <1>7, EmptiedFits
<1> QED BY <1>1, <1>2, <1>3, <1>4, <1>5, <1>6, <1>7
           DEF PickerNext, pickerVars, Choose, Unchoose, OpenDialog, CloseDialog, EmptiedAgain,
               Submit, Created, NotCreated

LEMMA PickerStarts == ASSUME PickerInit PROVE PickerInv
<1>1. Blank \in Queries /\ searches \in [Queries -> Nat]
      BY DEF PickerInit, Queries
<1> QED BY <1>1 DEF PickerInit, PickerInv, PickerTypeOK, AsksForTheQuery, PickedFit

(* When no key and no search is on its way, the users a dialog lists are   *)
(* those its query asks for, unless a search failed or was overtaken, for  *)
(* any words and any number of searches: searchUsers of NewRoomModal.jsx   *)
(* and GroupManagementModal.jsx.                                           *)
THEOREM PickedCorrect == PickerSpec => []PickedFit
<1>1. PickerInv => PickedFit
      BY DEF PickerInv
<1> QED BY <1>1, PickerStarts, PickerStep, PTL DEF PickerSpec

----------------------------------------------------------------------------
(* The search in the list of rooms: ChatRoomList.jsx.                      *)

SearchMode  == {"compose", "global"}
InquiryType == [mode : SearchMode, term : Term \cup {NoTerm}, late : BOOLEAN]

SearchTypeOK ==
    /\ inquiries \in Seq(InquiryType)
    /\ searchMode \in SearchMode \cup {"none"}
    /\ searchTerm \in Term \cup {NoTerm}
    /\ suggesting \in BOOLEAN
    /\ amiss \subseteq SearchMode

(* The last search of its mode, and whether all of a mode are overtaken.   *)
IsLast(i)   == \A k \in DOMAIN inquiries : inquiries[k].mode = inquiries[i].mode => k <= i
AllLate(m)  == \A k \in DOMAIN inquiries : inquiries[k].mode = m => inquiries[k].late
Composing   == searchMode = "compose" /\ suggesting
Sought      == IF searchMode = "global" /\ searchTerm # NoTerm THEN searchTerm ELSE NoResult

(* A search that is overtaken was made before one that is.                 *)
LateFirst ==
    \A j, k \in DOMAIN inquiries :
        j < k /\ inquiries[j].mode = inquiries[k].mode /\ inquiries[k].late => inquiries[j].late

(* The last search is for the text of the field, unless it is late.        *)
LastIsSought ==
    \A i \in DOMAIN inquiries :
        ~inquiries[i].late /\ IsLast(i) =>
            /\ inquiries[i].mode = "compose" /\ Composing => inquiries[i].term = searchTerm
            /\ inquiries[i].mode = "global" =>
                   searchMode = "global" /\ searchTerm # NoTerm /\ inquiries[i].term = searchTerm

(* When nothing that counts is under way, what was sought is listed.       *)
ListedIsSought ==
    /\ AllLate("compose") /\ Composing /\ "compose" \notin amiss => users = searchTerm
    /\ AllLate("global") /\ "global" \notin amiss => everything = Sought

(* A field that is not shown is empty.                                     *)
HiddenIsEmpty == ~FieldShown => searchTerm = NoTerm

SearchInv == SearchTypeOK /\ LateFirst /\ LastIsSought /\ ListedIsSought /\ HiddenIsEmpty

LEMMA SearchListType ==
    ASSUME SearchTypeOK
    PROVE  /\ Len(inquiries) \in Nat /\ DOMAIN inquiries = 1..Len(inquiries)
           /\ \A i \in DOMAIN inquiries : inquiries[i] \in InquiryType
BY LenProperties, ElementOfSeq DEF SearchTypeOK

LEMMA PassedKeeps ==
    ASSUME NEW q \in InquiryType, NEW m \in SearchMode
    PROVE  /\ Passed(q, m) \in InquiryType
           /\ Passed(q, m).mode = q.mode /\ Passed(q, m).term = q.term
           /\ Passed(q, m).late <=> q.late \/ q.mode = m
BY DEF Passed, InquiryType

(* A search more, after the others.                                        *)
LEMMA InquireKeeps ==
    ASSUME SearchInv, NEW m \in SearchMode, NEW t \in Term \cup {NoTerm}, Inquire(m, t)
    PROVE  /\ inquiries' \in Seq(InquiryType)
           /\ DOMAIN inquiries' = 1..(Len(inquiries) + 1)
           /\ inquiries'[Len(inquiries) + 1] = Inquiry(m, t)
           /\ \A k \in DOMAIN inquiries : inquiries'[k] = inquiries[k]
           /\ LateFirst'
           /\ ~AllLate(m)' 
           /\ \A n \in SearchMode : n # m => AllLate(n)' = AllLate(n)
           /\ \A i \in DOMAIN inquiries' : IsLast(i)' =>
                 \/ inquiries'[i] = Inquiry(m, t)
                 \/ i \in DOMAIN inquiries /\ inquiries'[i] = inquiries[i] /\ IsLast(i)
                    /\ inquiries[i].mode # m
<1> DEFINE n == Len(inquiries)
           x == Inquiry(m, t)
<1>1. /\ n \in Nat /\ DOMAIN inquiries = 1..n
      /\ \A i \in DOMAIN inquiries : inquiries[i] \in InquiryType
      BY SearchListType DEF SearchInv
<1>2. x \in InquiryType /\ x.mode = m /\ x.late = FALSE
      BY DEF Inquiry, InquiryType
<1>3. /\ inquiries' \in Seq(InquiryType) /\ DOMAIN inquiries' = 1..(n + 1)
      /\ inquiries'[n + 1] = x /\ \A k \in 1..n : inquiries'[k] = inquiries[k]
      BY <1>1, <1>2, AppendProperties, LenProperties DEF Inquire, SearchInv, SearchTypeOK
<1> HIDE DEF n, x
<1>4. LateFirst'
      BY <1>1, <1>2, <1>3 DEF LateFirst, SearchInv
<1>5. ~AllLate(m)'
      BY <1>1, <1>2, <1>3 DEF AllLate
<1>6. ASSUME NEW o \in SearchMode, o # m PROVE AllLate(o)' = AllLate(o)
      BY <1>1, <1>2, <1>3, <1>6 DEF AllLate
<1>7. ASSUME NEW i \in DOMAIN inquiries', IsLast(i)'
      PROVE  \/ inquiries'[i] = x
             \/ i \in DOMAIN inquiries /\ inquiries'[i] = inquiries[i] /\ IsLast(i)
                /\ inquiries[i].mode # m
      BY <1>1, <1>2, <1>3, <1>7 DEF IsLast
<1> QED BY <1>1, <1>3, <1>4, <1>5, <1>6, <1>7 DEF n, x

(* A list that is cleared overtakes the searches of its mode.              *)
LEMMA OvertakenKeeps ==
    ASSUME SearchInv, NEW m \in SearchMode, inquiries' = Overtaken(inquiries, m)
    PROVE  /\ inquiries' \in Seq(InquiryType) /\ DOMAIN inquiries' = DOMAIN inquiries
           /\ LateFirst' /\ AllLate(m)'
           /\ \A n \in SearchMode : n # m => AllLate(n)' = AllLate(n)
           /\ \A i \in DOMAIN inquiries :
                 /\ inquiries'[i].mode = inquiries[i].mode /\ inquiries'[i].term = inquiries[i].term
                 /\ ~inquiries'[i].late <=> ~inquiries[i].late /\ inquiries[i].mode # m
                 /\ IsLast(i)' <=> IsLast(i)
<1>1. /\ Len(inquiries) \in Nat /\ DOMAIN inquiries = 1..Len(inquiries)
      /\ \A i \in DOMAIN inquiries : inquiries[i] \in InquiryType
      BY SearchListType DEF SearchInv
<1>2. /\ DOMAIN inquiries' = DOMAIN inquiries
      /\ \A i \in DOMAIN inquiries : inquiries'[i] = Passed(inquiries[i], m)
      BY DEF Overtaken
<1>3. \A i \in DOMAIN inquiries :
         /\ inquiries'[i] \in InquiryType
         /\ inquiries'[i].mode = inquiries[i].mode /\ inquiries'[i].term = inquiries[i].term
         /\ inquiries'[i].late <=> inquiries[i].late \/ inquiries[i].mode = m
      BY <1>1, <1>2, PassedKeeps
<1>4. inquiries' \in Seq(InquiryType)
      BY <1>1, <1>2, <1>3, SeqDef DEF Overtaken
<1>5. LateFirst'
      BY <1>1, <1>2, <1>3 DEF LateFirst, SearchInv
<1>6. AllLate(m)' /\ \A n \in SearchMode : n # m => AllLate(n)' = AllLate(n)
      BY <1>2, <1>3 DEF AllLate
<1>7. \A i \in DOMAIN inquiries : IsLast(i)' <=> IsLast(i)
      BY <1>2, <1>3 DEF IsLast
<1> QED BY <1>2, <1>3, <1>4, <1>5, <1>6, <1>7

(* One that is over goes, and overtakes those made before it.              *)
LEMMA OverKeeps ==
    ASSUME SearchInv, NEW i \in DOMAIN inquiries, inquiries' = Over(i),
           NEW m, m = inquiries[i].mode
    PROVE  /\ inquiries' \in Seq(InquiryType)
           /\ LateFirst'
           /\ \A n \in SearchMode : n # m => AllLate(n)' = AllLate(n)
           /\ AllLate(m)' /\ ~inquiries[i].late => IsLast(i)
           /\ \A j \in DOMAIN inquiries' : ~inquiries'[j].late /\ IsLast(j)' =>
                 \E k \in DOMAIN inquiries :
                    /\ inquiries[k].mode = inquiries'[j].mode /\ inquiries[k].term = inquiries'[j].term
                    /\ ~inquiries[k].late /\ IsLast(k)
<1> DEFINE n == Len(inquiries)
           old(j) == IF j < i THEN j ELSE j + 1
           new(k) == IF k < i THEN k ELSE k - 1
<1>1. /\ n \in Nat /\ DOMAIN inquiries = 1..n /\ n >= 1
      /\ \A k \in 1..n : inquiries[k] \in InquiryType
      BY SearchListType DEF SearchInv
<1>2. m \in SearchMode
      BY <1>1 DEF InquiryType
<1>3. /\ DOMAIN inquiries' = 1..(n - 1)
      /\ \A j \in 1..(n - 1) : inquiries'[j] = IF j < i THEN Passed(inquiries[j], m) ELSE inquiries[j + 1]
      BY DEF Over
<1>4. \A j \in 1..(n - 1) :
         /\ old(j) \in 1..n /\ old(j) # i /\ inquiries'[j] \in InquiryType
         /\ inquiries'[j].mode = inquiries[old(j)].mode /\ inquiries'[j].term = inquiries[old(j)].term
         /\ inquiries'[j].late <=> inquiries[old(j)].late \/ (j < i /\ inquiries[old(j)].mode = m)
  <2> SUFFICES ASSUME NEW j \in 1..(n - 1)
               PROVE  /\ old(j) \in 1..n /\ old(j) # i /\ inquiries'[j] \in InquiryType
                      /\ inquiries'[j].mode = inquiries[old(j)].mode
                      /\ inquiries'[j].term = inquiries[old(j)].term
                      /\ inquiries'[j].late <=> inquiries[old(j)].late \/ (j < i /\ inquiries[old(j)].mode = m)
      OBVIOUS
  <2>1. old(j) \in 1..n /\ old(j) # i /\ inquiries[old(j)] \in InquiryType
        BY <1>1
  <2>2. CASE j < i
        BY <1>2, <1>3, <2>1, <2>2, PassedKeeps
  <2>3. CASE ~(j < i)
        BY <1>3, <2>1, <2>3
  <2> QED BY <2>1, <2>2, <2>3
<1>5. \A k \in 1..n : k # i => new(k) \in 1..(n - 1) /\ old(new(k)) = k /\ (new(k) < i <=> k < i)
      BY <1>1
<1>6. \A j, k \in 1..(n - 1) : j < k => old(j) < old(k)
      BY <1>1
<1>7. \A j, k \in 1..n : j # i /\ k # i /\ j < k => new(j) < new(k)
      BY <1>1
<1>8. inquiries' \in Seq(InquiryType)
  <2>1. n - 1 \in Nat
        BY <1>1
  <2> QED BY <1>4, <2>1, SeqDef DEF Over
<1>9. DOMAIN inquiries = 1..n
      BY <1>1
<1> HIDE DEF n, old, new
<1>10. LateFirst'
  <2> SUFFICES ASSUME NEW j \in 1..(n - 1), NEW k \in 1..(n - 1), j < k,
                      inquiries'[j].mode = inquiries'[k].mode, inquiries'[k].late
               PROVE  inquiries'[j].late
      BY <1>3 DEF LateFirst
  <2>1. old(j) < old(k) /\ old(j) \in 1..n /\ old(k) \in 1..n
        BY <1>4, <1>6
  <2>2. inquiries[old(j)].mode = inquiries[old(k)].mode
        BY <1>4
  <2>3. CASE inquiries[old(k)].late
    <3>1. inquiries[old(j)].late
          BY <1>9, <2>1, <2>2, <2>3 DEF SearchInv, LateFirst
    <3> QED BY <1>4, <3>1
  <2>4. CASE k < i /\ inquiries[old(k)].mode = m
    <3>1. j < i
          BY <1>1, <2>4
    <3> QED BY <1>4, <2>2, <2>4, <3>1
  <2> QED BY <1>4, <2>3, <2>4
<1>11. ASSUME NEW o \in SearchMode, o # m PROVE AllLate(o)' = AllLate(o)
  <2>1. \A k \in 1..n : inquiries[k].mode = o => k # i
        BY <1>11
  <2>2. \A k \in 1..n : inquiries[k].mode = o =>
            new(k) \in 1..(n - 1) /\ inquiries'[new(k)].mode = o
            /\ (inquiries'[new(k)].late <=> inquiries[k].late)
        BY <1>4, <1>5, <1>11, <2>1
  <2>3. \A j \in 1..(n - 1) : inquiries'[j].mode = o =>
            inquiries[old(j)].mode = o /\ old(j) \in 1..n
            /\ (inquiries'[j].late <=> inquiries[old(j)].late)
        BY <1>4, <1>11
  <2> QED BY <1>3, <1>9, <2>2, <2>3 DEF AllLate
<1>12. ASSUME AllLate(m)', ~inquiries[i].late PROVE IsLast(i)
  <2> SUFFICES ASSUME NEW k \in 1..n, inquiries[k].mode = m, k > i PROVE FALSE
      BY <1>1, <1>9 DEF IsLast
  <2>1. k # i /\ ~(k < i) /\ i \in 1..n
        BY <1>1, <1>9
  <2>2. new(k) \in 1..(n - 1) /\ inquiries'[new(k)].mode = m
        /\ (inquiries'[new(k)].late <=> inquiries[k].late)
        BY <1>4, <1>5, <2>1
  <2>3. inquiries[k].late
        BY <1>3, <1>12, <2>2 DEF AllLate
  <2>4. inquiries[i].late
        BY <1>9, <2>1, <2>3 DEF SearchInv, LateFirst
  <2> QED BY <1>12, <2>4
<1>13. ASSUME NEW j \in 1..(n - 1), ~inquiries'[j].late, IsLast(j)'
       PROVE \E k \in DOMAIN inquiries :
                /\ inquiries[k].mode = inquiries'[j].mode /\ inquiries[k].term = inquiries'[j].term
                /\ ~inquiries[k].late /\ IsLast(k)
  <2> DEFINE p == old(j)
  <2>1. /\ p \in 1..n /\ p # i
        /\ inquiries[p].mode = inquiries'[j].mode /\ inquiries[p].term = inquiries'[j].term
        /\ ~inquiries[p].late /\ ~(j < i /\ inquiries[p].mode = m)
        BY <1>4, <1>13
  <2>2. p < i <=> j < i
        BY <1>1 DEF old
  <2>3. new(p) = j
        BY <1>1 DEF old, new
  <2> HIDE DEF p
  <2>4. ASSUME NEW k \in 1..n, inquiries[k].mode = inquiries[p].mode, k > p PROVE FALSE
    <3>1. k # i
      <4>1. CASE k = i
        <5>1. p < i
              BY <2>4, <4>1
        <5> QED BY <2>1, <2>2, <2>4, <4>1, <5>1
      <4> QED BY <4>1
    <3>2. new(k) \in 1..(n - 1) /\ inquiries'[new(k)].mode = inquiries'[j].mode
          BY <1>4, <1>5, <2>1, <2>4, <3>1
    <3>3. j < new(k)
          BY <1>7, <2>1, <2>3, <2>4, <3>1
    <3>4. new(k) <= j
          BY <1>3, <1>13, <3>2 DEF IsLast
    <3> QED BY <1>1, <3>2, <3>3, <3>4
  <2>5. IsLast(p)
        BY <1>1, <1>9, <2>1, <2>4 DEF IsLast
  <2> QED BY <1>9, <2>1, <2>5
<1> QED BY <1>3, <1>8, <1>10, <1>11, <1>12, <1>13

LEMMA AnsweredKeeps ==
    ASSUME SearchInv, NEW i \in DOMAIN inquiries, Found(i) \/ FindFails(i) PROVE SearchInv'
<1> DEFINE x == inquiries[i]
           m == inquiries[i].mode
<1>1. x \in InquiryType /\ m \in SearchMode
      BY SearchListType DEF SearchInv, InquiryType
<1>2. /\ inquiries' = Over(i)
      /\ UNCHANGED <<searchMode, searchTerm, suggesting>>
      /\ amiss' \subseteq SearchMode
      /\ \A n \in SearchMode : n # m => (n \in amiss' <=> n \in amiss)
      /\ m \notin amiss' => /\ ~x.late
                            /\ m = "compose" => users' = x.term
                            /\ m = "global" => everything' = x.term
      /\ m # "compose" => users' = users
      /\ m # "global" => everything' = everything
      BY <1>1 DEF Found, FindFails, Lists, SearchInv, SearchTypeOK, SearchMode
<1>3. /\ inquiries' \in Seq(InquiryType)
      /\ LateFirst'
      /\ \A n \in SearchMode : n # m => AllLate(n)' = AllLate(n)
      /\ \A j \in DOMAIN inquiries' : ~inquiries'[j].late /\ IsLast(j)' =>
            \E k \in DOMAIN inquiries :
               /\ inquiries[k].mode = inquiries'[j].mode /\ inquiries[k].term = inquiries'[j].term
               /\ ~inquiries[k].late /\ IsLast(k)
  <2> QED BY <1>1, <1>2, OverKeeps
<1>4. ASSUME NEW n \in SearchMode, n = m, AllLate(n)', n \notin amiss'
      PROVE  /\ IsLast(i) /\ ~x.late
             /\ m = "compose" => users' = x.term
             /\ m = "global" => everything' = x.term
      BY <1>1, <1>2, <1>4, OverKeeps
<1>5. SearchTypeOK' /\ HiddenIsEmpty'
      BY <1>2, <1>3 DEF SearchInv, SearchTypeOK, HiddenIsEmpty, FieldShown
<1>6. LastIsSought'
  <2> SUFFICES ASSUME NEW j \in DOMAIN inquiries', ~inquiries'[j].late, IsLast(j)'
               PROVE  /\ inquiries'[j].mode = "compose" /\ Composing' => inquiries'[j].term = searchTerm'
                      /\ inquiries'[j].mode = "global" =>
                             searchMode' = "global" /\ searchTerm' # NoTerm /\ inquiries'[j].term = searchTerm'
      BY DEF LastIsSought
  <2>1. PICK k \in DOMAIN inquiries :
               /\ inquiries[k].mode = inquiries'[j].mode /\ inquiries[k].term = inquiries'[j].term
               /\ ~inquiries[k].late /\ IsLast(k)
        BY <1>3
  <2> QED BY <1>2, <2>1 DEF SearchInv, LastIsSought, Composing
<1>7. ListedIsSought'
  <2>1. ASSUME AllLate("compose")', Composing', "compose" \notin amiss' PROVE users' = searchTerm'
    <3>1. CASE m = "compose"
      <4>1. IsLast(i) /\ ~x.late /\ users' = x.term
            BY <1>1, <1>4, <2>1, <3>1
      <4>2. x.term = searchTerm
            BY <1>2, <2>1, <3>1, <4>1 DEF SearchInv, LastIsSought, Composing
      <4> QED BY <1>2, <4>1, <4>2
    <3>2. CASE m # "compose"
          BY <1>2, <1>3, <2>1, <3>2 DEF SearchInv, ListedIsSought, Composing, SearchMode
    <3> QED BY <3>1, <3>2
  <2>2. ASSUME AllLate("global")', "global" \notin amiss' PROVE everything' = Sought'
    <3>1. CASE m = "global"
      <4>1. IsLast(i) /\ ~x.late /\ everything' = x.term
            BY <1>1, <1>4, <2>2, <3>1
      <4>2. searchMode = "global" /\ searchTerm # NoTerm /\ x.term = searchTerm
            BY <3>1, <4>1 DEF SearchInv, LastIsSought
      <4> QED BY <1>2, <4>1, <4>2 DEF Sought
    <3>2. CASE m # "global"
          BY <1>2, <1>3, <2>2, <3>2 DEF SearchInv, ListedIsSought, Sought, SearchMode
    <3> QED BY <3>1, <3>2
  <2> QED BY <2>1, <2>2 DEF ListedIsSought
<1> QED BY <1>3, <1>5, <1>6, <1>7 DEF SearchInv

LEMMA SoughtLast ==
    ASSUME SearchInv, NEW m \in SearchMode, NEW t \in Term \cup {NoTerm}, Inquire(m, t),
           searchTerm' = t,
           m = "compose" => searchMode # "global",
           m = "global" => searchMode' = "global" /\ t # NoTerm
    PROVE  LastIsSought'
<1> SUFFICES ASSUME NEW i \in DOMAIN inquiries', ~inquiries'[i].late, IsLast(i)'
             PROVE  /\ inquiries'[i].mode = "compose" /\ Composing' => inquiries'[i].term = searchTerm'
                    /\ inquiries'[i].mode = "global" =>
                           searchMode' = "global" /\ searchTerm' # NoTerm /\ inquiries'[i].term = searchTerm'
    BY DEF LastIsSought
<1>1. CASE inquiries'[i] = Inquiry(m, t)
      BY <1>1 DEF Inquiry
<1>2. CASE i \in DOMAIN inquiries /\ inquiries'[i] = inquiries[i] /\ IsLast(i) /\ inquiries[i].mode # m
  <2>1. inquiries[i].mode \in SearchMode
        BY <1>2, SearchListType DEF SearchInv, InquiryType
  <2>2. inquiries[i].mode = "global" => searchMode = "global"
        BY <1>2 DEF SearchInv, LastIsSought
  <2> QED BY <1>2, <2>1, <2>2 DEF SearchMode, Composing
<1> QED BY <1>1, <1>2, InquireKeeps

LEMMA ActivateKeeps ==
    ASSUME SearchInv, NEW mode \in SearchMode, Activate(mode) PROVE SearchInv'
<1> USE RoomSearchAssumption
<1>1. searchTerm = NoTerm /\ searchMode = "none"
      BY DEF SearchInv, HiddenIsEmpty, FieldShown, Activate
<1>2. CASE mode = "compose"
  <2>1. Inquire("compose", searchTerm) /\ searchTerm \in Term \cup {NoTerm} /\ "compose" \in SearchMode
        BY <1>2 DEF Activate, SearchInv, SearchTypeOK, SearchMode
  <2>2. SearchTypeOK' /\ HiddenIsEmpty' /\ LateFirst'
        BY <1>2, <2>1, InquireKeeps DEF Activate, SearchInv, SearchTypeOK, HiddenIsEmpty, SearchMode
  <2>3. LastIsSought'
        BY <1>1, <1>2, <2>1, SoughtLast DEF Activate
  <2>4. ~AllLate("compose")' /\ AllLate("global")' = AllLate("global")
        BY <2>1, InquireKeeps DEF SearchMode
  <2>5. ListedIsSought'
        BY <1>1, <1>2, <2>4 DEF Activate, SearchInv, ListedIsSought, Sought
  <2> QED BY <2>2, <2>3, <2>5 DEF SearchInv
<1>3. CASE mode = "global"
  <2>1. UNCHANGED <<searchTerm, suggesting, inquiries, users, everything, amiss>> /\ searchMode' = "global"
        BY <1>3 DEF Activate
  <2> QED BY <1>1, <2>1
          DEF SearchInv, SearchTypeOK, LateFirst, LastIsSought, ListedIsSought, HiddenIsEmpty,
              FieldShown, IsLast, AllLate, Composing, Sought, SearchMode
<1> QED BY <1>2, <1>3 DEF SearchMode

(* The global list is cleared, and the field empty.                        *)
LEMMA ClearedKeeps ==
    ASSUME SearchInv, inquiries' = Overtaken(inquiries, "global"), everything' = NoResult,
           amiss' = amiss \ {"global"}, searchTerm' = NoTerm, users' = users, suggesting' \in BOOLEAN,
           searchMode' \in SearchMode \cup {"none"}, ~Composing'
    PROVE  SearchInv'
<1> USE RoomSearchAssumption
<1>0. "global" \in SearchMode /\ "compose" \in SearchMode
      BY DEF SearchMode
<1>1. SearchTypeOK' /\ HiddenIsEmpty' /\ LateFirst'
      BY <1>0, OvertakenKeeps DEF SearchInv, SearchTypeOK, HiddenIsEmpty, SearchMode
<1>2. LastIsSought'
      BY <1>0, OvertakenKeeps DEF SearchInv, LastIsSought
<1>3. ListedIsSought'
      BY DEF ListedIsSought, Sought
<1> QED BY <1>1, <1>2, <1>3 DEF SearchInv

LEMMA KeyKeeps ==
    ASSUME SearchInv, NEW t \in Term \cup {NoTerm}, Key(t) PROVE SearchInv'
<1> USE RoomSearchAssumption
<1>0. /\ "global" \in SearchMode /\ "compose" \in SearchMode
      /\ searchTerm' = t /\ KeyAsks(t) /\ UNCHANGED <<searchMode, suggesting, users>>
      /\ searchMode \in SearchMode
      BY DEF Key, SearchMode, SearchInv, SearchTypeOK, FieldShown
<1>1. CASE searchMode = "compose" /\ suggesting
  <2>1. Inquire("compose", t) /\ UNCHANGED <<everything, amiss>>
        BY <1>0, <1>1 DEF KeyAsks
  <2>2. SearchTypeOK' /\ HiddenIsEmpty' /\ LateFirst'
        BY <1>0, <1>1, <2>1, InquireKeeps DEF SearchInv, SearchTypeOK, HiddenIsEmpty, FieldShown
  <2>3. LastIsSought'
        BY <1>0, <1>1, <2>1, SoughtLast
  <2>4. ~AllLate("compose")' /\ AllLate("global")' = AllLate("global")
        BY <1>0, <2>1, InquireKeeps
  <2>5. ListedIsSought'
        BY <1>0, <1>1, <2>1, <2>4 DEF SearchInv, ListedIsSought, Sought
  <2> QED BY <2>2, <2>3, <2>5 DEF SearchInv
<1>2. CASE searchMode = "compose" /\ ~suggesting
  <2>1. UNCHANGED <<inquiries, everything, amiss>>
        BY <1>0, <1>2 DEF KeyAsks
  <2> QED BY <1>0, <1>2, <2>1
          DEF SearchInv, SearchTypeOK, LateFirst, LastIsSought, ListedIsSought, HiddenIsEmpty,
              FieldShown, IsLast, AllLate, Composing, Sought
<1>3. CASE searchMode = "global" /\ t # NoTerm
  <2>1. Inquire("global", t) /\ UNCHANGED <<everything, amiss>>
        BY <1>0, <1>3 DEF KeyAsks
  <2>2. SearchTypeOK' /\ HiddenIsEmpty' /\ LateFirst'
        BY <1>0, <1>3, <2>1, InquireKeeps DEF SearchInv, SearchTypeOK, HiddenIsEmpty, FieldShown
  <2>3. LastIsSought'
        BY <1>0, <1>3, <2>1, SoughtLast
  <2>4. ~AllLate("global")'
        BY <1>0, <2>1, InquireKeeps
  <2>5. ListedIsSought'
        BY <1>0, <1>3, <2>4 DEF ListedIsSought, Composing
  <2> QED BY <2>2, <2>3, <2>5 DEF SearchInv
<1>4. CASE searchMode = "global" /\ t = NoTerm
      BY <1>0, <1>4, ClearedKeeps DEF KeyAsks, Composing, SearchInv, SearchTypeOK
<1> QED BY <1>0, <1>1, <1>2, <1>3, <1>4 DEF SearchMode

(* The text is taken away, with the users it listed, not with the rest.    *)
LEMMA TakenAwayKeeps ==
    ASSUME SearchInv, inquiries' = AllOvertaken, searchTerm' = NoTerm, suggesting' = FALSE,
           amiss' \subseteq SearchMode, "global" \in amiss', searchMode' = searchMode
    PROVE  SearchInv'
<1>1. /\ Len(inquiries) \in Nat /\ DOMAIN inquiries = 1..Len(inquiries)
      /\ \A i \in DOMAIN inquiries : inquiries[i] \in InquiryType
      BY SearchListType DEF SearchInv
<1>2. DOMAIN inquiries' = DOMAIN inquiries
      /\ \A i \in DOMAIN inquiries : inquiries'[i] = Passed(Passed(inquiries[i], "compose"), "global")
      BY DEF AllOvertaken, Overtaken
<1>3. \A i \in DOMAIN inquiries : inquiries'[i] \in InquiryType /\ inquiries'[i].late
  <2> SUFFICES ASSUME NEW i \in DOMAIN inquiries
               PROVE  inquiries'[i] \in InquiryType /\ inquiries'[i].late
      OBVIOUS
  <2> DEFINE q == Passed(inquiries[i], "compose")
  <2>1. inquiries[i] \in InquiryType /\ inquiries[i].mode \in SearchMode
        /\ "compose" \in SearchMode /\ "global" \in SearchMode
        BY <1>1 DEF InquiryType, SearchMode
  <2>2. q \in InquiryType /\ q.mode = inquiries[i].mode
        /\ (q.late <=> inquiries[i].late \/ inquiries[i].mode = "compose")
        BY <2>1, PassedKeeps
  <2> HIDE DEF q
  <2>3. Passed(q, "global") \in InquiryType
        /\ (Passed(q, "global").late <=> q.late \/ q.mode = "global")
        BY <2>1, <2>2, PassedKeeps
  <2> QED BY <1>2, <2>1, <2>2, <2>3 DEF q, SearchMode
<1>4. inquiries' \in Seq(InquiryType)
      BY <1>1, <1>2, <1>3, SeqDef DEF AllOvertaken, Overtaken
<1> QED BY <1>2, <1>3, <1>4
        DEF SearchInv, SearchTypeOK, LateFirst, LastIsSought, ListedIsSought, HiddenIsEmpty,
            Composing

LEMMA SearchStep == SearchInv /\ [RoomSearchNext]_roomSearchVars => SearchInv'
<1> SUFFICES ASSUME SearchInv, [RoomSearchNext]_roomSearchVars PROVE SearchInv'
    OBVIOUS
<1>1. CASE UNCHANGED <<searchMode, searchTerm, suggesting, inquiries, users, everything, amiss>>
      BY <1>1 DEF SearchInv, SearchTypeOK, LateFirst, LastIsSought, ListedIsSought, HiddenIsEmpty,
                  FieldShown, IsLast, AllLate, Composing, Sought
<1>2. ASSUME NEW mode \in {"compose", "global"}, Activate(mode) PROVE SearchInv'
      BY <1>2, ActivateKeeps DEF SearchMode
<1>3. ASSUME NEW t \in Term \cup {NoTerm}, Key(t) PROVE SearchInv'
      BY <1>3, KeyKeeps
<1>4. CASE Deactivate
      BY <1>4, ClearedKeeps DEF Deactivate, Composing
<1>5. CASE BlurDue
  <2>1. CASE TRUE \in blurs
        BY <1>5, <2>1
           DEF BlurDue, SearchInv, SearchTypeOK, LateFirst, LastIsSought, ListedIsSought,
               HiddenIsEmpty, FieldShown, IsLast, AllLate, Composing, Sought
  <2>2. CASE ~(TRUE \in blurs)
        BY <1>5, <2>2, TakenAwayKeeps DEF BlurDue, SearchInv, SearchTypeOK, SearchMode
  <2> QED BY <2>1, <2>2
<1>6. CASE ChatCreated
      BY <1>6, TakenAwayKeeps DEF ChatCreated, SearchInv, SearchTypeOK, SearchMode
<1>7. ASSUME NEW i \in DOMAIN inquiries, Found(i) \/ FindFails(i) PROVE SearchInv'
      BY <1>7, AnsweredKeeps
<1> QED BY <1>1, <1>2, <1>3, <1>4, <1>5, <1>6, <1>7
        DEF RoomSearchNext, roomSearchVars, Blur, ChangeOfRoom, SelectUserForChat, ChatNotCreated

LEMMA SearchStarts == ASSUME RoomSearchInit PROVE SearchInv
<1>1. inquiries \in Seq(InquiryType) /\ DOMAIN inquiries = {}
      BY DEF RoomSearchInit
<1> QED BY <1>1 DEF RoomSearchInit, SearchInv, SearchTypeOK, LateFirst, LastIsSought,
                    ListedIsSought, HiddenIsEmpty, Sought, Composing

(* When no search of the list of rooms is under way, what is listed was    *)
(* found for the text in its field, unless the last answer was overtaken   *)
(* or an error, for any texts and however many requests: ChatRoomList.jsx. *)
THEOREM FoundCorrect == RoomSearchSpec => []FoundFit
<1>1. ASSUME SearchInv PROVE FoundFit
  <2> SUFFICES ASSUME inquiries = <<>>
               PROVE  /\ searchMode = "compose" /\ suggesting /\ "compose" \notin amiss =>
                             users = searchTerm
                      /\ searchMode = "global" /\ "global" \notin amiss =>
                             everything = IF searchTerm = NoTerm THEN NoResult ELSE searchTerm
      BY DEF FoundFit
  <2>1. AllLate("compose") /\ AllLate("global")
        BY DEF AllLate
  <2> QED BY <1>1, <2>1 DEF SearchInv, ListedIsSought, Composing, Sought
<1> QED BY <1>1, SearchStarts, SearchStep, PTL DEF RoomSearchSpec

----------------------------------------------------------------------------
(* The table of agents: AgentManagement.jsx.                               *)

TaskType == [no : Nat, op : {"agents", "create", "edit", "delete"}, of : SUBSET Staff,
             at : {"asked", "done", "refused"}, got : SUBSET Staff]

AgentsTypeOK ==
    /\ agents \subseteq Staff /\ table \subseteq Staff /\ edited \subseteq Staff
    /\ isLoading \in BOOLEAN /\ outdated \in BOOLEAN
    /\ dialogMode \in {"none", "create", "edit"}
    /\ tasks \subseteq TaskType

(* The server never refuses the table.                                     *)
ListsAreServed == \A t \in tasks : t.at = "refused" => t.op # "agents"

(* The table is right, or somebody will load it.                           *)
Loads(t)  == t.op = "agents" \/ t.at = "done"
TableWill == ~outdated => table = agents \/ \E t \in tasks : Loads(t)

(* A spinner waits for something.                                          *)
SpinnerWaits == isLoading => \E t \in tasks : t.op \in {"agents", "delete"}

AgentsInv == AgentsTypeOK /\ ListsAreServed /\ TableWill /\ SpinnerWaits

LEMMA BegunTask ==
    ASSUME AgentsInv, NEW op \in {"agents", "create", "edit", "delete"}, NEW of \in SUBSET Staff,
           Begin(op, of)
    PROVE  \E t \in TaskType : /\ tasks' = tasks \cup {t}
                               /\ t.op = op /\ t.at = "asked"
<1>1. PICK k \in 1..MaxTasks : tasks' = tasks \cup {Task(k, op, of)}
      BY DEF Begin
<1>2. Task(k, op, of) \in TaskType /\ Task(k, op, of).op = op /\ Task(k, op, of).at = "asked"
      BY AgentsAssumption DEF Task, TaskType
<1> QED BY <1>1, <1>2

(* What the administrator does starts a request at most.                   *)
LEMMA BeginKeeps ==
    ASSUME AgentsInv, NEW op \in {"agents", "create", "edit", "delete"}, NEW of \in SUBSET Staff,
           Begin(op, of), UNCHANGED <<agents, table, dialogMode, edited, outdated>>,
           isLoading' = (isLoading \/ op \in {"agents", "delete"})
    PROVE  AgentsInv'
<1>1. PICK t \in TaskType : tasks' = tasks \cup {t} /\ t.op = op /\ t.at = "asked"
      BY BegunTask
<1>2. AgentsTypeOK'
      BY <1>1 DEF AgentsInv, AgentsTypeOK
<1>3. ListsAreServed'
      BY <1>1 DEF AgentsInv, ListsAreServed
<1>4. TableWill'
      BY <1>1 DEF AgentsInv, TableWill
<1>5. SpinnerWaits'
      BY <1>1 DEF AgentsInv, SpinnerWaits
<1> QED BY <1>2, <1>3, <1>4, <1>5 DEF AgentsInv

LEMMA ServeTaskKeeps ==
    ASSUME AgentsInv, NEW t \in tasks, ServeTask(t) PROVE AgentsInv'
<1> DEFINE a == IF Accepts(t) THEN "done" ELSE "refused"
           g == IF t.op = "agents" THEN agents ELSE {}
           x == [t EXCEPT !.at = a, !.got = g]
<1>1. t \in TaskType /\ a \in {"done", "refused"} /\ g \in SUBSET Staff
      BY DEF AgentsInv, AgentsTypeOK
<1> HIDE DEF a, g
<1>2. x \in TaskType /\ x.op = t.op /\ x.at = a
      BY <1>1 DEF TaskType
<1> USE DEF a, g
<1>3. /\ tasks' = (tasks \ {t}) \cup {x}
      /\ UNCHANGED <<table, isLoading, dialogMode, edited, outdated>>
      BY DEF ServeTask
<1>4. agents' \subseteq Staff /\ (agents' # agents => Accepts(t))
      BY <1>1 DEF ServeTask, AgentsInv, AgentsTypeOK, TaskType
<1>5. t.op = "agents" => Accepts(t)
      BY DEF Accepts
<1> HIDE DEF x
<1>6. AgentsTypeOK'
      BY <1>2, <1>3, <1>4 DEF AgentsInv, AgentsTypeOK
<1>7. ListsAreServed'
      BY <1>2, <1>3, <1>5 DEF AgentsInv, ListsAreServed
<1>8. TableWill'
  <2>1. CASE Accepts(t)
        BY <1>2, <1>3, <2>1 DEF TableWill, Loads
  <2>2. CASE ~Accepts(t)
    <3>1. agents' = agents /\ ~Loads(t)
          BY <1>4, <1>5, <2>2 DEF ServeTask, Loads
    <3> QED BY <1>3, <3>1 DEF AgentsInv, TableWill
  <2> QED BY <2>1, <2>2
<1>9. SpinnerWaits'
      BY <1>2, <1>3 DEF AgentsInv, SpinnerWaits
<1> QED BY <1>6, <1>7, <1>8, <1>9 DEF AgentsInv

LEMMA TaskOverKeeps ==
    ASSUME AgentsInv, NEW t \in tasks, AgentsLoaded(t) \/ TaskFails(t) PROVE AgentsInv'
<1>1. t \in TaskType
      BY DEF AgentsInv, AgentsTypeOK
<1>2. /\ tasks' = tasks \ {t} /\ UNCHANGED <<agents, dialogMode, edited>>
      /\ table' \subseteq Staff /\ isLoading' \in BOOLEAN /\ outdated' \in BOOLEAN
      BY <1>1 DEF AgentsLoaded, TaskFails, AgentsInv, AgentsTypeOK, TaskType
<1>3. AgentsTypeOK' /\ ListsAreServed'
      BY <1>2 DEF AgentsInv, AgentsTypeOK, ListsAreServed
<1>4. TableWill'
  <2>1. CASE AgentsLoaded(t)
        BY <2>1 DEF AgentsLoaded, TableWill
  <2>2. CASE TaskFails(t)
    <3>1. ~outdated' => ~outdated /\ ~Loads(t) /\ table' = table
          BY <2>2 DEF TaskFails, Loads, AgentsInv, ListsAreServed
    <3> QED BY <1>2, <3>1 DEF AgentsInv, TableWill
  <2> QED BY <2>1, <2>2
<1>5. SpinnerWaits'
      BY <1>2 DEF AgentsInv, SpinnerWaits, AgentsLoaded, TaskFails
<1> QED BY <1>3, <1>4, <1>5 DEF AgentsInv

LEMMA AgentsStep == AgentsInv /\ [AgentsNext]_agentVars => AgentsInv'
<1> SUFFICES ASSUME AgentsInv, [AgentsNext]_agentVars PROVE AgentsInv'
    OBVIOUS
<1>1. CASE /\ UNCHANGED <<agents, table, isLoading, tasks, outdated>>
           /\ dialogMode' \in {"none", "create", "edit"} /\ edited' \subseteq Staff
      BY <1>1 DEF AgentsInv, AgentsTypeOK, ListsAreServed, TableWill, SpinnerWaits
<1>2. CASE ReloadAgents
      BY <1>2, BeginKeeps DEF ReloadAgents
<1>3. CASE SubmitAgent
  <2>1. PICK of \in FormData : Begin(dialogMode, of)
        BY <1>3 DEF SubmitAgent
  <2>2. dialogMode \in {"create", "edit"} /\ of \in SUBSET Staff
        BY DEF FormData, AvailableUsers, AgentsInv, AgentsTypeOK
  <2>3. isLoading' = (isLoading \/ dialogMode \in {"agents", "delete"})
        BY <1>3, <2>2 DEF SubmitAgent, AgentsInv, AgentsTypeOK
  <2> QED BY <1>3, <2>1, <2>2, <2>3, BeginKeeps DEF SubmitAgent
<1>4. ASSUME NEW a \in Staff, DeleteAgent(a) PROVE AgentsInv'
      BY <1>4, BeginKeeps DEF DeleteAgent
<1>5. ASSUME NEW t \in tasks, AgentChanged(t) PROVE AgentsInv'
  <2> DEFINE x == Task(t.no, "agents", {})
  <2>1. /\ tasks' = (tasks \ {t}) \cup {x} /\ isLoading' = TRUE /\ UNCHANGED <<agents, table, outdated>>
        /\ dialogMode' \in {"none", dialogMode} /\ edited' \in {{}, edited}
        BY <1>5 DEF AgentChanged, ThenLoad
  <2>2. t \in TaskType
        BY DEF AgentsInv, AgentsTypeOK
  <2>3. x \in TaskType /\ x.op = "agents" /\ x.at = "asked"
        BY <2>2 DEF Task, TaskType
  <2> HIDE DEF x
  <2> QED BY <2>1, <2>3 DEF AgentsInv, AgentsTypeOK, ListsAreServed, TableWill, SpinnerWaits, Loads
<1>6. CASE OpenCreate \/ CloseModal
      BY <1>1, <1>6 DEF OpenCreate, CloseModal
<1>7. ASSUME NEW a \in Staff, OpenEdit(a) PROVE AgentsInv'
      BY <1>1, <1>7 DEF OpenEdit
<1>8. CASE UNCHANGED agentVars
      BY <1>1, <1>8 DEF agentVars, AgentsInv, AgentsTypeOK
<1> QED BY <1>2, <1>3, <1>4, <1>5, <1>6, <1>7, <1>8, ServeTaskKeeps, TaskOverKeeps DEF AgentsNext

LEMMA AgentsStart == ASSUME AgentsInit PROVE AgentsInv
<1>1. Task(1, "agents", {}) \in TaskType /\ Task(1, "agents", {}).op = "agents"
      /\ Task(1, "agents", {}).at = "asked"
      BY DEF Task, TaskType
<1> QED BY <1>1 DEF AgentsInit, AgentsInv, AgentsTypeOK, ListsAreServed, TableWill, SpinnerWaits, Loads

(* When no request is under way the table of agents is the server's and no *)
(* spinner hides it, unless a list was overtaken by a change or an answer  *)
(* was lost, for any staff and requests: loadAgents of AgentManagement.    *)
THEOREM TableCorrect == AgentsSpec => []TableFits
<1>1. AgentsInv => TableFits
      BY DEF AgentsInv, TableWill, SpinnerWaits, TableFits
<1> QED BY <1>1, AgentsStart, AgentsStep, PTL DEF AgentsSpec

----------------------------------------------------------------------------
(* The tickets of an agent: AgentManagement.jsx.                           *)

(* The agents offered are of the selected ticket's region, the messages    *)
(* its own, or a request for them is under way; who is picked is offered.  *)
OptionsWill ==
    ~strayed /\ selected # Unset =>
        options = PlaceOf[selected] \/ \E e \in errands : e.op = "options"
TextsWill ==
    ~strayed /\ selected # Unset =>
        texts \subseteq {selected} \/ \E e \in errands : e.op = "messages"
TargetOffered == target \in {Unset, options}

InspectorInv == OptionsWill /\ TextsWill /\ TargetOffered

(* After the effect of a selection, whatever was selected before.          *)
LEMMA EffectAsks ==
    ASSUME TargetOffered, NEW ticket, NEW fetches, NEW hidden, Effect(ticket, fetches, hidden)
    PROVE  /\ TargetOffered' /\ fetches \subseteq errands'
           /\ ticket # Unset => options' = PlaceOf[ticket] \/ \E e \in errands' : e.op = "options"
<1>1. CASE ticket = Unset \/ (ticket # Unset /\ PlaceOf[ticket] = Unset)
      BY <1>1 DEF Effect, OptionsGone, TargetOffered
<1>2. CASE ~(ticket = Unset \/ (ticket # Unset /\ PlaceOf[ticket] = Unset))
  <2> DEFINE x == Errand("options", PlaceOf[ticket], Unset, Unset)
  <2>1. x.op = "options"
        BY DEF Errand
  <2>2. errands' = fetches \cup {x} /\ UNCHANGED <<options, target>>
        BY <1>2 DEF Effect
  <2> HIDE DEF x
  <2> QED BY <1>2, <2>1, <2>2 DEF TargetOffered
<1> QED BY <1>1, <1>2

LEMMA OpenTicketKeeps ==
    ASSUME InspectorInv, NEW t \in Ticket, OpenTicket(t) PROVE InspectorInv'
<1> DEFINE x == Errand("messages", t, Unset, t)
           fetches == errands \cup {x}
           hidden == spinners \cup {"messages"}
<1>1. x.op = "messages"
      BY DEF Errand
<1>2. /\ selected' = t /\ UNCHANGED <<texts, strayed>>
      /\ \/ Effect(t, fetches, hidden)
         \/ t = selected /\ errands' = fetches /\ UNCHANGED <<options, target>>
      BY DEF OpenTicket
<1> HIDE DEF x
<1>3. CASE Effect(t, fetches, hidden)
  <2>1. /\ TargetOffered' /\ fetches \subseteq errands'
        /\ t # Unset => options' = PlaceOf[t] \/ \E e \in errands' : e.op = "options"
    <3> HIDE DEF fetches, hidden
    <3> QED BY <1>3, EffectAsks DEF InspectorInv
  <2> QED BY <1>1, <1>2, <2>1 DEF InspectorInv, OptionsWill, TextsWill
<1>4. CASE t = selected /\ errands' = fetches /\ UNCHANGED <<options, target>>
      BY <1>1, <1>2, <1>4 DEF InspectorInv, OptionsWill, TextsWill, TargetOffered
<1> QED BY <1>2, <1>3, <1>4

(* What ends and changes nothing the properties are about, or strays.      *)
LEMMA RestKeeps ==
    ASSUME InspectorInv, NEW e, Rest(e) \subseteq errands', e.op \notin {"options", "messages"},
           UNCHANGED <<selected, texts, options, target>>, strayed' = strayed
    PROVE  InspectorInv'
BY DEF InspectorInv, OptionsWill, TextsWill, TargetOffered, Rest

LEMMA ErrandKeeps ==
    ASSUME InspectorInv, NEW e \in errands,
           OptionsLoaded(e) \/ TextsLoaded(e) \/ SentToTicket(e)
    PROVE  InspectorInv'
BY DEF OptionsLoaded, TextsLoaded, SentToTicket, Elsewhere, Rest, InspectorInv, OptionsWill,
       TextsWill, TargetOffered

LEMMA TicketsKeep ==
    ASSUME InspectorInv, NEW e \in errands, TicketsLoaded(e) PROVE InspectorInv'
<1> DEFINE hidden == spinners \ {"tickets"}
<1>1. PICK fetches : /\ Rest(e) \subseteq fetches
                   /\ Effect(selected', fetches, hidden)
  <2>1. CASE e.op = "view"
        BY <2>1 DEF TicketsLoaded, Follow
  <2>2. CASE e.op = "closed"
        BY <2>2 DEF TicketsLoaded, Follow
  <2>3. CASE e.op = "moved"
        BY <2>3 DEF TicketsLoaded, Follow
  <2> QED BY <2>1, <2>2, <2>3 DEF TicketsLoaded
<1>2. /\ TargetOffered'
      /\ selected' # Unset => options' = PlaceOf[selected'] \/ \E x \in errands' : x.op = "options"
  <2> DEFINE s == selected'
  <2>1. Effect(s, fetches, hidden)
        BY <1>1
  <2> HIDE DEF s, hidden
  <2> QED BY <2>1, EffectAsks DEF InspectorInv, s
<1>3. texts' = {}
      BY DEF TicketsLoaded
<1> QED BY <1>2, <1>3 DEF InspectorInv, OptionsWill, TextsWill

LEMMA InspectorStep == InspectorInv /\ [InspectorNext]_inspectorVars => InspectorInv'
<1> SUFFICES ASSUME InspectorInv, [InspectorNext]_inspectorVars PROVE InspectorInv'
    OBVIOUS
<1> USE DEF InspectorInv, OptionsWill, TextsWill, TargetOffered
<1>1. ASSUME NEW a \in Clerk, View(a) PROVE InspectorInv'
      BY <1>1 DEF View, ViewAgentTickets
<1>2. ASSUME NEW x \in Place \cup {Unset}, PickTarget(x) PROVE InspectorInv'
      BY <1>2 DEF PickTarget, TargetsOffered
<1>3. CASE SendMessageToTicket \/ CloseSelectedTicket \/ TransferSelectedTicket
      BY <1>3 DEF SendMessageToTicket, CloseSelectedTicket, TransferSelectedTicket, Gesture
<1>4. ASSUME NEW e \in errands, ClosedByServer(e) \/ Transferred(e) \/ TransferRefused(e)
      PROVE  InspectorInv'
  <2>1. /\ Rest(e) \subseteq errands' /\ e.op \notin {"options", "messages"}
        /\ UNCHANGED <<selected, texts, options, target>> /\ strayed' = strayed
        BY <1>4 DEF ClosedByServer, Transferred, TransferRefused, ViewAgentTickets
  <2> QED BY <2>1, RestKeeps
<1>5. ASSUME NEW e \in errands, TicketsFail(e) PROVE InspectorInv'
  <2>1. PICK fetches : Effect(selected, fetches, spinners \ {"tickets"}) \/ Effect(e.ticket, fetches, spinners \ {"tickets"})
    <3>1. CASE e.op = "closed"
          BY <1>5, <3>1 DEF TicketsFail, Follow
    <3>2. CASE e.op = "moved"
          BY <1>5, <3>2 DEF TicketsFail, Follow
    <3> QED BY <1>5, <3>1, <3>2 DEF TicketsFail
  <2>2. TargetOffered'
        BY <2>1, EffectAsks
  <2> QED BY <1>5, <2>2 DEF TicketsFail
<1>6. ASSUME NEW e \in errands, ErrandFails(e) PROVE InspectorInv'
      BY <1>6 DEF ErrandFails
<1>7. CASE UNCHANGED inspectorVars
      BY <1>7 DEF inspectorVars
<1> QED BY <1>1, <1>2, <1>3, <1>4, <1>5, <1>6, <1>7, OpenTicketKeeps, ErrandKeeps, TicketsKeep
        DEF InspectorNext

(* When no request is under way, the messages shown are the selected       *)
(* ticket's and the agents offered are of its region, unless an answer     *)
(* found another ticket selected or was an error, for any tickets and      *)
(* clerks: openTicket and the effect on selectedTicket.                    *)
THEOREM PanelCorrect == InspectorSpec => []PanelFits
<1>1. InspectorInit => InspectorInv
      BY DEF InspectorInit, InspectorInv, OptionsWill, TextsWill, TargetOffered
<1>2. InspectorInv => PanelFits
      BY DEF InspectorInv, OptionsWill, TextsWill, TargetOffered, PanelFits
<1> QED BY <1>1, <1>2, InspectorStep, PTL DEF InspectorSpec

----------------------------------------------------------------------------
(* The administrator's chats and their messages: AdminChatDashboard.jsx.   *)

(* Requests in the order they were made: one that was overtaken was made   *)
(* before all that were not.                                               *)
LogType(of)       == Seq([of : of, late : BOOLEAN])
InOrder(s)        == \A j, k \in DOMAIN s : j < k /\ s[k].late => s[j].late
NoneCounts(s)     == \A k \in DOMAIN s : s[k].late
LastAsksFor(s, x) == \A k \in DOMAIN s : k = Len(s) /\ ~s[k].late => s[k].of = x

(* A request more.                                                         *)
LEMMA LogGrows ==
    ASSUME NEW of, NEW s \in LogType(of), InOrder(s), NEW x \in of,
           NEW r, r = Append(s, Query(x))
    PROVE  /\ r \in LogType(of) /\ InOrder(r) /\ ~NoneCounts(r) /\ LastAsksFor(r, x)
<1>1. Query(x) \in [of : of, late : BOOLEAN] /\ Query(x).late = FALSE /\ Query(x).of = x
      BY DEF Query
<1>2. /\ Len(s) \in Nat /\ DOMAIN s = 1..Len(s)
      /\ r \in LogType(of) /\ DOMAIN r = 1..(Len(s) + 1) /\ Len(r) = Len(s) + 1
      /\ r[Len(s) + 1] = Query(x) /\ \A k \in 1..Len(s) : r[k] = s[k]
      BY <1>1, AppendProperties, LenProperties DEF LogType
<1> QED BY <1>1, <1>2 DEF InOrder, NoneCounts, LastAsksFor

(* A request less, which overtakes those before it.                        *)
LEMMA LogShrinks ==
    ASSUME NEW of, NEW s \in LogType(of), InOrder(s), NEW i \in DOMAIN s,
           NEW r, r = Ended(s, i)
    PROVE  /\ r \in LogType(of) /\ InOrder(r)
           /\ \A x : LastAsksFor(s, x) => LastAsksFor(r, x)
           /\ NoneCounts(r) /\ ~s[i].late => i = Len(s)
           /\ NoneCounts(s) => NoneCounts(r)
<1>0. Len(s) \in Nat /\ DOMAIN s = 1..Len(s)
      BY LenProperties DEF LogType
<1>a. \A k \in 1..Len(s) : s[k] \in [of : of, late : BOOLEAN]
      BY ElementOfSeq DEF LogType
<1>1. /\ Len(s) \in Nat /\ DOMAIN s = 1..Len(s) /\ Len(s) >= 1
      /\ \A k \in 1..Len(s) : s[k] \in [of : of, late : BOOLEAN]
      BY <1>0, <1>a
<1>2. /\ DOMAIN r = 1..(Len(s) - 1)
      /\ \A j \in 1..(Len(s) - 1) :
            r[j] = IF j < i THEN [s[j] EXCEPT !.late = TRUE] ELSE s[j + 1]
      BY DEF Ended
<1>3. \A j \in 1..(Len(s) - 1) :
         /\ r[j] \in [of : of, late : BOOLEAN]
         /\ j < i => r[j].late
         /\ ~(j < i) => r[j] = s[j + 1]
  <2> SUFFICES ASSUME NEW j \in 1..(Len(s) - 1)
               PROVE  /\ r[j] \in [of : of, late : BOOLEAN]
                      /\ j < i => r[j].late
                      /\ ~(j < i) => r[j] = s[j + 1]
      OBVIOUS
  <2>1. j \in 1..Len(s) /\ j + 1 \in 1..Len(s)
        BY <1>1
  <2>2. s[j] \in [of : of, late : BOOLEAN] /\ s[j + 1] \in [of : of, late : BOOLEAN]
        BY <1>1, <2>1
  <2>3. CASE j < i
        BY <1>2, <2>2, <2>3
  <2>4. CASE ~(j < i)
        BY <1>2, <2>2, <2>4
  <2> QED BY <2>3, <2>4
<1>4. Len(s) - 1 \in Nat
      BY <1>1
<1>5. r \in LogType(of)
      BY <1>3, <1>4, SeqDef DEF Ended, LogType
<1>6. Len(r) = Len(s) - 1
      BY <1>2, <1>4, <1>5, LenProperties DEF LogType
<1>7. InOrder(r)
      BY <1>1, <1>2, <1>3 DEF InOrder
<1>8. ASSUME NEW x, LastAsksFor(s, x) PROVE LastAsksFor(r, x)
      BY <1>1, <1>2, <1>3, <1>6, <1>8 DEF LastAsksFor
<1>9. ASSUME NoneCounts(r), ~s[i].late PROVE i = Len(s)
  <2> SUFFICES ASSUME i < Len(s) PROVE FALSE
      BY <1>1
  <2>1. r[i] = s[i + 1] /\ r[i].late
        BY <1>1, <1>2, <1>3, <1>9 DEF NoneCounts
  <2> QED BY <1>1, <1>9, <2>1 DEF InOrder
<1>10. ASSUME NoneCounts(s) PROVE NoneCounts(r)
       BY <1>1, <1>2, <1>3, <1>10 DEF NoneCounts
<1> QED BY <1>5, <1>7, <1>8, <1>9, <1>10

----------------------------------------------------------------------------
(* The list.                                                               *)

Asked == <<filter, currentPage>>

ListInv ==
    /\ filter \in Filter /\ currentPage \in 1..MaxPages
    /\ loads \in LogType(Filter \X (1..MaxPages)) /\ InOrder(loads)
    /\ LastAsksFor(loads, Asked)
    /\ NoneCounts(loads) /\ ~missed => chats = Asked
    /\ debounce \in BOOLEAN /\ (~debounce => currentPage = 1)

LEMMA LoadChatsKeeps ==
    ASSUME ListInv, LoadChats, filter' \in Filter, currentPage' \in 1..MaxPages
    PROVE  ListInv'
<1> DEFINE x == <<filter', currentPage'>>
           q == Filter \X (1..MaxPages)
<1>1. x \in q /\ loads' = Append(loads, Query(x)) /\ loads \in LogType(q) /\ InOrder(loads)
      BY DEF LoadChats, ListInv
<1> HIDE DEF x, q
<1>2. loads' \in LogType(q) /\ InOrder(loads') /\ ~NoneCounts(loads') /\ LastAsksFor(loads', x)
      BY <1>1, LogGrows
<1> QED BY <1>2 DEF LoadChats, ListInv, Asked, x, q

LEMMA DebounceKeeps == ASSUME ListInv, DebounceDue PROVE ListInv'
<1> DEFINE q     == Filter \X (1..MaxPages)
           x     == <<filter, currentPage>>
           y     == <<filter, 1>>
           again == Append(loads, Query(x))
<1>1. x \in q /\ y \in q /\ loads \in LogType(q) /\ InOrder(loads)
      BY DashboardAssumption DEF ListInv
<1>2. /\ UNCHANGED <<filter, chats, missed>> /\ currentPage' = 1
      /\ IF currentPage = 1 THEN loads' = again /\ debounce' = FALSE
         ELSE loads' = Append(again, Query(y)) /\ debounce' = TRUE
      BY DEF DebounceDue
<1> HIDE DEF x, q, y
<1>3. again \in LogType(q) /\ InOrder(again) /\ ~NoneCounts(again) /\ LastAsksFor(again, x)
      BY <1>1, LogGrows
<1> HIDE DEF again
<1>4. loads' \in LogType(q) /\ InOrder(loads') /\ ~NoneCounts(loads') /\ LastAsksFor(loads', y)
  <2>1. CASE currentPage = 1
        BY <1>2, <1>3, <2>1 DEF x, y
  <2>2. CASE currentPage # 1
        BY <1>1, <1>2, <1>3, <2>2, LogGrows
  <2> QED BY <2>1, <2>2
<1>5. 1 \in 1..MaxPages
      BY DashboardAssumption
<1>6. debounce' \in BOOLEAN
      BY <1>2
<1> QED BY <1>2, <1>4, <1>5, <1>6 DEF ListInv, Asked, x, y, q

LEMMA LoadOverKeeps ==
    ASSUME ListInv, NEW i \in DOMAIN loads, ChatsLoaded(i) \/ ChatsFail(i) PROVE ListInv'
<1> DEFINE q == Filter \X (1..MaxPages)
           x == <<filter, currentPage>>
<1>1. /\ loads \in LogType(q) /\ InOrder(loads) /\ LastAsksFor(loads, x)
      /\ loads' = Ended(loads, i) /\ UNCHANGED <<filter, currentPage, debounce>>
      /\ ~missed' => ~loads[i].late /\ chats' = loads[i].of
      BY DEF ListInv, Asked, ChatsLoaded, ChatsFail
<1> HIDE DEF x, q
<1>2. /\ loads' \in LogType(q) /\ InOrder(loads') /\ LastAsksFor(loads', x)
      /\ NoneCounts(loads') /\ ~loads[i].late => i = Len(loads)
      BY <1>1, LogShrinks
<1>3. ASSUME NoneCounts(loads'), ~missed' PROVE chats' = x
      BY <1>1, <1>2, <1>3 DEF LastAsksFor
<1> QED BY <1>1, <1>2, <1>3 DEF ListInv, Asked, x, q

LEMMA ChatsStep == ListInv /\ [DashboardNext]_dashboardVars => ListInv'
<1> SUFFICES ASSUME ListInv, [DashboardNext]_dashboardVars PROVE ListInv'
    OBVIOUS
<1>1. CASE UNCHANGED listSide
      BY <1>1 DEF listSide, ListInv, Asked
<1>2. ASSUME NEW f \in Filter, SearchChats(f) \/ ApplyFilters(f) PROVE ListInv'
  <2>1. LoadChats /\ filter' \in Filter /\ currentPage' \in 1..MaxPages
        BY <1>2, DashboardAssumption DEF SearchChats, ApplyFilters, ListInv
  <2> QED BY <2>1, LoadChatsKeeps
<1>3. ASSUME NEW p \in 1..MaxPages, TurnPage(p) PROVE ListInv'
  <2>1. LoadChats /\ filter' \in Filter /\ currentPage' \in 1..MaxPages
        BY <1>3 DEF TurnPage, ListInv
  <2> QED BY <2>1, LoadChatsKeeps
<1>4. CASE MessageNext
      BY <1>1, <1>4 DEF MessageNext, SelectUser, SelectChat, FilterMessages, MessagesRead, MessagesFail
<1>5. CASE UNCHANGED dashboardVars
      BY <1>1, <1>5 DEF dashboardVars
<1> QED BY <1>2, <1>3, <1>4, <1>5, DebounceKeeps, LoadOverKeeps DEF DashboardNext, ChatsNext

LEMMA ChatsStart == ASSUME DashboardInit PROVE ListInv
<1> DEFINE q == Filter \X (1..MaxPages)
           x == <<filter, 1>>
<1>1. x \in q /\ <<>> \in LogType(q) /\ InOrder(<<>>) /\ loads = Append(<<>>, Query(x))
      BY DashboardAssumption DEF DashboardInit, LogType, InOrder
<1> HIDE DEF x, q
<1>2. loads \in LogType(q) /\ InOrder(loads) /\ ~NoneCounts(loads) /\ LastAsksFor(loads, x)
      BY <1>1, LogGrows
<1> QED BY <1>2, DashboardAssumption DEF DashboardInit, ListInv, Asked, x, q

(* When nothing is under way the administrator's list is what its search,  *)
(* filters and page ask for, and the page is the first, unless the last    *)
(* answer was overtaken or an error, for any filters and pages: loadChats  *)
(* of AdminChatDashboard.jsx.                                              *)
THEOREM ChatsCorrect == DashboardSpec => []ListFits
<1>1. ListInv => ListFits
      BY DEF ListInv, ListFits, NoneCounts, Asked
<1> QED BY <1>1, ChatsStart, ChatsStep, PTL DEF DashboardSpec

----------------------------------------------------------------------------
(* The messages.                                                           *)

Wanted == <<selectedChat, onlyDeleted>>

ReadInv ==
    /\ selectedChat \in Chat \cup {NoChat} /\ onlyDeleted \in BOOLEAN
    /\ reads \in LogType(Chat \X BOOLEAN) /\ InOrder(reads)
    /\ selectedChat # NoChat =>
          /\ LastAsksFor(reads, Wanted)
          /\ NoneCounts(reads) /\ ~misread => chatMessages = Wanted

LEMMA ReadChatKeeps ==
    ASSUME ReadInv, ReadChat, selectedChat' \in Chat, onlyDeleted' \in BOOLEAN
    PROVE  ReadInv'
<1> DEFINE x == <<selectedChat', onlyDeleted'>>
           q == Chat \X BOOLEAN
<1>1. x \in q /\ reads' = Append(reads, Query(x)) /\ reads \in LogType(q) /\ InOrder(reads)
      BY DEF ReadChat, GetChatMessages, ReadInv
<1> HIDE DEF x, q
<1>2. reads' \in LogType(q) /\ InOrder(reads') /\ ~NoneCounts(reads') /\ LastAsksFor(reads', x)
      BY <1>1, LogGrows
<1> QED BY <1>2 DEF ReadInv, Wanted, x, q

LEMMA ReadOverKeeps ==
    ASSUME ReadInv, NEW i \in DOMAIN reads, MessagesRead(i) \/ MessagesFail(i) PROVE ReadInv'
<1> DEFINE q == Chat \X BOOLEAN
           x == <<selectedChat, onlyDeleted>>
<1>1. /\ reads \in LogType(q) /\ InOrder(reads) /\ (selectedChat # NoChat => LastAsksFor(reads, x))
      /\ reads' = Ended(reads, i) /\ UNCHANGED <<selectedChat, onlyDeleted>>
      /\ ~misread' => ~reads[i].late /\ chatMessages' = reads[i].of
      BY DEF ReadInv, Wanted, MessagesRead, MessagesFail
<1> HIDE DEF x, q
<1>2. /\ reads' \in LogType(q) /\ InOrder(reads') /\ (LastAsksFor(reads, x) => LastAsksFor(reads', x))
      /\ NoneCounts(reads') /\ ~reads[i].late => i = Len(reads)
      BY <1>1, LogShrinks
<1>3. ASSUME selectedChat # NoChat, NoneCounts(reads'), ~misread' PROVE chatMessages' = x
      BY <1>1, <1>2, <1>3 DEF LastAsksFor
<1> QED BY <1>1, <1>2, <1>3 DEF ReadInv, Wanted, x, q

LEMMA ReadStep == ReadInv /\ [DashboardNext]_dashboardVars => ReadInv'
<1> SUFFICES ASSUME ReadInv, [DashboardNext]_dashboardVars PROVE ReadInv'
    OBVIOUS
<1>1. CASE UNCHANGED messageSide
      BY <1>1 DEF messageSide, ReadInv, Wanted
<1>2. CASE SelectUser
      BY <1>2 DEF SelectUser, ReadInv
<1>3. ASSUME NEW c \in Chat, SelectChat(c) PROVE ReadInv'
      BY <1>3, ReadChatKeeps DEF SelectChat, ReadInv
<1>4. ASSUME NEW d \in BOOLEAN, FilterMessages(d) PROVE ReadInv'
      BY <1>4, ReadChatKeeps DEF FilterMessages, PanelOffered, ReadInv
<1>5. CASE ChatsNext
      BY <1>1, <1>5 DEF ChatsNext, SearchChats, ApplyFilters, TurnPage, LoadChats, DebounceDue,
                        ChatsLoaded, ChatsFail
<1>6. CASE UNCHANGED dashboardVars
      BY <1>1, <1>6 DEF dashboardVars
<1> QED BY <1>2, <1>3, <1>4, <1>5, <1>6, ReadOverKeeps DEF DashboardNext, MessageNext

LEMMA ReadStart == ASSUME DashboardInit PROVE ReadInv
<1>1. reads \in LogType(Chat \X BOOLEAN) /\ DOMAIN reads = {}
      BY DEF DashboardInit, LogType
<1> QED BY <1>1 DEF DashboardInit, ReadInv, InOrder

(* So are the messages those of the selected chat: handleChatSelect.       *)
THEOREM MessagesCorrect == DashboardSpec => []MessagesFit
<1>1. ReadInv => MessagesFit
      BY DEF ReadInv, MessagesFit, NoneCounts, Wanted
<1> QED BY <1>1, ReadStart, ReadStep, PTL DEF DashboardSpec

----------------------------------------------------------------------------
(* The product.                                                            *)

(* A step of the product is a step of its subject, and no step of any      *)
(* other part.                                                             *)
LEMMA PartsStep ==
    [Next]_vars =>
        /\ [ComposerNext]_composerVars /\ [TypingNext]_typingVars /\ [VoiceNext]_voiceVars
        /\ [ListNext]_listVars /\ [PickerNext]_pickerVars /\ [GroupsNext]_groupVars
        /\ [RoomSearchNext]_roomSearchVars /\ [AgentsNext]_agentVars
        /\ [InspectorNext]_inspectorVars /\ [DashboardNext]_dashboardVars
        /\ [WidgetNext]_widgetVars
<1> SUFFICES ASSUME [Next]_vars
             PROVE  /\ [ComposerNext]_composerVars /\ [TypingNext]_typingVars /\ [VoiceNext]_voiceVars
                    /\ [ListNext]_listVars /\ [PickerNext]_pickerVars /\ [GroupsNext]_groupVars
                    /\ [RoomSearchNext]_roomSearchVars /\ [AgentsNext]_agentVars
                    /\ [InspectorNext]_inspectorVars /\ [DashboardNext]_dashboardVars
                    /\ [WidgetNext]_widgetVars
    OBVIOUS
<1>1. \/ UNCHANGED <<composerVars, typingVars, voiceVars, rooms, admin, widgetVars>>
      \/ ComposerNext /\ UNCHANGED <<typingVars, voiceVars, rooms, admin, widgetVars>>
      \/ TypingNext /\ UNCHANGED <<composerVars, voiceVars, rooms, admin, widgetVars>>
      \/ VoiceNext /\ UNCHANGED <<composerVars, typingVars, rooms, admin, widgetVars>>
      \/ ListNext /\ UNCHANGED <<pickerVars, groupVars, roomSearchVars, input, admin, widgetVars>>
      \/ PickerNext /\ UNCHANGED <<listVars, groupVars, roomSearchVars, input, admin, widgetVars>>
      \/ GroupsNext /\ UNCHANGED <<listVars, pickerVars, roomSearchVars, input, admin, widgetVars>>
      \/ RoomSearchNext /\ UNCHANGED <<listVars, pickerVars, groupVars, input, admin, widgetVars>>
      \/ AgentsNext /\ UNCHANGED <<inspectorVars, dashboardVars, input, rooms, widgetVars>>
      \/ InspectorNext /\ UNCHANGED <<agentVars, dashboardVars, input, rooms, widgetVars>>
      \/ DashboardNext /\ UNCHANGED <<agentVars, inspectorVars, input, rooms, widgetVars>>
      \/ WidgetNext /\ UNCHANGED <<input, rooms, admin>>
      BY DEF Next, vars, input, ListNext, InputLineMoves, IndicatorMoves, RecorderMoves, MessagesMoves,
             ScrollMoves, MembersMoves, ManagedGroupMoves, RoomFieldMoves, AgentTableMoves,
             TicketPanelMoves, ChatPanelsMove, SupportWindowMoves
<1> QED BY <1>1 DEF input, rooms, admin

LEMMA PartsOf ==
    Spec => /\ ComposerSpec /\ TypingSpec /\ VoiceSpec /\ ListSpec /\ PickerSpec /\ GroupsSpec
            /\ RoomSearchSpec /\ AgentsSpec /\ InspectorSpec /\ DashboardSpec /\ WidgetSpec
<1>1. Init => /\ ComposerInit /\ TypingInit /\ VoiceInit /\ ListInit /\ PickerInit /\ GroupsInit
              /\ RoomSearchInit /\ AgentsInit /\ InspectorInit /\ DashboardInit /\ WidgetInit
      BY DEF Init
<1> QED BY <1>1, PartsStep, PTL
        DEF Spec, ComposerSpec, TypingSpec, VoiceSpec, ListSpec, ListNext, PickerSpec, GroupsSpec,
            RoomSearchSpec, AgentsSpec, InspectorSpec, DashboardSpec, WidgetSpec

(* What a search lists was found for the text of its field, in the dialogs *)
(* and over the list of rooms, unless answers crossed: the debounced       *)
(* searches of NewRoomModal.jsx, GroupManagementModal.jsx and              *)
(* ChatRoomList.jsx together.                                              *)
THEOREM SearchesFit == Spec => []ResultsFit
<1>1. PickedFit /\ FoundFit => ResultsFit
      BY DEF ResultsFit
<1> QED BY <1>1, PartsOf, PickedCorrect, FoundCorrect, PTL

(* What the administrator's pages show is what the server has of what is   *)
(* selected on them, unless an answer overtook another: AgentManagement    *)
(* and the dashboard.                                                      *)
THEOREM PagesFit == Spec => []AdminPagesFit
<1>1. TableFits /\ PanelFits /\ ListFits /\ MessagesFit => AdminPagesFit
      BY DEF AdminPagesFit
<1> QED BY <1>1, PartsOf, TableCorrect, PanelCorrect, ChatsCorrect, MessagesCorrect, PTL

(* Every part keeps in the product what it keeps alone: the input line     *)
(* sends once, the recorder shows its microphone, and so on for the parts  *)
(* that one page puts side by side.                                        *)
THEOREM PartsCorrect ==
    Spec => [](/\ SentOnce /\ IndicatorIsHeld /\ MicShown
               /\ SelectionShown /\ FollowsNewest /\ OwnerStays /\ WidgetInSync)
BY PartsOf, SentCorrect, TypingCorrect, MicCorrect, SelectionCorrect, PlaceCorrect,
   OwnerCorrect, WidgetCorrect, PTL

=============================================================================
