------------------------------ MODULE Composer ------------------------------
(***************************************************************************)
(* The input line under a chat: MessageInput.jsx with its draft, its       *)
(* attachment (FileUploadComponent.jsx), and the messages it sends.  Its   *)
(* typing indicator is in Typing, its recorder in VoiceRecorder.           *)
(*                                                                         *)
(* The component is mounted while a room is shown and stays when the user  *)
(* goes from one room to another: draft, attachment and whatever is under  *)
(* way go along.  Requests are answered in any order, may fail before the  *)
(* server has saved anything, and may be saved with the answer lost.       *)
(*                                                                         *)
(* A draft is a number; only who sent what how often matters here.         *)
(* A definition marked "fault" is no part of the system: it is the bug a   *)
(* slip in the definition after it would be.                               *)
(***************************************************************************)
EXTENDS Naturals, FiniteSets

CONSTANTS
    MaxDrafts,  \* bound: texts written
    MaxFiles,   \* bound: files picked and voice messages, together
    MaxSends,   \* bound: requests under way together
    MaxOdd      \* bound: requests that fail and voice messages, together

ASSUME ComposerAssumption ==
    {MaxDrafts, MaxFiles, MaxSends, MaxOdd} \subseteq Nat

Draft == 1..MaxDrafts
Old   == MaxDrafts + 1  \* the text of the message that is edited
Empty == 0              \* no text; also: no attachment

VARIABLES
    mounted,    \* a room is shown
    draft,      \* message
    written,    \* drafts so far
    pending,    \* pendingAttachment
    picked,     \* files so far
    uploading,  \* the upload under way, or Empty
    editing, replying, forwarding,  \* the context holds such a message
    isSending,  \* the flag that disables sending
    sends,      \* requests under way
    posted,     \* how often the server has saved a draft
    filed,      \* how often it has saved a message with a file
    faults,     \* requests that failed so far
    lost,       \* history: <<text, file>> saved with the answer lost
    overlap,    \* history: a voice message ended beside another request
    voices      \* voice messages so far

inputLine   == <<draft, pending, uploading, isSending>>
intentions == <<editing, replying, forwarding>>
onServer  == <<posted, filed, lost, overlap>>
bounds  == <<written, picked, voices>>
composerVars == <<mounted, inputLine, intentions, sends, onServer, faults, bounds>>

----------------------------------------------------------------------------
(* The draft.  Every key also signals typing (Typing).                     *)

Write ==
    /\ draft = Empty /\ written < MaxDrafts
    /\ draft' = written + 1 /\ written' = written + 1
    /\ UNCHANGED <<mounted, pending, uploading, isSending, intentions, sends, onServer, faults, picked, voices>>

(* A key in the text area; it is disabled while a message is forwarded.    *)
TypeKey == mounted /\ ~forwarding /\ Write

EraseDraft ==
    /\ mounted /\ ~forwarding /\ draft # Empty
    /\ draft' = Empty
    /\ UNCHANGED <<mounted, pending, uploading, isSending, intentions, sends, onServer, faults, bounds>>

(* onEmojiClick adds to the draft and is not typing.                       *)
PickEmoji == mounted /\ ~isSending /\ Write

----------------------------------------------------------------------------
(* While a message is edited, the effect writes its text into the draft    *)
(* when the component appears and when one of the three changes.           *)
Refill == draft' = IF editing' /\ mounted THEN Old ELSE draft

(* Only when no room is shown does the component go, and its requests with *)
(* nobody to report to.                                                    *)

Show ==
    /\ ~mounted
    /\ mounted' = TRUE
    /\ draft' = IF editing THEN Old ELSE draft
    /\ UNCHANGED <<pending, uploading, isSending, intentions, sends, onServer, faults, bounds>>

Hide ==
    /\ mounted
    /\ mounted' = FALSE
    /\ draft' = Empty /\ pending' = Empty /\ uploading' = Empty /\ isSending' = FALSE
    /\ sends' = {[s EXCEPT !.here = FALSE] : s \in sends}
    /\ UNCHANGED <<intentions, onServer, faults, bounds>>

----------------------------------------------------------------------------
(* What the menu of a message starts.                                      *)

SetEditing ==
    /\ mounted /\ ~editing
    /\ editing' = TRUE
    /\ Refill
    /\ UNCHANGED <<mounted, pending, uploading, isSending, replying, forwarding, sends, onServer, faults, bounds>>

SetReplying ==
    /\ mounted /\ ~replying
    /\ replying' = TRUE
    /\ UNCHANGED editing /\ Refill
    /\ UNCHANGED <<mounted, pending, uploading, isSending, forwarding, sends, onServer, faults, bounds>>

SetForwarding ==
    /\ mounted /\ ~forwarding
    /\ forwarding' = TRUE
    /\ UNCHANGED editing /\ Refill
    /\ UNCHANGED <<mounted, pending, uploading, isSending, replying, sends, onServer, faults, bounds>>

(* The chat page forwards when a room is selected (ChatPage).              *)
ForwardingOver ==
    /\ forwarding
    /\ forwarding' = FALSE
    /\ UNCHANGED editing /\ Refill
    /\ UNCHANGED <<mounted, pending, uploading, isSending, replying, sends, onServer, faults, bounds>>

(* The preview over the line, and its cross: handleCancelAction.           *)
ActionShown == editing \/ replying \/ forwarding

CancelAction ==
    /\ mounted /\ ActionShown
    /\ editing' = FALSE /\ replying' = FALSE /\ forwarding' = FALSE
    /\ draft' = Empty /\ pending' = Empty
    /\ UNCHANGED <<mounted, uploading, isSending, sends, onServer, faults, bounds>>

----------------------------------------------------------------------------
(* Attachments.                                                            *)

(* A file that validateFile accepts; the others end in an alert.           *)
PickFile ==
    /\ mounted /\ ~isSending /\ pending = Empty /\ uploading = Empty
    /\ picked + voices < MaxFiles
    /\ picked' = picked + 1 /\ uploading' = picked + 1
    /\ UNCHANGED <<mounted, draft, pending, isSending, intentions, sends, onServer, faults, written, voices>>

(* onFileUploaded empties the draft: a caption has to be written.          *)
Uploaded ==
    /\ uploading # Empty
    /\ pending' = uploading /\ draft' = Empty /\ uploading' = Empty
    /\ UNCHANGED <<mounted, isSending, intentions, sends, onServer, faults, bounds>>

UploadFails ==
    /\ uploading # Empty /\ faults + voices < MaxOdd
    /\ uploading' = Empty /\ faults' = faults + 1
    /\ UNCHANGED <<mounted, draft, pending, isSending, intentions, sends, onServer, bounds>>

RemoveFile ==
    /\ pending # Empty
    /\ pending' = Empty
    /\ UNCHANGED <<mounted, draft, uploading, isSending, intentions, sends, onServer, faults, bounds>>

----------------------------------------------------------------------------
(* Sending.                                                                *)

RoomToSend == Cardinality(sends) < MaxSends

Sending(op) == [op |-> op, draft |-> draft, file |-> pending, replied |-> replying,
                saved |-> FALSE, here |-> TRUE]

(* Both buttons are disabled without a text and while something is sent.   *)
Sendable == mounted /\ draft # Empty /\ ~isSending

(* handleSendMessage: the button, which shows the edit's own button        *)
(* instead while a message is edited, or Ctrl+Enter, which does not.       *)
DraftTaken == Empty

Send ==
    /\ Sendable /\ ~forwarding /\ RoomToSend
    /\ isSending' = TRUE
    /\ draft' = DraftTaken
    /\ sends' = sends \cup {Sending("message")}
    /\ UNCHANGED <<mounted, pending, uploading, intentions, onServer, faults, bounds>>

(* handleSubmit, whose button is there only while a message is edited.     *)
SubmitEdit ==
    /\ Sendable /\ editing /\ RoomToSend
    /\ isSending' = TRUE
    /\ sends' = sends \cup {Sending("edit")}
    /\ UNCHANGED <<mounted, draft, pending, uploading, intentions, onServer, faults, bounds>>

(* onVoiceRecorded asks no flag, and sends beside what is under way; the   *)
(* upload before it may outlive the component (VoiceRecorder).             *)
SendVoice(here) ==
    /\ here => mounted
    /\ picked + voices < MaxFiles /\ faults + voices < MaxOdd /\ RoomToSend
    /\ voices' = voices + 1
    /\ isSending' = IF here THEN TRUE ELSE isSending
    /\ sends' = sends \cup {[op |-> "voice", draft |-> Empty, file |-> Empty, replied |-> replying,
                             saved |-> FALSE, here |-> here]}
    /\ UNCHANGED <<mounted, draft, pending, uploading, intentions, onServer, faults, written, picked>>

Save(s) ==
    /\ s \in sends /\ ~s.saved
    /\ sends' = (sends \ {s}) \cup {[s EXCEPT !.saved = TRUE]}
    /\ posted' = IF s.op = "message" /\ s.draft \in Draft
                 THEN [posted EXCEPT ![s.draft] = @ + 1] ELSE posted
    /\ filed' = IF s.op = "message" /\ s.file # Empty
                THEN [filed EXCEPT ![s.file] = @ + 1] ELSE filed
    /\ UNCHANGED <<mounted, inputLine, intentions, faults, bounds, lost, overlap>>

(* The answer: what was written or attached meanwhile is thrown away by an *)
(* edit; by a message, only what is attached.                              *)
FileKept(s)  == pending  \* fault
FileTaken(s) ==
    IF s.here /\ (s.op = "edit" \/ (s.op = "message" /\ s.file # Empty)) THEN Empty ELSE pending

Overlaps(s) == s.here /\ s.op = "voice" /\ \E t \in sends : t.here /\ t.op # "voice"

Done(s) ==
    /\ s \in sends /\ s.saved
    /\ sends' = sends \ {s}
    /\ overlap' = (overlap \/ Overlaps(s))
    /\ isSending' = IF s.here THEN FALSE ELSE isSending
    /\ pending' = FileTaken(s)
    /\ editing' = (editing /\ s.op # "edit")
    /\ replying' = (replying /\ ~(s.op = "message" \/ (s.op = "edit" /\ s.replied)))
    /\ draft' = IF s.here /\ s.op = "edit" THEN Empty
                ELSE IF editing' /\ replying' # replying /\ mounted THEN Old ELSE draft
    /\ UNCHANGED <<mounted, uploading, forwarding, posted, filed, lost, faults, bounds>>

(* A failure puts the text back, over what was written meanwhile.          *)
Fail(s) ==
    /\ s \in sends /\ faults + voices < MaxOdd
    /\ faults' = faults + 1
    /\ sends' = sends \ {s}
    /\ lost' = IF s.saved /\ s.op = "message" THEN lost \cup {<<s.draft, s.file>>} ELSE lost
    /\ overlap' = (overlap \/ Overlaps(s))
    /\ isSending' = IF s.here THEN FALSE ELSE isSending
    /\ draft' = IF s.here /\ s.op # "voice" THEN s.draft ELSE draft
    /\ UNCHANGED <<mounted, pending, uploading, intentions, posted, filed, bounds>>

----------------------------------------------------------------------------

ComposerInit ==
    /\ mounted = FALSE
    /\ draft = Empty /\ written = 0 /\ pending = Empty /\ picked = 0 /\ uploading = Empty
    /\ editing = FALSE /\ replying = FALSE /\ forwarding = FALSE
    /\ isSending = FALSE /\ sends = {} /\ faults = 0 /\ lost = {} /\ overlap = FALSE /\ voices = 0
    /\ posted = [d \in Draft |-> 0] /\ filed = [f \in 1..MaxFiles |-> 0]

ComposerNext ==
    \/ Show \/ Hide \/ TypeKey \/ EraseDraft \/ PickEmoji
    \/ SetEditing \/ SetReplying \/ SetForwarding \/ ForwardingOver \/ CancelAction
    \/ PickFile \/ Uploaded \/ UploadFails \/ RemoveFile
    \/ Send \/ SubmitEdit
    \/ \E here \in BOOLEAN : SendVoice(here)
    \/ \E s \in sends : Save(s) \/ Done(s) \/ Fail(s)

ComposerSpec == ComposerInit /\ [][ComposerNext]_composerVars

----------------------------------------------------------------------------
(* Properties.                                                             *)

(* A text is saved once, and a file goes out with one message, however     *)
(* sends, failures, edits and room changes follow each other -- unless the *)
(* server saved it and the answer was lost, after which the page offers it *)
(* again, or a voice message that ended let two sends run.                  *)
SentOnce == overlap \/
    /\ \A d \in Draft : posted[d] > 1 => \E l \in lost : l[1] = d
    /\ \A f \in 1..MaxFiles : filed[f] > 1 => \E l \in lost : l[2] = f

=============================================================================
