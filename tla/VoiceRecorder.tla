--------------------------- MODULE VoiceRecorder ----------------------------
(***************************************************************************)
(* The recorder of voice messages, VoiceRecorderComponent.jsx: what it     *)
(* shows, the microphone streams it opened, the MediaRecorder's events and *)
(* its interval timers.                                                    *)
(*                                                                         *)
(* A take is one call of startRecording, and names its stream, its         *)
(* MediaRecorder and its intervals.  The browser answers getUserMedia when *)
(* it likes, and reports a stop (onstop) after the call or the end of the  *)
(* tracks that caused it.  A definition marked "fault" is no part of the   *)
(* system: it is the bug a slip in the definition after it would be.       *)
(***************************************************************************)
EXTENDS Naturals

CONSTANT MaxTakes  \* bound: calls of startRecording

ASSUME VoiceAssumption == MaxTakes \in Nat

Take   == 1..MaxTakes
NoTake == 0

VARIABLES
    takes,        \* calls of startRecording so far
    asked,        \* calls getUserMedia has not answered
    live,         \* takes whose tracks are not stopped
    current,      \* the take of streamRef and mediaRecorderRef
    stopping,     \* takes whose onstop is still to come
    isRecording, isPaused, isUploading,
    audioBlob,    \* there is a recording to listen to
    voiceActive,  \* the input line gives its place to the recorder
    clocks,       \* intervals that tick: how many each take has started
    clock,        \* timerRef: the take whose interval it is, and if it ticks
    recorder,     \* the component is mounted
    supported,    \* the browser records audio/webm
    strays        \* history: takes granted beside another, after the end, or
                  \* to a browser that cannot record them

voiceVars == <<takes, asked, live, current, stopping, isRecording, isPaused, isUploading,
               audioBlob, voiceActive, clocks, clock, recorder, supported, strays>>

(* The end of a recording's tracks stops its MediaRecorder.                *)
EndTracks ==
    /\ live' = live \ {current}
    /\ stopping' = IF current \in live THEN stopping \cup {current} ELSE stopping

StartClock == clocks' = clocks + 1 /\ clock' = TRUE
StopClock  ==
    /\ clocks' = IF clock THEN clocks - 1 ELSE clocks
    /\ clock' = FALSE

(* startRecording, up to getUserMedia: the button is there until the       *)
(* answer comes.                                                           *)
StartRecording ==
    /\ recorder /\ ~isRecording /\ ~audioBlob
    /\ takes < MaxTakes
    /\ takes' = takes + 1 /\ asked' = asked \cup {takes + 1}
    /\ UNCHANGED <<live, current, stopping, isRecording, isPaused, isUploading, audioBlob,
                   voiceActive, clocks, clock, recorder, supported, strays>>

Refused(t) ==
    /\ t \in asked
    /\ asked' = asked \ {t}
    /\ UNCHANGED <<takes, live, current, stopping, isRecording, isPaused, isUploading, audioBlob,
                   voiceActive, clocks, clock, recorder, supported, strays>>

(* The rest of startRecording: isPaused stays what the last take left.     *)
Granted(t) ==
    /\ t \in asked /\ supported
    /\ asked' = asked \ {t}
    /\ live' = live \cup {t} /\ current' = t
    /\ isRecording' = recorder
    /\ voiceActive' = recorder
    /\ StartClock
    /\ strays' = strays \cup (IF recorder THEN live ELSE {t})
    /\ UNCHANGED <<takes, stopping, isPaused, isUploading, audioBlob, recorder, supported>>

(* new MediaRecorder throws, with the stream open already.                 *)
Unsupported(t) ==
    /\ t \in asked /\ ~supported
    /\ asked' = asked \ {t}
    /\ live' = live \cup {t} /\ current' = t
    /\ strays' = strays \cup {t}
    /\ UNCHANGED <<takes, stopping, isRecording, isPaused, isUploading, audioBlob, voiceActive,
                   clocks, clock, recorder, supported>>

StopRecording ==
    /\ isRecording
    /\ stopping' = stopping \cup {current}
    /\ isRecording' = FALSE
    /\ StopClock
    /\ UNCHANGED <<takes, asked, live, current, isPaused, isUploading, audioBlob, voiceActive,
                   recorder, supported, strays>>

(* mediaRecorder.onstop.                                                   *)
TracksKept(t)  == live  \* fault
TracksEnded(t) == live \ {t}

Stopped(t) ==
    /\ t \in stopping
    /\ stopping' = stopping \ {t}
    /\ live' = TracksEnded(t)
    /\ audioBlob' = (recorder \/ audioBlob)
    /\ UNCHANGED <<takes, asked, current, isRecording, isPaused, isUploading, voiceActive, clocks,
                   clock, recorder, supported, strays>>

(* pauseResumeRecording.                                                   *)
PauseResume ==
    /\ isRecording
    /\ isPaused' = ~isPaused
    /\ IF isPaused THEN StartClock ELSE StopClock
    /\ UNCHANGED <<takes, asked, live, current, stopping, isRecording, isUploading, audioBlob,
                   voiceActive, recorder, supported, strays>>

(* resetRecording: the cross, and the end of an upload.                    *)
Reset ==
    /\ isRecording' = FALSE /\ isPaused' = FALSE /\ audioBlob' = FALSE /\ voiceActive' = FALSE
    /\ EndTracks
    /\ StopClock
    /\ UNCHANGED <<takes, asked, current, recorder, supported, strays>>

CancelRecording ==
    /\ isRecording \/ audioBlob
    /\ Reset
    /\ UNCHANGED isUploading

SendVoiceMessage ==
    /\ ~isRecording /\ audioBlob /\ ~isUploading
    /\ isUploading' = TRUE
    /\ UNCHANGED <<takes, asked, live, current, stopping, isRecording, isPaused, audioBlob,
                   voiceActive, clocks, clock, recorder, supported, strays>>

(* The upload succeeds: the message goes out (Composer), and whatever the  *)
(* recorder does by now is reset.                                          *)
UploadedVoice ==
    /\ isUploading /\ recorder
    /\ isUploading' = FALSE
    /\ Reset

UploadFailed ==
    /\ isUploading
    /\ isUploading' = FALSE
    /\ UNCHANGED <<takes, asked, live, current, stopping, isRecording, isPaused, audioBlob,
                   voiceActive, clocks, clock, recorder, supported, strays>>

(* The cleanup of the first effect.                                        *)
Unmount ==
    /\ recorder
    /\ recorder' = FALSE
    /\ EndTracks
    /\ isRecording' = FALSE /\ isPaused' = FALSE /\ isUploading' = FALSE
    /\ audioBlob' = FALSE /\ voiceActive' = FALSE
    /\ StopClock
    /\ UNCHANGED <<takes, asked, current, supported, strays>>

VoiceInit ==
    /\ takes = 0 /\ asked = {} /\ live = {} /\ current = NoTake /\ stopping = {}
    /\ isRecording = FALSE /\ isPaused = FALSE /\ isUploading = FALSE
    /\ audioBlob = FALSE /\ voiceActive = FALSE
    /\ clocks = 0 /\ clock = FALSE /\ recorder = TRUE /\ strays = {}
    /\ supported \in BOOLEAN

VoiceNext ==
    \/ StartRecording \/ StopRecording \/ PauseResume
    \/ CancelRecording \/ SendVoiceMessage \/ UploadedVoice \/ UploadFailed \/ Unmount
    \/ \E t \in asked : Refused(t) \/ Granted(t) \/ Unsupported(t)
    \/ \E t \in stopping : Stopped(t)

VoiceSpec == VoiceInit /\ [][VoiceNext]_voiceVars

----------------------------------------------------------------------------
(* Properties.                                                             *)

(* The microphone is never open behind the user's back: a stream that is   *)
(* open is the one being recorded, or one whose recorder has been told to  *)
(* stop -- unless a second start was pressed before the browser had        *)
(* answered the first, the answer came when the recorder was gone, or the  *)
(* browser has no MediaRecorder for the format.                            *)
MicShown == \A t \in live : t \in stopping \cup strays \/ (isRecording /\ t = current)

=============================================================================
