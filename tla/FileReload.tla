------------------------------ MODULE FileReload ------------------------------
(***************************************************************************)
(* A provider whose password file, or whose blacklist of certificates, is  *)
(* read again when it changes: BasicAuth and CertAuth (basic.go, cert.go,  *)
(* file.go in pkg/dumbproxy/auth).  The file may be rewritten in place or  *)
(* replaced while it is read, and its time of change is coarse.  Who       *)
(* writes it finishes: a file at rest is whole.                            *)
(***************************************************************************)
EXTENDS Naturals

CONSTANTS
    MaxText,    \* bound on the changes of the file
    MaxTime     \* bound on the clock of the file system

Torn == 0       \* what a reader finds in the middle of a change
NoFile == [text |-> Torn, time |-> 0, open |-> FALSE, whole |-> TRUE]

VARIABLES
    provider,   \* BasicAuth or CertAuth
    option,     \* the option reload: absent, positive, off (not positive), malformed
    step,       \* load, start, chain, ready, failed, closed
    loop,       \* reloadLoop: off, waiting, reading, ended
    file,       \* what its name stands for: text and time of the last change
    writing,    \* it is being rewritten in place
    version,    \* changes so far
    latest,     \* history: the latest time the file has had
    later,      \* history: its last change has a later time than all before
    fileClock,
    handle,     \* the open file: it is read as it is then, or as it was when replaced
    loaded      \* the atomic pointer: text and time

fileVars == <<provider, option, step, loop, file, writing, version, latest, later, fileClock,
              handle, loaded>>
settings == <<provider, option>>
content == <<file, writing, version, latest, later>>

FileInit == /\ provider \in {"basic", "cert"}
            /\ option \in {"absent", "positive", "off", "malformed"}
            /\ step = "load" /\ loop = "off"
            /\ file = [text |-> 1, time |-> 1]
            /\ writing = FALSE /\ fileClock = 1 /\ version = 1 /\ latest = 1 /\ later = TRUE
            /\ handle = NoFile
            /\ loaded = [text |-> Torn, time |-> 0]

Loading == step = "load" \/ loop = "reading"

\* openIfModified
Newest(seen) == loaded.time = 0 \/ loaded.time < seen

-----------------------------------------------------------------------------
(* reload: openIfModified, then the reading of the open file.              *)

\* The file is opened; if its time is not newer than that of what is loaded, that is all.
OpenIfModified ==
    /\ Loading /\ ~handle.open
    /\ handle' = [text |-> file.text, time |-> file.time,
                  open |-> Newest(file.time), whole |-> TRUE]
    /\ IF Newest(file.time) THEN UNCHANGED <<step, loop>>
       ELSE loop' = "waiting" /\ UNCHANGED step
    /\ UNCHANGED <<settings, content, fileClock, loaded>>

\* No file, or an error: what is loaded stays.
ReloadFails ==
    /\ Loading
    /\ handle' = NoFile
    /\ IF step = "load" THEN step' = "failed" /\ UNCHANGED loop
                        ELSE loop' = "waiting" /\ UNCHANGED step
    /\ UNCHANGED <<settings, content, fileClock, loaded>>

\* A slip: the file is looked at again, for its time, when it has been read.
StoreLateTime ==
    /\ loaded' = [text |-> IF handle.whole THEN file.text ELSE handle.text,
                  time |-> fileClock]
    /\ handle' = NoFile
    /\ IF step = "load" THEN step' = "start" /\ UNCHANGED loop
                        ELSE loop' = "waiting" /\ UNCHANGED step

\* The text there is now goes with the time there was when the file was opened.  (An
\* open file that was replaced is not "whole" any more: its text is its own.)
Store ==
    /\ loaded' = [text |-> IF handle.whole THEN file.text ELSE handle.text,
                  time |-> handle.time]
    /\ handle' = NoFile
    /\ IF step = "load" THEN step' = "start" /\ UNCHANGED loop
                        ELSE loop' = "waiting" /\ UNCHANGED step

ReloadBasic == /\ provider = "basic" /\ Loading /\ handle.open
               /\ Store
               /\ UNCHANGED <<settings, content, fileClock>>

ReloadCert == /\ provider = "cert" /\ Loading /\ handle.open
              /\ Store
              /\ UNCHANGED <<settings, content, fileClock>>

-----------------------------------------------------------------------------
(* Construction, the loop and Close.                                       *)

\* A malformed option is reported and leaves an interval of 0: no loop.
StartLoop ==
    /\ step = "start"
    /\ loop' = IF option \in {"absent", "positive"} THEN "waiting" ELSE "off"
    /\ step' = "chain"
    /\ UNCHANGED <<settings, content, fileClock, handle, loaded>>

\* The providers behind it are made last; if that fails the loop is left behind.
ChainProviders ==
    /\ step = "chain"
    /\ step' \in {"ready", "failed"}
    /\ UNCHANGED <<settings, loop, content, fileClock, handle, loaded>>

ReloadTick ==
    /\ loop = "waiting"
    /\ loop' = "reading"
    /\ UNCHANGED <<settings, step, content, fileClock, handle, loaded>>

LoopStops ==
    /\ loop = "waiting" /\ step = "closed"
    /\ loop' = "ended"
    /\ UNCHANGED <<settings, step, content, fileClock, handle, loaded>>

CloseProvider ==
    /\ step = "ready"
    /\ step' = "closed"
    /\ UNCHANGED <<settings, loop, content, fileClock, handle, loaded>>

-----------------------------------------------------------------------------
(* Who keeps the file, and time.                                           *)

Change(text, time) == /\ file' = [text |-> text, time |-> time]
                      /\ later' = (time > latest)
                      /\ latest' = IF time > latest THEN time ELSE latest

BeginRewrite ==
    /\ ~writing /\ version < MaxText
    /\ writing' = TRUE
    /\ Change(Torn, fileClock)
    /\ UNCHANGED <<settings, step, loop, version, fileClock, handle, loaded>>

EndRewrite ==
    /\ writing
    /\ writing' = FALSE /\ version' = version + 1
    /\ Change(version + 1, fileClock)
    /\ UNCHANGED <<settings, step, loop, fileClock, handle, loaded>>

\* rename: who has the old file open keeps it.  The new one may have an older time.
Replace(time) ==
    /\ ~writing /\ version < MaxText
    /\ version' = version + 1
    /\ Change(version + 1, time)
    /\ handle' = IF handle.open /\ handle.whole
                 THEN [handle EXCEPT !.text = file.text, !.whole = FALSE] ELSE handle
    /\ UNCHANGED <<settings, step, loop, writing, fileClock, loaded>>

FileTick == /\ fileClock < MaxTime
            /\ fileClock' = fileClock + 1
            /\ UNCHANGED <<settings, step, loop, content, handle, loaded>>

Reload == OpenIfModified \/ ReloadBasic \/ ReloadCert
FileNext == \/ Reload \/ ReloadFails \/ StartLoop \/ ChainProviders \/ ReloadTick
            \/ LoopStops \/ CloseProvider
            \/ BeginRewrite \/ EndRewrite \/ (\E t \in 1..fileClock : Replace(t)) \/ FileTick

FileSpec == FileInit /\ [][FileNext]_fileVars

-----------------------------------------------------------------------------

\* file.go:9-28, basic.go:86-115: a change with a time of its own is never missed: what
\* the file has is loaded, or the next look will see that it is newer.  It may be
\* rewritten or replaced at any point of a reload.  (One with the time of an earlier
\* change may be missed for good.)
NoneMissed ==
    (later /\ ~writing /\ loop = "waiting" /\ loaded.text # file.text)
        => loaded.time < file.time
=============================================================================
