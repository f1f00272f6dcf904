----------------------------- MODULE PlotterCut -----------------------------
(***************************************************************************)
(* The phone and the plotter.  A cut screen obtains a cut token, hands the *)
(* drawing to the one PlotterService of the app, and commits the token if  *)
(* the cut succeeds and aborts it otherwise.  The service calls the        *)
(* Android side, which writes the drawing chunk by chunk from a thread of  *)
(* its own; for classic Bluetooth the service then waits for a timer that  *)
(* estimates how long the plotter still cuts.  The user may meanwhile      *)
(* reset, leave the screen, cut again, disconnect or pull the cable.       *)
(***************************************************************************)
EXTENDS Naturals

CONSTANTS
    MaxCuts,     \* bound: presses of START CUTTING
    Transports,  \* the ways to reach the plotter, of "classic", "usb", "sdk"
    Chunks,      \* chunks of the translated drawing
    MaxBreaks,   \* bound: broken Bluetooth links
    MaxResets    \* bound: resets

ASSUME PlotterCutAssumption ==
    /\ MaxCuts \in Nat
    /\ Transports \subseteq {"classic", "usb", "sdk"}
    /\ Chunks \in Nat \ {0} /\ MaxBreaks \in Nat /\ MaxResets \in Nat

Cuts == 1..MaxCuts     \* in the order they are started
NoTimer == 0

VARIABLES
    pc,          \* where each cut is
    via,         \* transport of each cut's native thread, until the cut is over
    sent,        \* chunks each cut's thread has written
    again,       \* cuts whose thread has reconnected
    stream,      \* cuts whose thread holds the output of a connection not closed since
    link,        \* the native connection of each transport
    nativeType,  \* connectionType of MainActivity
    dartType,    \* _connectionType of PlotterService
    cancelled,   \* _isCutCancelled
    timers,      \* cuts whose countdown timer runs
    timerRef,    \* the running timer _classicCutTimer refers to
    overlay,     \* _isCutting of the screen shown
    mounted,     \* cuts started from the screen shown
    settled,     \* what was reported of each cut's token
    resetting,   \* a native reset is under way
    received,    \* chunks of each cut written to a Bluetooth connection that still holds
    doubt,       \* chunks of each cut that were written, and may not have arrived
    stopped,     \* history: cuts a reset has met, and that it can still stop
    breaks, resets

screenVars == <<overlay, mounted>>
nativeVars == <<via, sent, again, stream, link, nativeType>>
cancelVars == <<cancelled, timers, timerRef, stopped>>
dartVars == <<dartType, cancelVars>>
paperVars == <<received, doubt>>
counters == <<breaks, resets>>
plotterVars == <<pc, nativeVars, dartVars, screenVars, settled, resetting, paperVars, counters>>

Steps == {"idle", "validating", "granted", "ready", "sending", "countdown",
          "succeeded", "failed", "done"}

PlotterTypeOK ==
    /\ pc \in [Cuts -> Steps]
    /\ via \in [Cuts -> Transports \union {"none"}]
    /\ sent \in [Cuts -> 0..Chunks]
    /\ again \subseteq Cuts /\ stream \subseteq Cuts
    /\ timers \subseteq Cuts /\ mounted \subseteq Cuts /\ stopped \subseteq Cuts
    /\ link \in [Transports -> {"null", "up", "broken"}]
    /\ nativeType \in Transports \union {"none"}
    /\ dartType \in Transports \union {"none"}
    /\ timerRef \in Cuts \union {NoTimer}
    /\ cancelled \in BOOLEAN /\ overlay \in BOOLEAN /\ resetting \in BOOLEAN
    /\ settled \in [Cuts -> SUBSET {"commit", "abort"}]
    /\ received \in [Cuts -> SUBSET (1..Chunks)]
    /\ doubt \in [Cuts -> SUBSET (1..Chunks)]
    /\ breaks \in 0..MaxBreaks /\ resets \in 0..MaxResets

\* The app has just started; a USB plotter is plugged in, if USB is modelled.
PlotterInit ==
    /\ pc = [c \in Cuts |-> "idle"]
    /\ via = [c \in Cuts |-> "none"]
    /\ sent = [c \in Cuts |-> 0]
    /\ again = {} /\ stream = {} /\ timers = {} /\ mounted = {} /\ stopped = {}
    /\ link = [t \in Transports |-> IF t = "usb" THEN "up" ELSE "null"]
    /\ nativeType = "none" /\ dartType = "none"
    /\ timerRef = NoTimer
    /\ cancelled = FALSE /\ overlay = FALSE /\ resetting = FALSE
    /\ settled = [c \in Cuts |-> {}]
    /\ received = [c \in Cuts |-> {}]
    /\ doubt = [c \in Cuts |-> {}]
    /\ breaks = 0 /\ resets = 0

Go(c, s) == pc' = [pc EXCEPT ![c] = s]
Over(t) == {c \in Cuts : via[c] = t}

\* The Bluetooth connection of t is no more.  Nothing that was written to it has
\* been acknowledged, and any part of it may be lost.
Gone(t) ==
    /\ doubt' = [c \in Cuts |-> IF c \in Over(t) THEN doubt[c] \union received[c] ELSE doubt[c]]
    /\ received' = [c \in Cuts |-> IF c \in Over(t) THEN {} ELSE received[c]]

-----------------------------------------------------------------------------
\* MainActivity.isConnected: a closed connection is given up for a plugged-in
\* USB plotter.  A Bluetooth socket counts as connected until it is closed.
Restored == IF nativeType = "none" /\ "usb" \in Transports /\ link["usb"] = "up"
            THEN "usb" ELSE nativeType
Connected == Restored # "none" /\ link[Restored] # "null"

\* PlotterService.isConnected, called by every screen that shows the status.
CheckConnection ==
    /\ nativeType' = Restored
    /\ dartType' = IF Connected THEN dartType ELSE "none"
    /\ UNCHANGED <<pc, via, sent, again, stream, link, cancelVars, screenVars, settled,
                   resetting, paperVars, counters>>

\* START CUTTING: the connection is checked (the selection screen also asks
\* for its type, the designer does not), and the overlay covers the screen.
StartCut(c) ==
    /\ pc[c] = "idle" /\ (c > 1 => pc[c - 1] # "idle")
    /\ Connected
    /\ ~overlay
    /\ Go(c, "validating")
    /\ nativeType' = Restored
    /\ dartType' \in {Restored, dartType}
    /\ overlay' = TRUE /\ mounted' = mounted \union {c}
    /\ UNCHANGED <<via, sent, again, stream, link, cancelVars, settled, resetting,
                   paperVars, counters>>

\* The end of _handleCut: a screen that is still shown hides the overlay.  What
\* becomes of the drawing after that is no longer followed.
Return(c) ==
    /\ Go(c, "done")
    /\ via' = [via EXCEPT ![c] = "none"]
    /\ overlay' = (overlay /\ c \notin mounted)
    /\ UNCHANGED mounted

\* initiateAndValidate: a token, or an error before there is one.
Validate(c) ==
    /\ pc[c] = "validating"
    /\ \/ Go(c, "granted") /\ UNCHANGED <<screenVars, via>>
       \/ Return(c)
    /\ UNCHANGED <<sent, again, stream, link, nativeType, dartVars, settled, resetting,
                   paperVars, counters>>

\* The file is downloaded, decrypted and looked at; any error goes to catch.
Download(c) ==
    /\ pc[c] = "granted"
    /\ Go(c, "ready") \/ Go(c, "failed")
    /\ UNCHANGED <<nativeVars, dartVars, screenVars, settled, resetting, paperVars, counters>>

-----------------------------------------------------------------------------
\* The native cutFile: a thread that writes to the connection of the moment, or
\* an error if there is none.
Thread(c, t, there) ==
    IF there
    THEN /\ Go(c, "sending")
         /\ via' = [via EXCEPT ![c] = t]
         /\ stream' = stream \union {c}
    ELSE Go(c, "failed") /\ UNCHANGED <<via, stream>>

\* Each transport translates the drawing its own way, to Chunks chunks.  USB is
\* opened on demand; the output stream of a Bluetooth socket must be there, and
\* may be broken; anything else is left to the vendor's SDK.
StartUsb(c) == Thread(c, "usb", link["usb"] = "up")
StartBluetooth(c) == Thread(c, "classic", link["classic"] # "null")
StartSdk(c) == Thread(c, "sdk", "sdk" \in Transports /\ link["sdk"] = "up")

\* PlotterService.cutFile up to its native call: the flag is cleared, and the
\* timer there may be is cancelled.  A reset no longer stops those who have not
\* looked at the flag.
BeginCut(c) ==
    /\ pc[c] = "ready"
    /\ cancelled' = FALSE
    /\ timers' = timers \ {timerRef}
    /\ timerRef' = NoTimer
    /\ stopped' = {d \in stopped : pc[d] # "sending" /\ d \notin timers'}
    /\ \/ nativeType = "usb" /\ StartUsb(c)
       \/ nativeType = "classic" /\ StartBluetooth(c)
       \/ nativeType \notin {"usb", "classic"} /\ StartSdk(c)
    /\ UNCHANGED <<sent, again, link, nativeType, dartType, screenVars, settled,
                   resetting, paperVars, counters>>

\* The thread is over; what it wrote may still be on its way.
EndThread(c) == sent' = [sent EXCEPT ![c] = 0] /\ again' = again \ {c}

Sending(c) == pc[c] = "sending" /\ sent[c] < Chunks

\* A write goes well while the connection is up, and may while it is broken and
\* that has not been noticed.  A USB transfer may be short: its count is not read.
SendChunk(c) ==
    /\ Sending(c) /\ c \in stream
    /\ sent' = [sent EXCEPT ![c] = @ + 1]
    /\ IF via[c] # "usb" /\ link[via[c]] = "up"
       THEN received' = [received EXCEPT ![c] = @ \union {sent[c] + 1}] /\ UNCHANGED doubt
       ELSE doubt' = [doubt EXCEPT ![c] = @ \union {sent[c] + 1}] /\ UNCHANGED received
    /\ UNCHANGED <<pc, via, again, stream, link, nativeType, dartVars, screenVars,
                   settled, resetting, counters>>

\* A write fails: the thread's connection was closed, or is found to be broken, or
\* the plotter did not take a USB transfer in time.
WriteFails(c) ==
    Sending(c) /\ (c \in stream => via[c] = "usb" \/ link[via[c]] = "broken")

\* Fault: the thread goes on with the chunk after the one that failed.
ReconnectAndSkip(c) ==
    /\ WriteFails(c) /\ via[c] = "classic" /\ c \notin again
    /\ Gone("classic")
    /\ \/ /\ link' = [link EXCEPT !["classic"] = "up"]
          /\ stream' = (stream \ Over("classic")) \union {c}
          /\ nativeType' = "classic"
          /\ again' = again \union {c}
          /\ sent' = [sent EXCEPT ![c] = @ + 1]
          /\ UNCHANGED pc
       \/ /\ link' = [link EXCEPT !["classic"] = "null"]
          /\ stream' = stream \ Over("classic")
          /\ Go(c, "failed") /\ EndThread(c)
          /\ UNCHANGED nativeType
    /\ UNCHANGED <<via, dartVars, screenVars, settled, resetting, counters>>

\* Once per cut, and only over classic Bluetooth, the thread closes the socket
\* there is, whoever uses it, opens a new one and retries the chunk.
ReconnectClassic(c) ==
    /\ WriteFails(c) /\ via[c] = "classic" /\ c \notin again
    /\ Gone("classic")
    /\ \/ /\ link' = [link EXCEPT !["classic"] = "up"]
          /\ stream' = (stream \ Over("classic")) \union {c}
          /\ nativeType' = "classic"
          /\ again' = again \union {c}
          /\ UNCHANGED <<pc, sent>>
       \/ /\ link' = [link EXCEPT !["classic"] = "null"]
          /\ stream' = stream \ Over("classic")
          /\ Go(c, "failed") /\ EndThread(c)
          /\ UNCHANGED nativeType
    /\ UNCHANGED <<via, dartVars, screenVars, settled, resetting, counters>>

\* A write failed for good: cutFile answers false.
SendFails(c) ==
    /\ WriteFails(c) /\ (via[c] # "classic" \/ c \in again)
    /\ Go(c, "failed") /\ EndThread(c) /\ stream' = stream \ {c}
    /\ UNCHANGED <<via, link, nativeType, dartVars, screenVars, settled, resetting,
                   paperVars, counters>>

\* Fault: the flag is cleared when the countdown starts.
SendDoneClears(c) ==
    /\ pc[c] = "sending" /\ sent[c] = Chunks
    /\ EndThread(c) /\ stream' = stream \ {c}
    /\ IF dartType = "classic"
       THEN /\ Go(c, "countdown") /\ timers' = timers \union {c} /\ timerRef' = c
            /\ cancelled' = FALSE /\ UNCHANGED stopped
       ELSE /\ Go(c, "succeeded") /\ stopped' = stopped \ {c}
            /\ UNCHANGED <<timers, timerRef, cancelled>>
    /\ UNCHANGED <<via, link, nativeType, dartType, screenVars, settled, resetting,
                   paperVars, counters>>

\* Everything is written.  If the service takes the plotter for a classic one,
\* cutFile waits for a new countdown; otherwise it answers true, and a reset has
\* come too late.
SendDone(c) ==
    /\ pc[c] = "sending" /\ sent[c] = Chunks
    /\ EndThread(c) /\ stream' = stream \ {c}
    /\ IF dartType = "classic"
       THEN /\ Go(c, "countdown") /\ timers' = timers \union {c} /\ timerRef' = c
            /\ UNCHANGED stopped
       ELSE /\ Go(c, "succeeded") /\ stopped' = stopped \ {c}
            /\ UNCHANGED <<timers, timerRef>>
    /\ UNCHANGED <<via, link, nativeType, dartType, cancelled, screenVars, settled,
                   resetting, paperVars, counters>>

\* The last tick of a timer: the time is up, or the cut was cancelled.
Tick(c) ==
    /\ c \in timers /\ pc[c] = "countdown"
    /\ timers' = timers \ {c}
    /\ timerRef' = IF timerRef = c THEN NoTimer ELSE timerRef
    /\ Go(c, IF cancelled THEN "failed" ELSE "succeeded")
    /\ UNCHANGED <<nativeVars, dartType, cancelled, stopped, screenVars, settled,
                   resetting, paperVars, counters>>

-----------------------------------------------------------------------------
Report(c, what) == settled' = [settled EXCEPT ![c] = @ \union {what}]

\* Success: the token is committed.  If commitCut throws, before or after it
\* took effect, the catch clause aborts the token.
Commit(c) ==
    /\ pc[c] = "succeeded"
    /\ \/ Report(c, "commit") /\ Return(c)
       \/ Report(c, "commit") /\ Go(c, "failed") /\ UNCHANGED <<screenVars, via>>
       \/ Go(c, "failed") /\ UNCHANGED <<settled, screenVars, via>>
    /\ UNCHANGED <<sent, again, stream, link, nativeType, dartVars, resetting, paperVars,
                   counters>>

\* Fault: the token is forgotten.
AbortSilently(c) ==
    /\ pc[c] = "failed"
    /\ Return(c)
    /\ UNCHANGED <<sent, again, stream, link, nativeType, dartVars, settled, resetting,
                   paperVars, counters>>

\* Failure: the token is aborted.
Abort(c) ==
    /\ pc[c] = "failed"
    /\ Report(c, "abort")
    /\ Return(c)
    /\ UNCHANGED <<sent, again, stream, link, nativeType, dartVars, resetting, paperVars,
                   counters>>

-----------------------------------------------------------------------------
\* Cancel Cut and the reset buttons, up to the native call: the flag is set,
\* and the timer, which would see the flag, is cancelled.
Reset ==
    /\ ~resetting /\ resets < MaxResets
    /\ resets' = resets + 1
    /\ cancelled' = TRUE
    /\ timers' = timers \ {timerRef} /\ timerRef' = NoTimer
    /\ stopped' = stopped \union {c \in Cuts : pc[c] \in {"sending", "countdown"}}
    /\ resetting' = TRUE
    /\ UNCHANGED <<pc, nativeVars, dartType, screenVars, settled, paperVars, breaks>>

\* The native reset: IN over an open connection, which is the plotter's matter;
\* a Bluetooth socket that is closed, or found to be broken, is closed and opened
\* anew.  Cancel Cut then hides the overlay, the other reset buttons do not.
FinishReset ==
    /\ resetting /\ resetting' = FALSE
    /\ \/ /\ nativeType = "classic" /\ link["classic"] # "up"
          /\ stream' = stream \ Over("classic") /\ Gone("classic")
          /\ \/ link' = [link EXCEPT !["classic"] = "up"] /\ UNCHANGED nativeType
             \/ link' = [link EXCEPT !["classic"] = "null"] /\ nativeType' = "none"
       \/ /\ nativeType = "classic" => link["classic"] # "null"
          /\ UNCHANGED <<link, stream, nativeType, paperVars>>
    /\ overlay' \in {FALSE, overlay}
    /\ UNCHANGED <<pc, via, sent, again, dartVars, mounted, settled, counters>>

\* Back: the screen goes, its cuts go on.
LeaveScreen ==
    /\ overlay' = FALSE /\ mounted' = {}
    /\ UNCHANGED <<pc, nativeVars, dartVars, settled, resetting, paperVars, counters>>

Close(t) ==
    /\ link' = [link EXCEPT ![t] = "null"]
    /\ stream' = stream \ Over(t) /\ Gone(t)

\* PlotterService.connect over Bluetooth: on success the native type and the
\* service's agree, and a thread keeps the socket it has, which is broken; on
\* failure the service forgets its type, the native side keeps what it has.
ConnectBluetooth(t) ==
    /\ \/ /\ link[t] # "up"
          /\ link' = [link EXCEPT ![t] = "up"] /\ stream' = stream \ Over(t)
          /\ nativeType' = t /\ dartType' = t
       \/ dartType' = "none" /\ UNCHANGED <<link, stream, nativeType>>
    /\ UNCHANGED <<pc, via, sent, again, cancelVars, screenVars, settled, resetting,
                   paperVars, counters>>

\* Over USB: a Bluetooth socket and the USB connection are closed first.
ConnectUsb ==
    /\ "usb" \in Transports /\ link["usb"] = "up"
    /\ link' = [t \in Transports |-> IF t = "classic" THEN "null" ELSE link[t]]
    /\ stream' = stream \ (Over("classic") \union Over("usb")) /\ Gone("classic")
    /\ \/ nativeType' = "usb" /\ dartType' = "usb"
       \/ /\ nativeType' = IF nativeType = "sdk" THEN "sdk" ELSE "none"
          /\ dartType' = "none"
    /\ UNCHANGED <<pc, via, sent, again, cancelVars, screenVars, settled, resetting,
                   counters>>

\* PlotterService.disconnect: closes the connection of the native type.  A USB
\* plotter stays plugged in.
Disconnect ==
    /\ IF nativeType \in {"classic", "sdk"}
       THEN Close(nativeType)
       ELSE stream' = stream \ Over("usb") /\ UNCHANGED <<link, paperVars>>
    /\ nativeType' = "none" /\ dartType' = "none"
    /\ UNCHANGED <<pc, via, sent, again, cancelVars, screenVars, settled, resetting,
                   counters>>

\* The Bluetooth link breaks, which a thread notices at one of its next writes,
\* or the USB cable is pulled, which closes the connection.
LinkBreaks(t) ==
    /\ link[t] = "up" /\ breaks < MaxBreaks
    /\ breaks' = breaks + 1
    /\ IF t = "classic"
       THEN link' = [link EXCEPT ![t] = "broken"] /\ Gone(t) /\ UNCHANGED stream
       ELSE Close(t)
    /\ nativeType' = IF t = "usb" /\ nativeType = "usb" THEN "none" ELSE nativeType
    /\ UNCHANGED <<pc, via, sent, again, dartVars, screenVars, settled, resetting, resets>>

\* The USB cable is plugged in again.
PlugIn ==
    /\ "usb" \in Transports /\ link["usb"] = "null"
    /\ link' = [link EXCEPT !["usb"] = "up"]
    /\ UNCHANGED <<pc, via, sent, again, stream, nativeType, dartVars, screenVars,
                   settled, resetting, paperVars, counters>>

-----------------------------------------------------------------------------
Progress(c) ==
    \/ Validate(c) \/ Download(c) \/ BeginCut(c)
    \/ SendChunk(c) \/ ReconnectClassic(c) \/ SendFails(c) \/ SendDone(c)
    \/ Tick(c) \/ Commit(c) \/ Abort(c)

PlotterNext ==
    \/ \E c \in Cuts : StartCut(c) \/ Progress(c)
    \/ CheckConnection \/ Reset \/ FinishReset \/ LeaveScreen
    \/ ConnectUsb \/ Disconnect \/ PlugIn
    \/ \E t \in Transports \ {"usb"} : ConnectBluetooth(t)
    \/ \E t \in Transports : LinkBreaks(t)

\* Threads, timers and awaited calls go on; what the user does is not owed.
PlotterSpec ==
    PlotterInit /\ [][PlotterNext]_plotterVars /\ \A c \in Cuts : WF_plotterVars(Progress(c))

-----------------------------------------------------------------------------
Committed(c) == "commit" \in settled[c]

\* A cut is charged only for a drawing that was written in full, whatever its thread
\* met: the chunk whose write failed was written again, none was skipped.  Only those
\* in doubt may be missing on the plotter: written without an error to a Bluetooth
\* connection that was broken, or broke or was closed before the cut was over (by a
\* disconnect, a reset, another cut's thread), or in a USB transfer.
ChargedIsCut ==
    \A c \in Cuts : Committed(c) => 1..Chunks \subseteq received[c] \union doubt[c]

\* Cuts whose cutFile waits for a timer that was cancelled.
Stranded(c) == pc[c] = "countdown" /\ c \notin timers

\* Every cut is reported, committed or aborted, unless its timer was cancelled,
\* as only a reset or a later cut does.
CutsReported ==
    \A c \in Cuts :
        pc[c] = "granted" ~>
            \/ settled[c] # {}
            \/ Stranded(c) /\ (resets > 0 \/ \E d \in Cuts \ {c} : pc[d] # "idle")

\* A cut that a reset met while it was sent or counted down is not charged: its
\* timer is gone, or will see the flag.  Out of reach are a cut without a countdown
\* and one that has not looked at the flag when a later cut clears it.
StoppedNotCharged == \A c \in stopped : ~Committed(c)
=============================================================================
