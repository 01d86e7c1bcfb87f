------------------------------ MODULE FrameGrab ------------------------------
(***************************************************************************)
(* How anpr_loop of one worker gets a frame of a Sentinel camera: through  *)
(* a publisher process that restreams the camera's HLS to the internal     *)
(* MediaMTX, from the grid's RTSP port while that is not backed off, or    *)
(* from HLS with a session that is renewed when it is rejected.  Each URL  *)
(* is tried as a burst and then twice as a single frame.  OpenCV reads in  *)
(* a thread that is left behind when it does not come back in time.        *)
(***************************************************************************)
EXTENDS Naturals, Sequences

CONSTANTS
    Cams,         \* sentinel cameras online in the database
    HasRtsp,      \* those with an rtsp_url
    HasHls,       \* those with an hls_url
    Cctv,         \* those whose HLS is on cctv.corp8.cloud
    LocalRtsp,    \* sentinel_local_rtsp_url is set
    Attempts,     \* HLS sessions tried for one segment (5 in the code)
    FloatLimit,   \* 2.0 * 2 ** n raises from this n on (1024 in the code)
    MaxRtspFails, \* bound: failures of :8554 that the worker counts
    MaxStreak,    \* bound: failed samples in one outage of HLS
    MaxOutages    \* bound: outages of HLS

ASSUME CamsAssumption == HasRtsp \subseteq Cams /\ HasHls \subseteq Cams /\ Cctv \subseteq HasHls
ASSUME NatsAssumption ==
    /\ {FloatLimit, MaxRtspFails, MaxStreak, MaxOutages} \subseteq Nat
    /\ Attempts \in Nat \ {0}
    /\ LocalRtsp \in BOOLEAN

VARIABLES
    hlsUp, outages,       \* the grid's HLS delivers frames; outages so far
    pc, cam, urls, tries, \* sample_camera: its step, camera, URLs left, sessions tried
    hlsFailed,            \* history: HLS refused this sample something
    got,                  \* whether the last sample got a frame
    streak, running,      \* anpr_loop: fail_streak, and whether it still runs
    rtspFails, backedOff, \* _rtsp_failures; _rtsp_retry_at lies ahead
    tracked, procs,       \* _local_sid; cameras a live publisher process restreams
    threads               \* kinds of capture a thread left behind holds open

loop == <<pc, cam, urls, tries, hlsFailed, got, streak, running>>
rtsp == <<rtspFails, backedOff>>
publisher == <<tracked, procs>>
grabVars == <<hlsUp, outages, loop, rtsp, publisher, threads>>

NoCam == "none"
Kinds == {"local", "rtsp", "hls"}
Steps == {"idle", "publish", "waiting", "burst", "first", "second"}

GrabTypeOK ==
    /\ hlsUp \in BOOLEAN /\ outages \in 0..MaxOutages
    /\ pc \in Steps /\ cam \in Cams \cup {NoCam} /\ urls \in Seq(Kinds) /\ Len(urls) <= 3
    /\ tries \in 0..(Attempts - 1)
    /\ hlsFailed \in BOOLEAN /\ got \in BOOLEAN /\ running \in BOOLEAN
    /\ streak \in Nat
    /\ rtspFails \in 0..MaxRtspFails /\ backedOff \in BOOLEAN
    /\ tracked \in Cams \cup {NoCam} /\ procs \subseteq Cams
    /\ threads \subseteq Kinds

GrabInit ==
    /\ hlsUp = TRUE /\ outages = 0
    /\ pc = "idle" /\ cam = NoCam /\ urls = <<>> /\ tries = 0
    /\ hlsFailed = FALSE /\ got = TRUE /\ streak = 0 /\ running = TRUE
    /\ rtspFails = 0 /\ backedOff = FALSE
    /\ tracked = NoCam /\ procs = {} /\ threads = {}

-----------------------------------------------------------------------------
(* The end of a sample: a frame, or none, or an exception, which anpr_loop *)
(* counts as none.  The delay of the next one is computed outside its try. *)
Ended(frame) ==
    /\ pc' = "idle" /\ urls' = <<>> /\ tries' = 0
    /\ got' = frame
    /\ streak' = IF frame THEN 0 ELSE streak + 1
    /\ running' = (frame \/ streak < FloatLimit)
    /\ UNCHANGED cam

GoTo(step, left) ==
    /\ pc' = step /\ urls' = left /\ tries' = 0
    /\ UNCHANGED <<cam, got, streak, running>>

(* Mutant of NextUrl: the sample gives up with its first URL. *)
NextUrlNever == Ended(FALSE)

(* The for loop of sample_camera over its URLs. *)
NextUrl == IF Len(urls) = 1 THEN Ended(FALSE) ELSE GoTo("burst", Tail(urls))

(* _grab_frame_sample came back without a frame: it was the one inside     *)
(* _grab_frame_burst, or the one after it.                                 *)
Missed == IF pc = "first" THEN GoTo("second", urls) ELSE NextUrl

(***************************************************************************)
(* inference_urls, and what sample_camera makes of it once it knows        *)
(* whether the local publisher is ready.                                   *)
(***************************************************************************)
InferenceUrls(c) ==
    (IF c \in HasRtsp /\ ~backedOff THEN <<"rtsp">> ELSE <<>>)
    \o (IF c \in HasHls THEN <<"hls">> ELSE <<>>)

(* The URLs that are not RTSP: inference_urls puts RTSP first, if at all.  *)
WithoutRtsp(us) == IF us # <<>> /\ Head(us) = "rtsp" THEN Tail(us) ELSE us

(* Mutant of WithLocal: HLS is given up with direct RTSP. *)
WithLocalOnly(us) == <<"local">>

WithLocal(us) == <<"local">> \o WithoutRtsp(us)

WithoutLocal(us) == IF WithoutRtsp(us) = <<>> THEN us ELSE WithoutRtsp(us)

UsesPublisher(c) == LocalRtsp /\ c \in HasHls \ Cctv

Pick(c) ==
    /\ pc = "idle" /\ running
    /\ streak < MaxStreak \/ hlsUp
    /\ cam' = c /\ hlsFailed' = FALSE /\ tries' = 0
    /\ IF InferenceUrls(c) = <<>> /\ ~UsesPublisher(c)
       THEN /\ got' = FALSE /\ streak' = streak + 1 /\ running' = (streak < FloatLimit)
            /\ UNCHANGED <<pc, urls>>
       ELSE /\ pc' = IF UsesPublisher(c) THEN "publish" ELSE "burst"
            /\ urls' = InferenceUrls(c)
            /\ UNCHANGED <<got, streak, running>>
    /\ UNCHANGED <<hlsUp, outages, rtsp, publisher, threads>>

(***************************************************************************)
(* _ensure_local_publisher: a live publisher of this camera is kept; any   *)
(* other is stopped before the playlist is asked for, which may raise.     *)
(* A playlist may come although no frame does.                             *)
(***************************************************************************)
PublisherKept == tracked = cam /\ cam \in procs

KeepPublisher ==
    /\ pc = "publish" /\ PublisherKept
    /\ GoTo("burst", WithLocal(urls))
    /\ UNCHANGED <<hlsUp, outages, hlsFailed, rtsp, publisher, threads>>

(* Mutant of Stopped: the process is forgotten, not stopped. *)
StoppedNot == procs

(* _stop_local_publisher: terminate, wait, kill. *)
Stopped == procs \ {tracked}

StartPublisher ==
    /\ pc = "publish" /\ ~PublisherKept
    /\ procs' = Stopped \cup {cam} /\ tracked' = cam
    /\ GoTo("waiting", urls)
    /\ UNCHANGED <<hlsUp, outages, hlsFailed, rtsp, threads>>

NoPlaylist ==
    /\ pc = "publish" /\ ~PublisherKept /\ ~hlsUp
    /\ procs' = Stopped /\ tracked' = NoCam
    /\ hlsFailed' = TRUE
    /\ GoTo("burst", WithoutLocal(urls)) \/ Ended(FALSE)
    /\ UNCHANGED <<hlsUp, outages, rtsp, threads>>

PublisherReady ==
    /\ pc = "waiting" /\ cam \in procs
    /\ GoTo("burst", WithLocal(urls))
    /\ UNCHANGED <<hlsUp, outages, hlsFailed, rtsp, publisher, threads>>

(* It exited, or 20 seconds are over. *)
PublisherNotReady ==
    /\ pc = "waiting"
    /\ procs' = Stopped /\ tracked' = NoCam
    /\ GoTo("burst", WithoutLocal(urls))
    /\ UNCHANGED <<hlsUp, outages, hlsFailed, rtsp, threads>>

-----------------------------------------------------------------------------
(* A burst through OpenCV: frames, none, or a thread that does not come    *)
(* back.  A burst from :8554 leaves _rtsp_failures as it is.               *)
Works(kind) == CASE kind = "local" -> cam \in procs
                 [] kind = "hls" -> hlsUp
                 [] kind = "rtsp" -> TRUE

Burst ==
    /\ pc = "burst"
    /\ \/ /\ Works(Head(urls)) /\ Ended(TRUE)
          /\ UNCHANGED threads
       \/ /\ GoTo("first", urls)
          /\ threads' \in {threads, threads \cup {Head(urls)}}
    /\ UNCHANGED <<hlsUp, outages, hlsFailed, rtsp, publisher>>

(* _grab_frame_sample of the local RTSP: OpenCV or nothing. *)
SampleLocal ==
    /\ pc \in {"first", "second"} /\ Head(urls) = "local"
    /\ \/ Works("local") /\ Ended(TRUE) /\ UNCHANGED threads
       \/ Missed /\ threads' \in {threads, threads \cup {"local"}}
    /\ UNCHANGED <<hlsUp, outages, hlsFailed, rtsp, publisher>>

RtspAvailable == ~backedOff

(* _mark_rtsp_failure raises once the power is too large for a float, the  *)
(* time of the next try not yet set; the exception ends the sample.        *)
MarkRtspFailure ==
    /\ rtspFails < MaxRtspFails
    /\ rtspFails' = rtspFails + 1
    /\ IF rtspFails < FloatLimit THEN backedOff' = TRUE /\ Missed
       ELSE Ended(FALSE) /\ UNCHANGED backedOff

MarkRtspSuccess == rtspFails' = 0 /\ backedOff' = FALSE

(* _grab_frame_sample of :8554: a TCP probe, OpenCV, then ffmpeg. *)
TryRtsp ==
    /\ pc \in {"first", "second"} /\ Head(urls) = "rtsp" /\ RtspAvailable
    /\ \/ MarkRtspSuccess /\ Ended(TRUE)
       \/ MarkRtspFailure
       \/ Missed /\ UNCHANGED rtsp
    /\ threads' \in {threads, threads \cup {"rtsp"}}
    /\ UNCHANGED <<hlsUp, outages, hlsFailed, publisher>>

SkipRtsp ==
    /\ pc \in {"first", "second"} /\ Head(urls) = "rtsp" /\ ~RtspAvailable
    /\ Missed
    /\ UNCHANGED <<hlsUp, outages, hlsFailed, rtsp, publisher, threads>>

(***************************************************************************)
(* _grab_frame_sample of HLS: ffmpeg on the playlist of the cctv host, or  *)
(* on a segment that fetch_hls_segment gets.  A session rejected with 401  *)
(* or 403 is renewed; another answer ends the fetch; no answer raises.     *)
(* hlsUp stands for all of it, so an ffmpeg that times out, is rejected or *)
(* leaves no JPEG is an HLS that refuses.                                  *)
(***************************************************************************)
SampleHls ==
    /\ pc \in {"first", "second"} /\ Head(urls) = "hls" /\ hlsUp
    /\ Ended(TRUE)
    /\ UNCHANGED <<hlsUp, outages, hlsFailed, rtsp, publisher, threads>>

HlsRefused ==
    /\ pc \in {"first", "second"} /\ Head(urls) = "hls" /\ ~hlsUp
    /\ hlsFailed' = TRUE
    /\ Missed \/ (cam \notin Cctv /\ Ended(FALSE))
    /\ UNCHANGED <<hlsUp, outages, rtsp, publisher, threads>>

(* Mutant of LastAttempt: sessions are renewed for ever. *)
LastAttemptNever == FALSE

LastAttempt == tries + 1 = Attempts

HlsRejected ==
    /\ pc \in {"first", "second"} /\ Head(urls) = "hls" /\ ~hlsUp /\ cam \notin Cctv
    /\ hlsFailed' = TRUE
    /\ IF LastAttempt THEN Missed
       ELSE /\ tries' = (tries + 1) % Attempts
            /\ UNCHANGED <<pc, cam, urls, got, streak, running>>
    /\ UNCHANGED <<hlsUp, outages, rtsp, publisher, threads>>

Sampling ==
    \/ \E c \in Cams : Pick(c)
    \/ KeepPublisher \/ StartPublisher \/ NoPlaylist \/ PublisherReady \/ PublisherNotReady
    \/ Burst \/ SampleLocal \/ TryRtsp \/ SkipRtsp \/ SampleHls \/ HlsRefused \/ HlsRejected

-----------------------------------------------------------------------------
(* The grid's HLS fails and comes back; the back-off of :8554 runs out; a  *)
(* publisher exits; a thread left behind comes back.                       *)
HlsChanges ==
    /\ hlsUp => outages < MaxOutages
    /\ hlsUp' = ~hlsUp
    /\ outages' = IF hlsUp THEN outages + 1 ELSE outages
    /\ UNCHANGED <<loop, rtsp, publisher, threads>>

BackoffEnds ==
    /\ backedOff /\ backedOff' = FALSE
    /\ UNCHANGED <<hlsUp, outages, loop, rtspFails, publisher, threads>>

PublisherExits ==
    /\ \E c \in procs : procs' = procs \ {c}
    /\ UNCHANGED <<hlsUp, outages, loop, rtsp, tracked, threads>>

ThreadReturns ==
    /\ \E k \in threads : threads' = threads \ {k}
    /\ UNCHANGED <<hlsUp, outages, loop, rtsp, publisher>>

(* The exception of anpr_loop ends asyncio.gather in main, and with it the  *)
(* container and its children; it is started again.                        *)
WorkerRestarts ==
    /\ ~running
    /\ pc' = "idle" /\ cam' = NoCam /\ urls' = <<>> /\ tries' = 0
    /\ hlsFailed' = FALSE /\ got' = FALSE /\ streak' = 0 /\ running' = TRUE
    /\ rtspFails' = 0 /\ backedOff' = FALSE
    /\ tracked' = NoCam /\ procs' = {} /\ threads' = {}
    /\ UNCHANGED <<hlsUp, outages>>

GrabNext ==
    \/ Sampling \/ WorkerRestarts
    \/ HlsChanges \/ BackoffEnds \/ PublisherExits \/ ThreadReturns

(* anpr_loop never waits without a time limit: joins, requests, ffmpeg and *)
(* the wait for the publisher all have one.  A worker that ends is started *)
(* again by its restart policy.                                            *)
GrabFairness == WF_grabVars(Sampling) /\ WF_grabVars(WorkerRestarts)

GrabSpec == GrabInit /\ [][GrabNext]_grabVars
FairGrabSpec == GrabSpec /\ GrabFairness

-----------------------------------------------------------------------------
(* A publisher process is one the worker knows of: the next sample finds   *)
(* or stops it, however it was started and whichever exit was taken        *)
(* (_ensure_local_publisher, _stop_local_publisher).                       *)
NoOrphanPublisher == procs \subseteq {tracked}

(* "If :8554 is blocked, use HLS" (header of sentinel.py): a sample of a    *)
(* camera with an HLS URL ends without a frame only if HLS refused it      *)
(* something, whatever became of RTSP, the publisher and OpenCV.           *)
HlsFallback ==
    [][pc # "idle" /\ pc' = "idle" /\ ~got' /\ cam \in HasHls => hlsFailed']_grabVars

(* "Reconnect with 2-30s backoff": the loop goes on sampling whatever      *)
(* fails.  Not so: the delay after FloatLimit failures cannot be computed. *)
LoopLives == running

(* If HLS answers from some time on, frames come again and again, whatever *)
(* failed before, the loop itself included.                                *)
Recovers == <>[]hlsUp => []<>got

(* A sample ends, even one whose every session is rejected. *)
SampleEnds == pc # "idle" ~> pc = "idle"

(* "One live capture at a time, then close it": no thread left behind      *)
(* holds a capture while the next one is opened.                           *)
OneCapture == [][pc = "burst" /\ pc' # "burst" => threads = {}]_loop
=============================================================================
