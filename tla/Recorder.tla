------------------------------ MODULE Recorder ------------------------------
(***************************************************************************)
(* DashcamRecorder.py: the recording thread writes clips to temp_vid, and  *)
(* the wrapping thread turns them into dashcam_video_N.mp4 with ffmpeg,    *)
(* removes the oldest when the folder is too large, and then renumbers     *)
(* those that are left, one rename after the other.  The power can fail    *)
(* between any two steps, for the unit has no battery.  The GUI, another   *)
(* process, lists the folder and plays a file later, by its name.          *)
(*                                                                         *)
(* Clips are numbered by age.  A rename is atomic and replaces a file of   *)
(* that name, as POSIX has it.  What was done before a loss of power is on *)
(* the disk.                                                               *)
(***************************************************************************)
EXTENDS Naturals, Sequences, FiniteSets, FiniteSetsExt

CONSTANTS
  MaxClips,      \* bound on the clips that are recorded
  MaxRuns,       \* bound on the starts of the process
  ClipSize,      \* the size of each clip
  MB,            \* 1000000
  max_size_mb

Clips == 1 .. MaxClips

ASSUME RecorderAssumption ==
  /\ MaxClips \in Nat /\ MaxRuns \in Nat
  /\ ClipSize \in [Clips -> Nat]
  /\ MB \in Nat \ {0} /\ max_size_mb \in Nat

VARIABLES
  files,           \* the files in record_path
  temp,            \* the raw files in temp_vid
  clips,           \* the last clip begun
  first,           \* the last one of the runs before (history)
  runs,            \* starts of the process so far
  terminate_event,
  wrapping_queue,
  rec,             \* where the recording thread is
  wrap,            \* where the wrapping thread is
  clip,            \* file_to_wrap_path, or 0
  back,            \* where check_reduce returns to
  file_paths,      \* the files renumber_files has still to rename
  cnt,             \* the number for the next one
  listing,         \* the raw files cleanup has still to remove
  picked           \* a file of the GUI's list, or NoFile

diskVars == <<files, temp>>
wrapVars == <<wrap, clip, back, file_paths, cnt, listing>>
vars == <<diskVars, clips, first, runs, terminate_event, wrapping_queue, rec,
          wrapVars, picked>>

\* A file that ffmpeg did not finish is smaller than its clip.
File(n, c, s) == [num |-> n, clip |-> c, size |-> s]
Files == [num : 0 .. MaxClips - 1, clip : Clips, size : Nat]
NoFile == File(0, 0, 0)

TypeOK ==
  /\ files \subseteq Files
  /\ temp \subseteq Clips
  /\ clips \in 0 .. MaxClips
  /\ first \in 0 .. MaxClips
  /\ runs \in 0 .. MaxRuns
  /\ terminate_event \in BOOLEAN
  /\ wrapping_queue \in Seq(Clips)
  /\ rec \in {"off", "check", "start", "recording", "put", "closed"}
  /\ wrap \in {"off", "outer", "inner", "wrap", "remove", "reduce",
               "renumber", "cleanup", "cleaning", "closed"}
  /\ clip \in Clips \cup {0}
  /\ back \in {"outer", "inner"}
  /\ file_paths \subseteq Files
  /\ cnt \in 0 .. MaxClips
  /\ listing \subseteq Clips
  /\ picked \in Files \cup {NoFile}

Init ==
  /\ files = {} /\ temp = {}
  /\ clips = 0 /\ first = 0 /\ runs = 0
  /\ terminate_event = FALSE
  /\ wrapping_queue = <<>>
  /\ rec = "off" /\ wrap = "off"
  /\ clip = 0 /\ back = "outer"
  /\ file_paths = {} /\ cnt = 0
  /\ listing = {}
  /\ picked = NoFile

-----------------------------------------------------------------------------
(* The process.                                                            *)

\* start_recorder, in a new process: nothing looks at what is in temp_vid.
Start ==
  /\ rec = "off" /\ wrap = "off" /\ runs < MaxRuns
  /\ runs' = runs + 1
  /\ first' = clips
  /\ terminate_event' = FALSE
  /\ rec' = "check" /\ wrap' = "outer"
  /\ UNCHANGED <<diskVars, clips, wrapping_queue, clip, back, file_paths, cnt,
                 listing, picked>>

\* terminate(), which then waits for both threads.
Terminate ==
  /\ rec # "off" /\ ~terminate_event
  /\ terminate_event' = TRUE
  /\ UNCHANGED <<diskVars, clips, first, runs, wrapping_queue, rec, wrapVars,
                 picked>>

Ends ==
  /\ rec' = "off" /\ wrap' = "off"
  /\ wrapping_queue' = <<>>
  /\ clip' = 0 /\ back' = "outer"
  /\ file_paths' = {} /\ cnt' = 0
  /\ listing' = {}
  /\ UNCHANGED <<diskVars, clips, first, runs, terminate_event, picked>>

Joined == rec = "closed" /\ wrap = "closed" /\ Ends

\* No power, or a signal that kills the process.
Crash == rec # "off" /\ Ends

-----------------------------------------------------------------------------
(* recording_thread_func.                                                  *)

recFrame == <<files, first, runs, terminate_event, wrapVars, picked>>

CheckTerminate ==
  /\ rec = "check"
  /\ \/ terminate_event /\ rec' = "closed"
     \/ ~terminate_event /\ clips < MaxClips /\ rec' = "start"
  /\ UNCHANGED <<recFrame, temp, clips, wrapping_queue>>

\* The file exists from here on.
StartRecording ==
  /\ rec = "start"
  /\ clips' = clips + 1
  /\ temp' = temp \cup {clips'}
  /\ rec' = "recording"
  /\ UNCHANGED <<recFrame, wrapping_queue>>

\* After the interval, or because of terminate_event.
StopRecording ==
  /\ rec = "recording"
  /\ rec' = "put"
  /\ UNCHANGED <<recFrame, temp, clips, wrapping_queue>>

Put ==
  /\ rec = "put"
  /\ wrapping_queue' = Append(wrapping_queue, clips)
  /\ rec' = "check"
  /\ UNCHANGED <<recFrame, temp, clips>>

Record == CheckTerminate \/ StartRecording \/ StopRecording \/ Put

-----------------------------------------------------------------------------
(* wrapping_thread_func.                                                   *)

wrapFrame == <<clips, first, runs, terminate_event, rec, picked>>

Outer ==
  /\ wrap = "outer"
  /\ wrap' = IF terminate_event THEN "cleanup" ELSE "inner"
  /\ UNCHANGED <<wrapFrame, diskVars, wrapping_queue, clip, back, file_paths, cnt,
                 listing>>

\* The raw file of a queued clip exists (see RawAccounted), so that the loop
\* that waits for it is left at once.
Take ==
  /\ wrap = "inner" /\ wrapping_queue # <<>> /\ ~terminate_event
  /\ clip' = Head(wrapping_queue)
  /\ wrapping_queue' = Tail(wrapping_queue)
  /\ wrap' = "wrap"
  /\ UNCHANGED <<wrapFrame, diskVars, back, file_paths, cnt, listing>>

Idle_no_reduce ==
  /\ wrap = "inner" /\ (wrapping_queue = <<>> \/ terminate_event)
  /\ wrap' = "outer"
  /\ UNCHANGED <<wrapFrame, diskVars, wrapping_queue, clip, back, file_paths,
                 cnt, listing>>

\* check_reduce again, and back to the outer loop after 0.1 s.
Idle ==
  /\ wrap = "inner" /\ (wrapping_queue = <<>> \/ terminate_event)
  /\ wrap' = "reduce" /\ back' = "outer"
  /\ UNCHANGED <<wrapFrame, diskVars, wrapping_queue, clip, file_paths, cnt,
                 listing>>

get_video_num_skips ==
  IF files = {} THEN 0 ELSE 2 + CHOOSE n \in {f.num : f \in files} :
                                  \A f \in files : f.num <= n

\* The number after the largest one.
get_video_num ==
  IF files = {} THEN 0 ELSE 1 + CHOOSE n \in {f.num : f \in files} :
                                  \A f \in files : f.num <= n

\* ffmpeg fails before it opens its output, or its output grows until it, or the
\* power, fails or the clip is complete.  Its result is ignored, and nothing reads
\* the size before it ends.
Ffmpeg ==
  /\ wrap = "wrap"
  /\ \/ \E s \in 0 .. ClipSize[clip] :
          files' = files \cup {File(get_video_num, clip, s)}
     \/ UNCHANGED files
  /\ wrap' = "remove"
  /\ UNCHANGED <<wrapFrame, temp, wrapping_queue, clip, back, file_paths, cnt,
                 listing>>

RemoveRaw_forgotten ==
  /\ wrap = "remove"
  /\ clip' = 0
  /\ wrap' = "reduce" /\ back' = "inner"
  /\ UNCHANGED <<wrapFrame, diskVars, wrapping_queue, file_paths, cnt, listing>>

RemoveRaw ==
  /\ wrap = "remove"
  /\ temp' = temp \ {clip}
  /\ clip' = 0
  /\ wrap' = "reduce" /\ back' = "inner"
  /\ UNCHANGED <<wrapFrame, files, wrapping_queue, file_paths, cnt, listing>>

-----------------------------------------------------------------------------
(* check_reduce and renumber_files.                                        *)

get_size == MapThenSumSet(LAMBDA f : f.size, files)

TooLarge == get_size \div MB > max_size_mb

LowestNumber_last(F) == CHOOSE f \in F : \A g \in F : g.num <= f.num

\* get_sorted_video_paths: the first of them.
LowestNumber(F) == CHOOSE f \in F : \A g \in F : f.num <= g.num

ReduceOne ==
  /\ wrap = "reduce" /\ TooLarge /\ files # {}
  /\ files' = files \ {LowestNumber(files)}
  /\ file_paths' = files'
  /\ cnt' = 0
  /\ wrap' = "renumber"
  /\ UNCHANGED <<wrapFrame, temp, wrapping_queue, clip, back, listing>>

ReduceNone ==
  /\ wrap = "reduce" /\ (~TooLarge \/ files = {})
  /\ wrap' = back
  /\ UNCHANGED <<wrapFrame, diskVars, wrapping_queue, clip, back, file_paths, cnt,
                 listing>>

\* os.rename to number cnt.
RenameNext ==
  /\ wrap = "renumber" /\ file_paths # {}
  /\ LET f == LowestNumber(file_paths)
     IN  /\ files' = {g \in files : g # f /\ g.num # cnt}
                       \cup {[f EXCEPT !.num = cnt]}
         /\ file_paths' = file_paths \ {f}
  /\ cnt' = cnt + 1
  /\ UNCHANGED <<wrapFrame, temp, wrapping_queue, wrap, clip, back, listing>>

RenumberDone ==
  /\ wrap = "renumber" /\ file_paths = {}
  /\ wrap' = back
  /\ cnt' = 0
  /\ UNCHANGED <<wrapFrame, diskVars, wrapping_queue, clip, back, file_paths,
                 listing>>

-----------------------------------------------------------------------------
(* cleanup, at the end of the thread.                                      *)

CleanupList ==
  /\ wrap = "cleanup"
  /\ listing' = temp
  /\ wrap' = "cleaning"
  /\ UNCHANGED <<wrapFrame, diskVars, wrapping_queue, clip, back, file_paths, cnt>>

CleanupNext ==
  /\ wrap = "cleaning"
  /\ IF listing = {} THEN wrap' = "closed" /\ UNCHANGED <<temp, listing>>
     ELSE \E c \in listing : /\ temp' = temp \ {c}
                             /\ listing' = listing \ {c}
                             /\ UNCHANGED wrap
  /\ UNCHANGED <<wrapFrame, files, wrapping_queue, clip, back, file_paths, cnt>>

Wrap ==
  \/ Outer \/ Take \/ Idle \/ Ffmpeg \/ RemoveRaw
  \/ ReduceOne \/ ReduceNone \/ RenameNext \/ RenumberDone
  \/ CleanupList \/ CleanupNext

-----------------------------------------------------------------------------
\* The GUI lists the folder and the user picks a name.
Pick ==
  /\ \E f \in files : picked' = File(f.num, f.clip, 0)
  /\ UNCHANGED <<diskVars, clips, first, runs, terminate_event, wrapping_queue,
                 rec, wrapVars>>

Next ==
  \/ Start \/ Terminate \/ Joined \/ Crash
  \/ Record \/ Wrap \/ Pick

Spec == Init /\ [][Next]_vars

\* The operating system runs the wrapping thread, and ffmpeg ends.
FairSpec == Spec /\ WF_vars(Wrap)

-----------------------------------------------------------------------------
(* Properties.                                                             *)

\* A file with a larger number is a later clip, also while the files are being
\* renamed and after a loss of power in the middle, which leaves gaps that no
\* one repairs before the next renumbering.
AgeOrder ==
  \A f, g \in files : /\ f.clip < g.clip => f.num < g.num
                      /\ f.clip = g.clip => f = g

\* The name that the GUI picked may by now be that of a later clip, or of none,
\* but never of an earlier one.
PickedOrLater == \A f \in files : f.num = picked.num => f.clip >= picked.clip

\* What the numbers in the names say, to the recorder and to the GUI.
NamesFollowAge == AgeOrder /\ PickedOrLater

Stored(F) == {f.clip : f \in F}

\* No clip that was stored is lost in the renaming, overwritten by another, or
\* removed but as the oldest one of a folder that is too large, whatever
\* crashes and restarts came before.
OldestFirst ==
  [][\A c \in Stored(files) \ Stored(files') :
       TooLarge /\ \A d \in Stored(files) : c <= d]_vars

\* The clips of this run that have not been stored, in the order of their age.
InHand ==
  (IF clip = 0 THEN <<>> ELSE <<clip>>) \o wrapping_queue
  \o (IF rec \in {"recording", "put"} THEN <<clips>> ELSE <<>>)

\* Until terminate() the raw files of this run are exactly the clips in hand:
\* none is left behind, and none is missing when its turn comes.
RawAccounted ==
  ~terminate_event /\ rec # "off" =>
    {c \in temp : c > first} = {InHand[i] : i \in DOMAIN InHand}

\* A folder that is too large is reduced, though a wrapped clip may be larger
\* than the one that was removed for it.
LimitKept == TooLarge ~> (~TooLarge \/ terminate_event \/ wrap = "off")

=============================================================================
