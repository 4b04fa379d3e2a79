--------------------------- MODULE RecorderProofs ---------------------------
(***************************************************************************)
(* Theorems about Recorder: whatever the sizes of the clips and the limit, *)
(* and wherever the power fails, the numbers in the names follow the age   *)
(* of the clips, only the oldest is removed, and raw files are accounted   *)
(* for.                                                                    *)
(***************************************************************************)
EXTENDS Recorder, TLAPS, WellFoundedInduction

USE DEF Clips, Files

Holding == wrap \in {"wrap", "remove"}

Recording == rec \in {"recording", "put"}

\* What has been stored, now or when the GUI looked.
Known == {f.clip : f \in files} \cup {picked.clip}

\* The threads are there, or neither of them is.
PhaseOK ==
  /\ rec = "off" <=> wrap = "off"
  /\ rec = "off" => wrapping_queue = <<>>
  /\ rec = "start" => clips < MaxClips
  /\ clip # 0 <=> Holding
  /\ wrap \in {"cleanup", "cleaning", "closed"} \/ rec = "closed" => terminate_event

\* Clips that are stored, in hand, queued and being recorded are each newer
\* than the ones before.
HandOK ==
  /\ first <= clips
  /\ \A c \in temp : c <= clips
  /\ \A k \in Known : k <= clips
  /\ Recording => first < clips /\ clip < clips /\ \A k \in Known : k < clips
  /\ Holding => first < clip /\ clip <= clips /\ \A k \in Known : k <= clip
  /\ wrap = "wrap" => \A k \in Known : k < clip
  /\ \A i \in 1 .. Len(wrapping_queue) :
       /\ first < wrapping_queue[i] /\ wrapping_queue[i] <= clips
       /\ Recording => wrapping_queue[i] < clips
       /\ clip < wrapping_queue[i]
       /\ \A k \in Known : k < wrapping_queue[i]
       /\ \A j \in 1 .. i - 1 : wrapping_queue[j] < wrapping_queue[i]

\* A number never exceeds the clips there were; one that the GUI picked is
\* larger than those of all older clips.
NumberOK ==
  /\ \A f \in files : f.num < f.clip
  /\ \A f \in files : f.clip < picked.clip => f.num < picked.num

\* During the renaming, those that are renamed come first.
RenumberOK ==
  wrap = "renumber" =>
    /\ file_paths \subseteq files
    /\ \A p \in file_paths : cnt <= p.num
    /\ \A f \in files \ file_paths :
         f.num < cnt /\ \A p \in file_paths : f.clip < p.clip

\* What occurs in a sequence.
Elements(s) == {s[i] : i \in DOMAIN s}

\* The clips in hand, as a set.
InHandSet ==
  {c \in {clip} : c # 0} \cup {wrapping_queue[i] : i \in 1 .. Len(wrapping_queue)}
  \cup {c \in {clips} : Recording}

\* RawAccounted, with them as a set.
RawOK ==
  ~terminate_event /\ rec # "off" => {c \in temp : c > first} = InHandSet

\* The inductive invariant.
RInv ==
  TypeOK /\ PhaseOK /\ HandOK /\ NumberOK /\ AgeOrder /\ RenumberOK /\ RawOK

-----------------------------------------------------------------------------
(* The helpers.                                                            *)

\* A set of numbers has a least one.
LEMMA LeastNumber ==
  ASSUME NEW N, N \subseteq Nat, N # {}
  PROVE  \E n \in N : \A m \in N : n <= m
<1>1. PICK n \in N : \A m \in N : ~ (<<m, n>> \in OpToRel(<, Nat))
  BY NatLessThanWellFounded, WFMin
<1>2. ASSUME NEW m \in N PROVE n <= m
  <2>1. CASE m < n
    BY <1>1, <2>1 DEF OpToRel
  <2> QED
    BY <2>1
<1> QED
  BY <1>2

\* A set of numbers with a bound has a greatest one.
LEMMA GreatestNumber ==
  ASSUME NEW b \in Nat, NEW N, N \subseteq 0 .. b, N # {}
  PROVE  \E n \in N : \A m \in N : m <= n
<1> DEFINE D == {b - n : n \in N}
<1>1. D \subseteq Nat /\ D # {}
  OBVIOUS
<1>2. PICK d \in D : \A e \in D : d <= e
  <2> HIDE DEF D
  <2> QED
    BY <1>1, LeastNumber
<1>3. PICK n \in N : d = b - n
  OBVIOUS
<1>4. ASSUME NEW m \in N PROVE m <= n
  BY <1>2, <1>3
<1> QED
  BY <1>4

\* The first of the sorted paths is one of them, and none has a smaller number.
LEMMA LowestNumberIs ==
  ASSUME NEW F, F \subseteq Files, F # {}
  PROVE  /\ LowestNumber(F) \in F
         /\ \A g \in F : LowestNumber(F).num <= g.num
<1> DEFINE N == {f.num : f \in F}
<1>1. N \subseteq Nat /\ N # {}
  OBVIOUS
<1>2. PICK n \in N : \A m \in N : n <= m
  <2> HIDE DEF N
  <2> QED
    BY <1>1, LeastNumber
<1>3. PICK f \in F : f.num = n
  OBVIOUS
<1>4. \A g \in F : f.num <= g.num
  BY <1>2, <1>3
<1> QED
  BY <1>4 DEF LowestNumber

\* A new file gets a number above all others, and no larger than it has to be.
LEMMA get_video_numIs ==
  ASSUME files \subseteq Files
  PROVE  /\ get_video_num \in Nat
         /\ \A f \in files : f.num < get_video_num
         /\ get_video_num = 0 \/ \E f \in files : get_video_num = f.num + 1
<1>1. CASE files = {}
  BY <1>1 DEF get_video_num
<1>2. CASE files # {}
  <2> DEFINE N == {f.num : f \in files}
  <2>1. N \subseteq 0 .. MaxClips /\ N # {} /\ MaxClips \in Nat
    BY <1>2, RecorderAssumption
  <2>2. \E n \in N : \A m \in N : m <= n
    <3> HIDE DEF N
    <3> QED
      BY <2>1, GreatestNumber
  <2>3. \E n \in N : \A f \in files : f.num <= n
    BY <2>2
  <2> DEFINE n == CHOOSE n \in N : \A f \in files : f.num <= n
  <2>4. n \in N /\ \A f \in files : f.num <= n
    <3> HIDE DEF N
    <3> QED
      BY <2>3
  <2>5. get_video_num = 1 + n
    BY <1>2 DEF get_video_num
  <2>6. PICK f \in files : f.num = n
    BY <2>4
  <2> HIDE DEF n, N
  <2> QED
    BY <2>4, <2>5, <2>6
<1> QED
  BY <1>1, <1>2

-----------------------------------------------------------------------------
(* RInv is inductive.                                                      *)

\* A new run begins after all clips of the earlier ones.
LEMMA StartInv ==
  ASSUME RInv, Start
  PROVE  RInv'
<1>0. MaxClips \in Nat /\ MaxRuns \in Nat
  BY RecorderAssumption
<1> USE <1>0 DEF RInv, Start, TypeOK, diskVars
<1>1. TypeOK'
  <2>1. runs' \in 0 .. MaxRuns /\ first' \in 0 .. MaxClips /\ rec' = "check"
        /\ wrap' = "outer" /\ terminate_event' = FALSE
    OBVIOUS
  <2>2. UNCHANGED <<files, temp, clips, wrapping_queue, clip, back, file_paths,
                    cnt, listing, picked>>
    OBVIOUS
  <2> QED
    BY <2>1, <2>2
<1>2. PhaseOK'
  BY DEF PhaseOK, Holding
<1>3. HandOK'
  BY DEF HandOK, PhaseOK, Holding, Recording, Known
<1>4. NumberOK'
  BY DEF NumberOK
<1>5. AgeOrder'
  BY DEF AgeOrder
<1>6. RenumberOK'
  BY DEF RenumberOK
<1>7. RawOK'
  <2>1. \A c \in temp : c \in Nat /\ c <= clips /\ clips \in Nat
    BY DEF HandOK
  <2>2. \A c \in temp' : ~ (c > first')
    BY <2>1
  <2>3. clip' = 0 /\ wrapping_queue' = <<>> /\ ~Recording'
    BY DEF PhaseOK, Holding, Recording
  <2>4. InHandSet' = {}
    BY <2>3 DEF InHandSet
  <2> QED
    BY <2>2, <2>4 DEF RawOK
<1> QED
  BY <1>1, <1>2, <1>3, <1>4, <1>5, <1>6, <1>7

\* terminate() changes no file.
LEMMA TerminateInv ==
  ASSUME RInv, Terminate
  PROVE  RInv'
<1>0. MaxClips \in Nat /\ MaxRuns \in Nat
  BY RecorderAssumption
<1> USE <1>0 DEF RInv, Terminate, TypeOK, diskVars, wrapVars
<1>1. TypeOK'
  OBVIOUS
<1>2. PhaseOK'
  BY DEF PhaseOK, Holding
<1>3. HandOK'
  BY DEF HandOK, PhaseOK, Holding, Recording, Known
<1>4. NumberOK'
  BY DEF NumberOK
<1>5. AgeOrder'
  BY DEF AgeOrder
<1>6. RenumberOK'
  BY DEF RenumberOK
<1>7. RawOK'
  BY DEF RawOK, PhaseOK, Holding, InHandSet, Recording
<1> QED
  BY <1>1, <1>2, <1>3, <1>4, <1>5, <1>6, <1>7

\* The recording thread goes on, or ends.
LEMMA CheckTerminateInv ==
  ASSUME RInv, CheckTerminate
  PROVE  RInv'
<1>0. MaxClips \in Nat /\ MaxRuns \in Nat
  BY RecorderAssumption
<1> USE <1>0 DEF RInv, CheckTerminate, TypeOK, recFrame, wrapVars
<1>1. TypeOK'
  OBVIOUS
<1>2. PhaseOK'
  BY DEF PhaseOK, Holding
<1>3. HandOK'
  BY DEF HandOK, PhaseOK, Holding, Recording, Known
<1>4. NumberOK'
  BY DEF NumberOK
<1>5. AgeOrder'
  BY DEF AgeOrder
<1>6. RenumberOK'
  BY DEF RenumberOK
<1>7. RawOK'
  BY DEF RawOK, PhaseOK, Holding, InHandSet, Recording
<1> QED
  BY <1>1, <1>2, <1>3, <1>4, <1>5, <1>6, <1>7

\* The newest clip.
LEMMA StartRecordingInv ==
  ASSUME RInv, StartRecording
  PROVE  RInv'
<1>0. MaxClips \in Nat /\ MaxRuns \in Nat
  BY RecorderAssumption
<1> USE <1>0 DEF RInv, StartRecording, TypeOK, recFrame, wrapVars
<1>1. TypeOK'
  BY RecorderAssumption DEF PhaseOK
<1>2. PhaseOK'
  BY DEF PhaseOK, Holding
<1>3. HandOK'
  <2>1. clips' = clips + 1 /\ clips \in Nat /\ clip \in Nat /\ first \in Nat
    BY RecorderAssumption
  <2>2. \A k \in Known : k \in Nat
    BY DEF Known, NoFile, File
  <2>3. \A i \in 1 .. Len(wrapping_queue) : wrapping_queue[i] \in Nat
    OBVIOUS
  <2> QED
    <3>1. /\ Known' = Known /\ Holding' = Holding /\ Recording' /\ ~Recording
          /\ UNCHANGED <<first, clip, wrap, wrapping_queue>>
      BY DEF Known, Holding, Recording
    <3>2. /\ first <= clips /\ (\A k \in Known : k <= clips)
          /\ \A i \in 1 .. Len(wrapping_queue) : wrapping_queue[i] <= clips
      BY DEF HandOK
    <3>3. first < clips' /\ clip < clips' /\ \A k \in Known : k < clips'
      <4>1. clip <= clips
        BY <2>1 DEF HandOK, PhaseOK
      <4> QED
        BY <4>1, <2>1, <2>2, <3>2
    <3>4. \A c \in temp' : c <= clips'
      <4>1. \A c \in temp : c <= clips /\ c \in Nat
        BY DEF HandOK
      <4> QED
        BY <4>1, <2>1
    <3>5. \A i \in 1 .. Len(wrapping_queue) : wrapping_queue[i] < clips'
      BY <2>1, <2>3, <3>2
    <3> QED
      BY <3>1, <3>3, <3>4, <3>5, <2>1, <2>2, <2>3 DEF HandOK
<1>4. NumberOK'
  BY DEF NumberOK
<1>5. AgeOrder'
  BY DEF AgeOrder
<1>6. RenumberOK'
  BY DEF RenumberOK
<1>7. RawOK'
  <2>1. clips' = clips + 1 /\ clips \in Nat /\ first \in Nat /\ first <= clips
        /\ ~Recording /\ Recording' /\ rec # "off"
    BY DEF HandOK, Recording
  <2>2. {c \in temp' : c > first'} = {c \in temp : c > first} \cup {clips'}
    BY <2>1
  <2>3. InHandSet' = InHandSet \cup {clips'}
    BY <2>1 DEF InHandSet
  <2> QED
    BY <2>1, <2>2, <2>3 DEF RawOK
<1> QED
  BY <1>1, <1>2, <1>3, <1>4, <1>5, <1>6, <1>7

\* The end of a clip.
LEMMA StopRecordingInv ==
  ASSUME RInv, StopRecording
  PROVE  RInv'
<1>0. MaxClips \in Nat /\ MaxRuns \in Nat
  BY RecorderAssumption
<1> USE <1>0 DEF RInv, StopRecording, TypeOK, recFrame, wrapVars
<1>1. TypeOK'
  OBVIOUS
<1>2. PhaseOK'
  BY DEF PhaseOK, Holding
<1>3. HandOK'
  BY DEF HandOK, PhaseOK, Holding, Recording, Known
<1>4. NumberOK'
  BY DEF NumberOK
<1>5. AgeOrder'
  BY DEF AgeOrder
<1>6. RenumberOK'
  BY DEF RenumberOK
<1>7. RawOK'
  BY DEF RawOK, PhaseOK, Holding, InHandSet, Recording
<1> QED
  BY <1>1, <1>2, <1>3, <1>4, <1>5, <1>6, <1>7

\* The newest clip is the last in the queue.
LEMMA PutInv ==
  ASSUME RInv, Put
  PROVE  RInv'
<1>0. MaxClips \in Nat /\ MaxRuns \in Nat
  BY RecorderAssumption
<1> USE <1>0 DEF RInv, Put, TypeOK, recFrame, wrapVars
<1>1. TypeOK'
  <2>1. clips \in Clips
    BY DEF HandOK, Recording
  <2> QED
    BY <2>1
<1>2. PhaseOK'
  BY DEF PhaseOK, Holding
<1>3. HandOK'
  BY DEF HandOK, PhaseOK, Holding, Recording, Known
<1>4. NumberOK'
  BY DEF NumberOK
<1>5. AgeOrder'
  BY DEF AgeOrder
<1>6. RenumberOK'
  BY DEF RenumberOK
<1>7. RawOK'
  <2>1. /\ wrapping_queue' \in Seq(Clips) /\ Len(wrapping_queue') = Len(wrapping_queue) + 1
        /\ wrapping_queue'[Len(wrapping_queue) + 1] = clips
        /\ \A i \in 1 .. Len(wrapping_queue) : wrapping_queue'[i] = wrapping_queue[i]
        /\ Len(wrapping_queue) \in Nat
    BY <1>1
  <2>2. \A i \in 1 .. Len(wrapping_queue') :
          i \in 1 .. Len(wrapping_queue) \/ i = Len(wrapping_queue) + 1
    BY <2>1
  <2>3. {wrapping_queue'[i] : i \in 1 .. Len(wrapping_queue')}
          = {wrapping_queue[i] : i \in 1 .. Len(wrapping_queue)} \cup {clips}
    BY <2>1, <2>2
  <2>4. Recording /\ ~Recording' /\ clip' = clip
    BY DEF Recording
  <2>5. InHandSet' = InHandSet
    BY <2>3, <2>4 DEF InHandSet
  <2> QED
    BY <2>5 DEF RawOK
<1> QED
  BY <1>1, <1>2, <1>3, <1>4, <1>5, <1>6, <1>7

\* The wrapping thread begins a round.
LEMMA OuterInv ==
  ASSUME RInv, Outer
  PROVE  RInv'
<1>0. MaxClips \in Nat /\ MaxRuns \in Nat
  BY RecorderAssumption
<1> USE <1>0 DEF RInv, Outer, TypeOK, wrapFrame, diskVars
<1>1. TypeOK'
  OBVIOUS
<1>2. PhaseOK'
  BY DEF PhaseOK, Holding
<1>3. HandOK'
  BY DEF HandOK, PhaseOK, Holding, Recording, Known
<1>4. NumberOK'
  BY DEF NumberOK
<1>5. AgeOrder'
  BY DEF AgeOrder
<1>6. RenumberOK'
  BY DEF RenumberOK
<1>7. RawOK'
  BY DEF RawOK, PhaseOK, Holding, InHandSet, Recording
<1> QED
  BY <1>1, <1>2, <1>3, <1>4, <1>5, <1>6, <1>7

\* The oldest clip in hand is taken.
LEMMA TakeInv ==
  ASSUME RInv, Take
  PROVE  RInv'
<1>0. MaxClips \in Nat /\ MaxRuns \in Nat
  BY RecorderAssumption
<1> USE <1>0 DEF RInv, Take, TypeOK, wrapFrame, diskVars
<1>q. /\ Len(wrapping_queue) \in Nat \ {0} /\ clip' = wrapping_queue[1]
      /\ clip' \in Clips /\ wrapping_queue' \in Seq(Clips)
      /\ Len(wrapping_queue') = Len(wrapping_queue) - 1
      /\ \A i \in 1 .. Len(wrapping_queue') :
           wrapping_queue'[i] = wrapping_queue[i + 1]
  OBVIOUS
<1>1. TypeOK'
  BY <1>q
<1>2. PhaseOK'
  BY <1>q DEF PhaseOK, Holding
<1>3. HandOK'
  <2>1. \A i \in 1 .. Len(wrapping_queue') :
          /\ i + 1 \in 1 .. Len(wrapping_queue) /\ 1 \in 1 .. (i + 1) - 1
          /\ \A j \in 1 .. i - 1 : j + 1 \in 1 .. (i + 1) - 1
    BY <1>q
  <2>2. 1 \in 1 .. Len(wrapping_queue)
    BY <1>q
  <2>3. \A j \in 1 .. Len(wrapping_queue) : wrapping_queue[j] \in Nat
    OBVIOUS
  <2>4. ASSUME NEW i \in 1 .. Len(wrapping_queue')
        PROVE  /\ first < wrapping_queue'[i] /\ wrapping_queue'[i] <= clips
               /\ Recording => wrapping_queue'[i] < clips
               /\ clip' < wrapping_queue'[i]
               /\ \A k \in Known : k < wrapping_queue'[i]
               /\ \A j \in 1 .. i - 1 : wrapping_queue'[j] < wrapping_queue'[i]
    <3>1. ASSUME NEW j \in 1 .. i - 1
          PROVE  wrapping_queue'[j] < wrapping_queue'[i]
      <4>1. j \in 1 .. Len(wrapping_queue') /\ j + 1 \in 1 .. (i + 1) - 1
        BY <1>q
      <4> QED
        BY <4>1, <1>q, <2>1 DEF HandOK
    <3> QED
      BY <3>1, <1>q, <2>1 DEF HandOK
  <2>5. /\ first < clip' /\ clip' <= clips /\ Recording => clip' < clips
        /\ \A k \in Known : k < clip'
    BY <1>q, <2>2 DEF HandOK
  <2>6. \A k \in Known : k \in Nat
    BY DEF Known, NoFile, File
  <2> QED
    <3>1. /\ Known' = Known /\ Recording' = Recording
          /\ UNCHANGED <<temp, clips, first, picked, files>>
      BY DEF Known, Recording
    <3>2. /\ first <= clips /\ \A c \in temp : c <= clips
          /\ \A k \in Known : k <= clips
          /\ Recording => first < clips /\ \A k \in Known : k < clips
      BY DEF HandOK
    <3>3. \A k \in Known : k <= clip'
      BY <2>5, <2>6, <1>q
    <3> QED
      BY <2>4, <2>5, <3>1, <3>2, <3>3 DEF HandOK
<1>4. NumberOK'
  BY DEF NumberOK
<1>5. AgeOrder'
  BY DEF AgeOrder
<1>6. RenumberOK'
  BY DEF RenumberOK
<1>7. RawOK'
  <2>1. clip = 0
    BY DEF PhaseOK, Holding
  <2>2. {wrapping_queue[i] : i \in 1 .. Len(wrapping_queue)}
          = {clip'} \cup {wrapping_queue'[i] : i \in 1 .. Len(wrapping_queue')}
    <3>1. ASSUME NEW i \in 1 .. Len(wrapping_queue), i # 1
          PROVE  /\ i - 1 \in 1 .. Len(wrapping_queue')
                 /\ wrapping_queue[i] = wrapping_queue'[i - 1]
      BY <3>1, <1>q
    <3>2. ASSUME NEW i \in 1 .. Len(wrapping_queue')
          PROVE  i + 1 \in 1 .. Len(wrapping_queue)
      BY <1>q
    <3>3. 1 \in 1 .. Len(wrapping_queue)
      BY <1>q
    <3> DEFINE Q == {wrapping_queue[i] : i \in 1 .. Len(wrapping_queue)}
               R == {wrapping_queue'[i] : i \in 1 .. Len(wrapping_queue')}
    <3>4. ASSUME NEW i \in 1 .. Len(wrapping_queue)
          PROVE  wrapping_queue[i] \in {clip'} \cup R
      <4>1. CASE i = 1
        BY <4>1, <1>q
      <4>2. CASE i # 1
        BY <4>2, <3>1
      <4> QED
        BY <4>1, <4>2
    <3>5. ASSUME NEW i \in 1 .. Len(wrapping_queue')
          PROVE  wrapping_queue'[i] \in Q
      BY <3>2, <1>q
    <3>6. clip' \in Q
      BY <3>3, <1>q
    <3> QED
      BY <3>4, <3>5, <3>6
  <2>3. {c \in {clip'} : c # 0} = {clip'} /\ {c \in {clip} : c # 0} = {}
    BY <1>q, <2>1
  <2>4. InHandSet' = InHandSet
    BY <2>2, <2>3 DEF InHandSet, Recording
  <2> QED
    BY <2>4 DEF RawOK
<1> QED
  BY <1>1, <1>2, <1>3, <1>4, <1>5, <1>6, <1>7

\* A round without a clip.
LEMMA IdleInv ==
  ASSUME RInv, Idle
  PROVE  RInv'
<1>0. MaxClips \in Nat /\ MaxRuns \in Nat
  BY RecorderAssumption
<1> USE <1>0 DEF RInv, Idle, TypeOK, wrapFrame, diskVars
<1>1. TypeOK'
  OBVIOUS
<1>2. PhaseOK'
  BY DEF PhaseOK, Holding
<1>3. HandOK'
  BY DEF HandOK, PhaseOK, Holding, Recording, Known
<1>4. NumberOK'
  BY DEF NumberOK
<1>5. AgeOrder'
  BY DEF AgeOrder
<1>6. RenumberOK'
  BY DEF RenumberOK
<1>7. RawOK'
  BY DEF RawOK, PhaseOK, Holding, InHandSet, Recording
<1> QED
  BY <1>1, <1>2, <1>3, <1>4, <1>5, <1>6, <1>7

\* The newest of the stored clips gets the largest number.
LEMMA FfmpegInv ==
  ASSUME RInv, Ffmpeg
  PROVE  RInv'
<1>0. MaxClips \in Nat /\ MaxRuns \in Nat
  BY RecorderAssumption
<1> USE <1>0 DEF RInv, Ffmpeg, TypeOK, wrapFrame, diskVars
<1>n. /\ get_video_num \in Nat
      /\ \A f \in files : f.num < get_video_num
      /\ get_video_num = 0 \/ \E f \in files : get_video_num = f.num + 1
  BY get_video_numIs
<1>c. /\ clip \in Clips /\ \A f \in files : f.clip < clip
      /\ picked.clip < clip /\ clip <= clips
      /\ get_video_num < clip
  <2>1. clip \in Clips /\ wrap = "wrap" /\ Holding
    BY DEF PhaseOK, Holding
  <2>2. (\A f \in files : f.clip < clip) /\ picked.clip < clip /\ clip <= clips
    BY <2>1 DEF HandOK, Known
  <2> QED
    BY <2>1, <2>2, <1>n DEF NumberOK
<1>f. \/ files' = files
      \/ \E s \in Nat : files' = files \cup {File(get_video_num, clip, s)}
  <2>1. ClipSize[clip] \in Nat
    BY <1>c, RecorderAssumption
  <2> QED
    BY <2>1
<1>g. ASSUME NEW s \in Nat
      PROVE  LET f == File(get_video_num, clip, s)
             IN  f \in Files /\ f.num = get_video_num /\ f.clip = clip
  BY <1>n, <1>c, RecorderAssumption DEF File
<1>1. TypeOK'
  BY <1>f, <1>g
<1>2. PhaseOK'
  BY DEF PhaseOK, Holding
<1>3. HandOK'
  <2>1. Known' \subseteq Known \cup {clip}
    BY <1>f, <1>g DEF Known
  <2>2. \A k \in Known : k \in Nat
    BY DEF Known, NoFile, File
  <2>3. \A i \in 1 .. Len(wrapping_queue) : wrapping_queue[i] \in Nat
    OBVIOUS
  <2>4. Holding /\ Holding' /\ wrap' # "wrap" /\ Recording' = Recording
    BY DEF Holding, Recording
  <2> QED
    BY <2>1, <2>2, <2>3, <2>4, <1>c DEF HandOK
<1>4. NumberOK'
  <2>1. CASE files' = files
    BY <2>1 DEF NumberOK
  <2>2. ASSUME NEW s \in Nat, files' = files \cup {File(get_video_num, clip, s)}
        PROVE  NumberOK'
    <3> DEFINE f == File(get_video_num, clip, s)
    <3>1. f.num < f.clip /\ ~ (f.clip < picked.clip) /\ files' = files \cup {f}
      BY <1>g, <1>c, <2>2, RecorderAssumption DEF NoFile, File
    <3> HIDE DEF f
    <3> QED
      BY <3>1 DEF NumberOK
  <2> QED
    BY <2>1, <2>2, <1>f
<1>5. AgeOrder'
  <2>1. CASE files' = files
    BY <2>1 DEF AgeOrder
  <2>2. ASSUME NEW s \in Nat, files' = files \cup {File(get_video_num, clip, s)}
        PROVE  AgeOrder'
    <3> DEFINE f == File(get_video_num, clip, s)
    <3>1. /\ files' = files \cup {f} /\ f.clip \in Nat
          /\ \A g \in files : g.num < f.num /\ g.clip < f.clip /\ g.clip \in Nat
      <4>1. f.num = get_video_num /\ f.clip = clip
        BY <1>g
      <4>2. \A g \in files : g.clip \in Nat
        OBVIOUS
      <4> HIDE DEF f
      <4> QED
        BY <4>1, <4>2, <1>c, <1>n, <2>2 DEF f
    <3> HIDE DEF f
    <3> QED
      BY <3>1 DEF AgeOrder
  <2> QED
    BY <2>1, <2>2, <1>f
<1>6. RenumberOK'
  BY DEF RenumberOK
<1>7. RawOK'
  BY DEF RawOK, PhaseOK, Holding, InHandSet, Recording
<1> QED
  BY <1>1, <1>2, <1>3, <1>4, <1>5, <1>6, <1>7

\* The clip is no longer in hand, and its raw file is gone.
LEMMA RemoveRawInv ==
  ASSUME RInv, RemoveRaw
  PROVE  RInv'
<1>0. MaxClips \in Nat /\ MaxRuns \in Nat
  BY RecorderAssumption
<1> USE <1>0 DEF RInv, RemoveRaw, TypeOK, wrapFrame, diskVars
<1>1. TypeOK'
  OBVIOUS
<1>2. PhaseOK'
  BY DEF PhaseOK, Holding
<1>3. HandOK'
  <2>1. Known' = Known /\ Holding /\ ~Holding' /\ clip' = 0
        /\ Recording' = Recording
    BY DEF Known, Holding, Recording
  <2>2. first \in Nat /\ \A k \in Known : k \in Nat
    BY DEF Known, NoFile, File
  <2>3. \A i \in 1 .. Len(wrapping_queue) : wrapping_queue[i] \in Nat
    OBVIOUS
  <2> QED
    BY <2>1, <2>2, <2>3 DEF HandOK
<1>4. NumberOK'
  BY DEF NumberOK
<1>5. AgeOrder'
  BY DEF AgeOrder
<1>6. RenumberOK'
  BY DEF RenumberOK
<1>7. RawOK'
  <2>1. /\ \A i \in 1 .. Len(wrapping_queue) :
             wrapping_queue[i] \in Nat /\ clip < wrapping_queue[i]
        /\ Recording => clip < clips
        /\ clip \in Nat /\ clip # 0 /\ clips \in Nat
    BY DEF HandOK, PhaseOK, Holding
  <2>2. clip' = 0 /\ Recording' = Recording
    BY DEF Recording
  <2>3. InHandSet' = InHandSet \ {clip}
    BY <2>1, <2>2 DEF InHandSet
  <2>4. {c \in temp' : c > first'} = {c \in temp : c > first} \ {clip}
    OBVIOUS
  <2> QED
    BY <2>3, <2>4 DEF RawOK, PhaseOK
<1> QED
  BY <1>1, <1>2, <1>3, <1>4, <1>5, <1>6, <1>7

\* Removing a file disturbs no order.
LEMMA ReduceOneInv ==
  ASSUME RInv, ReduceOne
  PROVE  RInv'
<1>0. MaxClips \in Nat /\ MaxRuns \in Nat
  BY RecorderAssumption
<1> USE <1>0 DEF RInv, ReduceOne, TypeOK, wrapFrame, diskVars
<1>1. TypeOK'
  BY RecorderAssumption
<1>2. PhaseOK'
  BY DEF PhaseOK, Holding
<1>3. HandOK'
  BY DEF HandOK, PhaseOK, Holding, Recording, Known
<1>4. NumberOK'
  BY DEF NumberOK
<1>5. AgeOrder'
  BY DEF AgeOrder
<1>6. RenumberOK'
  BY DEF RenumberOK
<1>7. RawOK'
  BY DEF RawOK, PhaseOK, Holding, InHandSet, Recording
<1> QED
  BY <1>1, <1>2, <1>3, <1>4, <1>5, <1>6, <1>7

\* Nothing is removed.
LEMMA ReduceNoneInv ==
  ASSUME RInv, ReduceNone
  PROVE  RInv'
<1>0. MaxClips \in Nat /\ MaxRuns \in Nat
  BY RecorderAssumption
<1> USE <1>0 DEF RInv, ReduceNone, TypeOK, wrapFrame, diskVars
<1>1. TypeOK'
  OBVIOUS
<1>2. PhaseOK'
  BY DEF PhaseOK, Holding
<1>3. HandOK'
  BY DEF HandOK, PhaseOK, Holding, Recording, Known
<1>4. NumberOK'
  BY DEF NumberOK
<1>5. AgeOrder'
  BY DEF AgeOrder
<1>6. RenumberOK'
  BY DEF RenumberOK
<1>7. RawOK'
  BY DEF RawOK, PhaseOK, Holding, InHandSet, Recording
<1> QED
  BY <1>1, <1>2, <1>3, <1>4, <1>5, <1>6, <1>7

\* The next file of the listing gets the number after those renamed, and no file
\* is overwritten.
LEMMA RenameNextInv ==
  ASSUME RInv, RenameNext
  PROVE  RInv' /\ Stored(files') = Stored(files)
<1> DEFINE f == LowestNumber(file_paths)
           g == [f EXCEPT !.num = cnt]
<1>s. /\ wrap = "renumber" /\ file_paths # {}
      /\ files' = {h \in files : h # f /\ h.num # cnt} \cup {g}
      /\ file_paths' = file_paths \ {f} /\ cnt' = cnt + 1
      /\ UNCHANGED <<clips, first, runs, terminate_event, rec, picked, temp,
                     wrapping_queue, wrap, clip, back, listing>>
  BY DEF RenameNext, wrapFrame
<1>t. /\ TypeOK /\ files \subseteq Files /\ file_paths \subseteq files
      /\ cnt \in Nat /\ MaxClips \in Nat
  <2>1. TypeOK
    BY DEF RInv
  <2>2. files \subseteq Files /\ cnt \in 0 .. MaxClips
    BY <2>1 DEF TypeOK
  <2>3. file_paths \subseteq files
    BY <1>s DEF RInv, RenumberOK
  <2> QED
    BY <2>1, <2>2, <2>3, RecorderAssumption
<1>f. f \in file_paths /\ f \in files /\ \A p \in file_paths : f.num <= p.num
  BY <1>s, <1>t, LowestNumberIs
<1> HIDE DEF f
<1>y. /\ f \in Files /\ f.num \in 0 .. MaxClips - 1 /\ f.clip \in 1 .. MaxClips
      /\ \A h \in files : h.num \in Nat /\ h.clip \in Nat
  BY <1>f, <1>t
<1>r. /\ \A p \in file_paths : cnt <= p.num
      /\ \A h \in files \ file_paths :
           h.num < cnt /\ \A p \in file_paths : h.clip < p.clip
  BY <1>s DEF RInv, RenumberOK
<1>o. \A p \in file_paths \ {f} : f.num < p.num /\ f.clip < p.clip
  <2>1. ASSUME NEW p \in file_paths, p # f
        PROVE  f.num < p.num /\ f.clip < p.clip
    <3>1. p \in files /\ f.num <= p.num
      BY <1>f, <1>t
    <3>2. f.clip < p.clip => f.num < p.num
      BY <1>f, <3>1 DEF RInv, AgeOrder
    <3>3. p.clip < f.clip => p.num < f.num
      BY <1>f, <3>1 DEF RInv, AgeOrder
    <3>4. p.clip # f.clip
      BY <1>f, <3>1, <2>1 DEF RInv, AgeOrder
    <3> QED
      BY <3>1, <3>2, <3>3, <3>4, <1>y
  <2> QED
    BY <2>1
<1>b. \A h \in files \ file_paths : h.num < cnt /\ h.clip < f.clip
  BY <1>f, <1>r
<1>c. cnt \in Nat /\ cnt <= f.num /\ cnt + 1 <= MaxClips
      /\ \A p \in file_paths \ {f} : cnt < p.num
  <2>1. cnt <= f.num
    BY <1>f, <1>r
  <2> QED
    BY <2>1, <1>o, <1>y, <1>t
<1>g. g \in Files /\ g.num = cnt /\ g.clip = f.clip
  <2>1. cnt \in 0 .. MaxClips - 1
    BY <1>c, <1>t
  <2> QED
    BY <2>1, <1>y
<1> HIDE DEF g
<1>p. files' = (files \ {f}) \cup {g}
  <2>1. \A h \in files \ {f} : h.num # cnt
    BY <1>b, <1>c, <1>y, <1>t
  <2> QED
    BY <2>1, <1>s
<1>1. TypeOK'
  <2>1. files' \subseteq Files /\ file_paths' \subseteq Files /\ cnt' \in 0 .. MaxClips
    BY <1>p, <1>g, <1>c, <1>s, <1>t
  <2> QED
    BY <2>1, <1>s, <1>t DEF TypeOK
<1>2. PhaseOK'
  BY <1>s DEF RInv, PhaseOK, Holding
<1>3. HandOK'
  <2>1. Known' = Known
    BY <1>p, <1>s, <1>g, <1>f DEF Known
  <2> QED
    BY <2>1, <1>s DEF RInv, HandOK, Holding, Recording
<1>4. NumberOK'
  <2>1. g.num < g.clip /\ (g.clip < picked.clip => g.num < picked.num)
    <3>1. f.num < f.clip /\ (f.clip < picked.clip => f.num < picked.num)
      BY <1>f DEF RInv, NumberOK
    <3>2. picked.num \in Nat
      BY <1>t DEF TypeOK, NoFile, File
    <3> QED
      BY <3>1, <3>2, <1>g, <1>c, <1>y
  <2> QED
    BY <2>1, <1>p, <1>s DEF RInv, NumberOK
<1>5. AgeOrder'
  <2>1. ASSUME NEW h \in files \ {f}
        PROVE  /\ h.clip < g.clip => h.num < g.num
               /\ g.clip < h.clip => g.num < h.num
               /\ g.clip # h.clip
    <3>1. CASE h \in file_paths
      BY <3>1, <1>o, <1>c, <1>g, <1>y
    <3>2. CASE h \notin file_paths
      BY <3>2, <1>b, <1>c, <1>g, <1>y
    <3> QED
      BY <3>1, <3>2
  <2>2. g.clip \in Nat
    BY <1>g, <1>y
  <2>3. ASSUME NEW h \in files', NEW k \in files'
        PROVE  (h.clip < k.clip => h.num < k.num) /\ (h.clip = k.clip => h = k)
    <3>1. CASE h \in files /\ h # f /\ k \in files /\ k # f
      BY <3>1 DEF RInv, AgeOrder
    <3>2. CASE h = g /\ k = g
      BY <3>2, <2>2
    <3>3. CASE h = g /\ k \in files \ {f}
      BY <3>3, <2>1
    <3>4. CASE k = g /\ h \in files \ {f}
      BY <3>4, <2>1
    <3> QED
      BY <3>1, <3>2, <3>3, <3>4, <1>p
  <2> QED
    BY <2>3 DEF AgeOrder
<1>6. RenumberOK'
  <2>1. file_paths' \subseteq files'
    BY <1>p, <1>s, <1>t
  <2>2. \A q \in file_paths' : cnt' <= q.num
    BY <1>c, <1>s, <1>t, <1>y
  <2>3. ASSUME NEW h \in files' \ file_paths'
        PROVE  h.num < cnt' /\ \A q \in file_paths' : h.clip < q.clip
    <3>1. CASE h = g
      BY <3>1, <1>g, <1>c, <1>o, <1>s
    <3>2. CASE h \in files \ file_paths
      BY <3>2, <1>r, <1>c, <1>s, <1>t, <1>y
    <3> QED
      BY <3>1, <3>2, <1>p, <1>s
  <2> QED
    BY <2>1, <2>2, <2>3 DEF RenumberOK
<1>7. RawOK'
  BY <1>s DEF RInv, RawOK, InHandSet, Recording
<1>8. Stored(files') = Stored(files)
  BY <1>p, <1>g, <1>f DEF Stored
<1> QED
  BY <1>8, <1>1, <1>2, <1>3, <1>4, <1>5, <1>6, <1>7 DEF RInv

\* The end of the renaming.
LEMMA RenumberDoneInv ==
  ASSUME RInv, RenumberDone
  PROVE  RInv'
<1>0. MaxClips \in Nat /\ MaxRuns \in Nat
  BY RecorderAssumption
<1> USE <1>0 DEF RInv, RenumberDone, TypeOK, wrapFrame, diskVars
<1>1. TypeOK'
  BY RecorderAssumption
<1>2. PhaseOK'
  BY DEF PhaseOK, Holding
<1>3. HandOK'
  BY DEF HandOK, PhaseOK, Holding, Recording, Known
<1>4. NumberOK'
  BY DEF NumberOK
<1>5. AgeOrder'
  BY DEF AgeOrder
<1>6. RenumberOK'
  BY DEF RenumberOK
<1>7. RawOK'
  BY DEF RawOK, PhaseOK, Holding, InHandSet, Recording
<1> QED
  BY <1>1, <1>2, <1>3, <1>4, <1>5, <1>6, <1>7

\* cleanup lists the raw files.
LEMMA CleanupListInv ==
  ASSUME RInv, CleanupList
  PROVE  RInv'
<1>0. MaxClips \in Nat /\ MaxRuns \in Nat
  BY RecorderAssumption
<1> USE <1>0 DEF RInv, CleanupList, TypeOK, wrapFrame, diskVars
<1>1. TypeOK'
  OBVIOUS
<1>2. PhaseOK'
  BY DEF PhaseOK, Holding
<1>3. HandOK'
  BY DEF HandOK, PhaseOK, Holding, Recording, Known
<1>4. NumberOK'
  BY DEF NumberOK
<1>5. AgeOrder'
  BY DEF AgeOrder
<1>6. RenumberOK'
  BY DEF RenumberOK
<1>7. RawOK'
  BY DEF RawOK, PhaseOK, Holding, InHandSet, Recording
<1> QED
  BY <1>1, <1>2, <1>3, <1>4, <1>5, <1>6, <1>7

\* cleanup removes one of them.
LEMMA CleanupNextInv ==
  ASSUME RInv, CleanupNext
  PROVE  RInv'
<1>0. MaxClips \in Nat /\ MaxRuns \in Nat
  BY RecorderAssumption
<1> USE <1>0 DEF RInv, CleanupNext, TypeOK, wrapFrame, diskVars
<1>1. TypeOK'
  OBVIOUS
<1>2. PhaseOK'
  BY DEF PhaseOK, Holding
<1>3. HandOK'
  BY DEF HandOK, PhaseOK, Holding, Recording, Known
<1>4. NumberOK'
  BY DEF NumberOK
<1>5. AgeOrder'
  BY DEF AgeOrder
<1>6. RenumberOK'
  BY DEF RenumberOK
<1>7. RawOK'
  BY DEF RawOK, PhaseOK, Holding, InHandSet, Recording
<1> QED
  BY <1>1, <1>2, <1>3, <1>4, <1>5, <1>6, <1>7

\* What is picked is larger in number than all older clips.
LEMMA PickInv ==
  ASSUME RInv, Pick
  PROVE  RInv'
<1>0. MaxClips \in Nat /\ MaxRuns \in Nat
  BY RecorderAssumption
<1> USE <1>0 DEF RInv, Pick, TypeOK, diskVars, wrapVars
<1>f. PICK f \in files : picked' = File(f.num, f.clip, 0)
  OBVIOUS
<1>g. picked' \in Files /\ picked'.num = f.num /\ picked'.clip = f.clip
  BY <1>f DEF File
<1>1. TypeOK'
  BY <1>g
<1>2. PhaseOK'
  BY DEF PhaseOK, Holding
<1>3. HandOK'
  <2>1. Known' \subseteq Known
    BY <1>g DEF Known
  <2> QED
    BY <2>1 DEF HandOK, PhaseOK, Holding, Recording
<1>4. NumberOK'
  BY <1>g DEF NumberOK, AgeOrder
<1>5. AgeOrder'
  BY DEF AgeOrder
<1>6. RenumberOK'
  BY DEF RenumberOK
<1>7. RawOK'
  BY DEF RawOK, PhaseOK, Holding, InHandSet, Recording
<1> QED
  BY <1>1, <1>2, <1>3, <1>4, <1>5, <1>6, <1>7

\* The end of the process, orderly or not.
LEMMA EndsInv ==
  ASSUME RInv, Ends
  PROVE  RInv'
<1>0. MaxClips \in Nat /\ MaxRuns \in Nat
  BY RecorderAssumption
<1> USE <1>0 DEF RInv, Ends, TypeOK, diskVars
<1>1. TypeOK'
  BY RecorderAssumption
<1>2. PhaseOK'
  BY DEF PhaseOK, Holding
<1>3. HandOK'
  BY DEF HandOK, PhaseOK, Holding, Recording, Known
<1>4. NumberOK'
  BY DEF NumberOK
<1>5. AgeOrder'
  BY DEF AgeOrder
<1>6. RenumberOK'
  BY DEF RenumberOK
<1>7. RawOK'
  BY DEF RawOK, PhaseOK, Holding, InHandSet, Recording
<1> QED
  BY <1>1, <1>2, <1>3, <1>4, <1>5, <1>6, <1>7

\* Nothing changes.
LEMMA StutterInv ==
  ASSUME RInv, UNCHANGED vars
  PROVE  RInv'
BY DEF RInv, vars, diskVars, wrapVars, TypeOK, PhaseOK, HandOK, NumberOK, AgeOrder,
       RenumberOK, RawOK, Holding, Recording, Known, InHandSet

\* The empty folder of the first start.
LEMMA InitInv ==
  ASSUME Init
  PROVE  RInv
<1> USE RecorderAssumption DEF Init
<1>1. TypeOK
  <2>1. /\ 0 \in 0 .. MaxClips /\ 0 \in 0 .. MaxRuns
        /\ wrapping_queue \in Seq(Clips)
    OBVIOUS
  <2> QED
    BY <2>1, Zenon DEF TypeOK
<1>2. PhaseOK
  BY DEF PhaseOK, Holding
<1>3. HandOK
  BY DEF HandOK, Holding, Recording, Known, NoFile, File
<1>4. NumberOK /\ AgeOrder /\ RenumberOK /\ RawOK
  BY DEF NumberOK, AgeOrder, RenumberOK, RawOK
<1> QED
  BY <1>1, <1>2, <1>3, <1>4 DEF RInv

\* Every step of the process and of the GUI.
LEMMA StepInv ==
  ASSUME RInv, Next
  PROVE  RInv'
<1>1. CASE Start \/ Terminate \/ Pick
  BY <1>1, StartInv, TerminateInv, PickInv
<1>2. CASE Joined \/ Crash
  BY <1>2, EndsInv DEF Joined, Crash
<1>3. CASE Record
  BY <1>3, CheckTerminateInv, StartRecordingInv, StopRecordingInv, PutInv DEF Record
<1>4. CASE Wrap
  BY <1>4, OuterInv, TakeInv, IdleInv, FfmpegInv, RemoveRawInv, ReduceOneInv,
     ReduceNoneInv, RenameNextInv, RenumberDoneInv, CleanupListInv, CleanupNextInv
     DEF Wrap
<1> QED
  BY <1>1, <1>2, <1>3, <1>4 DEF Next

\* The inductive invariant holds throughout.
THEOREM RInvAlways == Spec => []RInv
<1>1. Init => RInv
  BY InitInv
<1>2. RInv /\ [Next]_vars => RInv'
  BY StepInv, StutterInv
<1> QED
  BY <1>1, <1>2, PTL DEF Spec

-----------------------------------------------------------------------------
(* What a reader should know of.                                           *)

\* Every variable keeps its type; in particular, no number in a name and no count
\* of the renaming exceeds the number of clips that there ever were.
THEOREM TypeCorrect == Spec => []TypeOK
<1>1. RInv => TypeOK
  BY DEF RInv
<1> QED
  BY <1>1, RInvAlways, PTL

\* Wherever the power fails in a renaming, the numbers in the names follow the age
\* of the clips, and a name that the GUI has picked is never that of an older one.
THEOREM NamesFollowAgeAlways == Spec => []NamesFollowAge
<1>1. ASSUME RInv  PROVE  PickedOrLater
  <2>1. ASSUME NEW f \in files, f.num = picked.num
        PROVE  f.clip >= picked.clip
    <3>1. f \in Files /\ picked.clip \in Nat
      BY <1>1, RecorderAssumption DEF RInv, TypeOK, NoFile, File
    <3>2. f.clip \in Nat /\ f.num \in Nat
      BY <3>1, RecorderAssumption
    <3>3. f.clip < picked.clip => f.num < picked.num
      BY <1>1 DEF RInv, NumberOK
    <3> QED
      BY <2>1, <3>1, <3>2, <3>3
  <2> QED
    BY <2>1 DEF PickedOrLater
<1>2. RInv => NamesFollowAge
  BY <1>1 DEF RInv, NamesFollowAge
<1> QED
  BY <1>2, RInvAlways, PTL

\* A clip leaves the folder only as the oldest of one that is too large: neither
\* the renaming nor a new file overwrites one.
THEOREM OldestFirstAlways == Spec => OldestFirst
<1> DEFINE A == \A c \in Stored(files) \ Stored(files') :
                  TooLarge /\ \A d \in Stored(files) : c <= d
<1>1. ASSUME RInv, ReduceOne  PROVE  A
  <2> DEFINE f == LowestNumber(files)
  <2>1. TooLarge /\ files # {} /\ files' = files \ {f}
    BY <1>1 DEF ReduceOne
  <2>2. files \subseteq Files
    BY <1>1 DEF RInv, TypeOK
  <2>3. f \in files /\ \A g \in files : f.num <= g.num
    BY <2>1, <2>2, LowestNumberIs
  <2> HIDE DEF f
  <2>4. \A g \in files : g.num \in Nat /\ g.clip \in Nat
    BY <2>2, RecorderAssumption
  <2>5. \A g \in files : f.clip <= g.clip
    BY <1>1, <2>3, <2>4 DEF RInv, AgeOrder
  <2>6. \A c \in Stored(files) \ Stored(files') : c = f.clip
    BY <2>1 DEF Stored
  <2>7. \A d \in Stored(files) : f.clip <= d
    BY <2>5 DEF Stored
  <2> QED
    BY <2>1, <2>6, <2>7
<1>2. ASSUME RInv, Next, ~ReduceOne
      PROVE  Stored(files) \subseteq Stored(files')
  <2>1. CASE RenameNext
    BY <1>2, <2>1, RenameNextInv
  <2>2. CASE ~RenameNext
    <3>1. files \subseteq files'
      BY <1>2, <2>2 DEF Next, Record, Wrap, Start, Terminate, Joined, Crash, Ends,
         CheckTerminate, StartRecording, StopRecording, Put, Outer, Take, Idle,
         Ffmpeg, RemoveRaw, ReduceNone, RenumberDone, CleanupList, CleanupNext,
         Pick, diskVars, recFrame
    <3> QED
      BY <3>1 DEF Stored
  <2> QED
    BY <2>1, <2>2
<1>3. RInv /\ [Next]_vars => [A]_vars
  BY <1>1, <1>2
<1>4. [A]_vars = [\A c \in Stored(files) \ Stored(files') :
                   TooLarge /\ \A d \in Stored(files) : c <= d]_vars
  OBVIOUS
<1> HIDE DEF A
<1>5. []RInv /\ [][Next]_vars => [][A]_vars
  BY <1>3, PTL
<1> QED
  BY <1>5, RInvAlways, PTL DEF Spec, OldestFirst, A

\* What occurs in a concatenation occurs in one of its parts.
LEMMA ConcatElements ==
  ASSUME NEW S, NEW s \in Seq(S), NEW t \in Seq(S)
  PROVE  /\ s \o t \in Seq(S)
         /\ Elements(s \o t) = Elements(s) \cup Elements(t)
<1> DEFINE u == s \o t
<1>1. /\ u \in Seq(S) /\ Len(s) \in Nat /\ Len(t) \in Nat
      /\ DOMAIN s = 1 .. Len(s) /\ DOMAIN t = 1 .. Len(t)
      /\ DOMAIN u = 1 .. Len(s) + Len(t)
      /\ \A i \in 1 .. Len(s) : u[i] = s[i]
      /\ \A i \in 1 .. Len(t) : u[Len(s) + i] = t[i]
  OBVIOUS
<1> HIDE DEF u
<1>2. ASSUME NEW i \in DOMAIN u
      PROVE  u[i] \in Elements(s) \cup Elements(t)
  <2>1. CASE i \in 1 .. Len(s)
    BY <2>1, <1>1 DEF Elements
  <2>2. CASE i \notin 1 .. Len(s)
    <3>1. i - Len(s) \in 1 .. Len(t) /\ Len(s) + (i - Len(s)) = i
      BY <1>1, <2>2
    <3>2. u[i] = t[i - Len(s)]
      BY <3>1, <1>1
    <3> QED
      BY <3>1, <3>2, <1>1 DEF Elements
  <2> QED
    BY <2>1, <2>2
<1>3. ASSUME NEW i \in DOMAIN s  PROVE  i \in DOMAIN u /\ s[i] = u[i]
  BY <1>1
<1>4. ASSUME NEW i \in DOMAIN t
      PROVE  Len(s) + i \in DOMAIN u /\ t[i] = u[Len(s) + i]
  BY <1>1
<1>5. Elements(u) = Elements(s) \cup Elements(t)
  BY <1>2, <1>3, <1>4 DEF Elements
<1> QED
  BY <1>1, <1>5 DEF u

\* Until terminate(), the raw files of a run are exactly the clips in hand,
\* whatever a lost run left in temp_vid.
THEOREM RawAccountedAlways == Spec => []RawAccounted
<1>1. ASSUME RInv  PROVE  Elements(InHand) = InHandSet
  <2> DEFINE a == IF clip = 0 THEN <<>> ELSE <<clip>>
             b == IF rec \in {"recording", "put"} THEN <<clips>> ELSE <<>>
             q == wrapping_queue
  <2>1. a \in Seq(Clips) /\ Elements(a) = {c \in {clip} : c # 0}
    <3>1. clip \in Clips \cup {0} /\ 0 \notin Clips
      BY <1>1, RecorderAssumption DEF RInv, TypeOK
    <3>2. CASE clip = 0
      BY <3>2 DEF Elements
    <3>3. CASE clip # 0
      BY <3>1, <3>3 DEF Elements
    <3> QED
      BY <3>2, <3>3
  <2>2. b \in Seq(Clips) /\ Elements(b) = {c \in {clips} : Recording}
    <3>1. Recording => clips \in Clips
      BY <1>1, RecorderAssumption DEF RInv, TypeOK, HandOK
    <3>2. CASE Recording
      BY <3>1, <3>2 DEF Elements, Recording
    <3>3. CASE ~Recording
      BY <3>3 DEF Elements, Recording
    <3> QED
      BY <3>2, <3>3
  <2>3. q \in Seq(Clips) /\ DOMAIN q = 1 .. Len(q)
    <3>1. q \in Seq(Clips)
      BY <1>1 DEF RInv, TypeOK
    <3> QED
      BY <3>1
  <2>4. InHand = (a \o q) \o b
    BY DEF InHand
  <2> HIDE DEF a, b
  <2>5. a \o q \in Seq(Clips) /\ Elements(a \o q) = Elements(a) \cup Elements(q)
    BY <2>1, <2>3, ConcatElements
  <2>6. Elements(InHand) = Elements(a \o q) \cup Elements(b)
    <3>1. ASSUME NEW u \in Seq(Clips)
          PROVE  Elements(u \o b) = Elements(u) \cup Elements(b)
      BY <2>2, ConcatElements
    <3> QED
      BY <3>1, <2>4, <2>5
  <2>7. Elements(q) = {wrapping_queue[i] : i \in 1 .. Len(wrapping_queue)}
    BY <2>3 DEF Elements
  <2> QED
    BY <2>1, <2>2, <2>5, <2>6, <2>7 DEF InHandSet
<1>2. RInv => RawAccounted
  BY <1>1 DEF RInv, RawOK, RawAccounted, Elements
<1> QED
  BY <1>2, RInvAlways, PTL

=============================================================================
