---------------------- MODULE BrowserSurfaceColorProofs ----------------------
(***************************************************************************)
(* The colour controller for any colours and however much happens to its   *)
(* tab: what it samples wanes, a hidden tab is left alone, and header and  *)
(* popups agree.                                                           *)
(***************************************************************************)
EXTENDS BrowserSurfaceColor, TLAPS, FiniteSetTheorems

\* One capture at most is under way, as inFlight says.
IsSampling(s) ==
  /\ s \in Sampling
  /\ s.requests # {} => s.inFlight
  /\ s.inFlight => \E r \in Maybe \cup {Asked} : s.requests = {r}

\* A tab that is hidden has nothing to wait for.
Quiet(s) == ~s.timer /\ ~s.late /\ ~s.scrolling /\ ~s.inFlight

PageOK ==
  /\ visible \in BOOLEAN /\ framed \in BOOLEAN
  /\ waitingForLoad \in BOOLEAN /\ paintSeen \in BOOLEAN
  /\ strip \in Maybe /\ meta \in Maybe
  /\ happened \in 0..MaxTabEvents

ColorsOK ==
  /\ fallback \in Colors /\ committed \in Maybe /\ target \in Maybe
  /\ presented \in Colors \cup {Between} /\ popup \in Colors \cup {Between}
  /\ HeaderAndPopupsAgree
  /\ target \in {NoColor, IF committed = NoColor THEN fallback ELSE committed}

SurfaceInv ==
  /\ PageOK
  /\ ColorsOK
  /\ IsSampling(sampling)
  /\ ~visible => Quiet(sampling)

-----------------------------------------------------------------------------
(* The colour that is shown *)

LEMMA TransitionKeeps ==
  ASSUME ColorsOK, NEW from \in Colors \cup {Between}, NEW color \in Colors,
         StartColorTransition(from, color)
  PROVE  /\ target' \in {NoColor, color} /\ target' \in Maybe
         /\ presented' \in Colors \cup {Between}
         /\ popup' \in Colors \cup {Between}
         /\ target' = NoColor => presented' = color /\ popup' = color
BY SurfaceAssumption DEF ColorsOK, StartColorTransition, Maybe

LEMMA CommitKeeps ==
  ASSUME ColorsOK, NEW color \in Colors, CommitColor(color),
         UNCHANGED fallback
  PROVE  ColorsOK'
<1>1. CASE committed = color /\ UNCHANGED colorVars
  BY <1>1 DEF ColorsOK, HeaderAndPopupsAgree, colorVars
<1>2. CASE committed' = color /\ StartColorTransition(presented, color)
  <2>1. presented \in Colors \cup {Between}
    BY DEF ColorsOK
  <2>2. /\ target' \in {NoColor, color} /\ target' \in Maybe
        /\ presented' \in Colors \cup {Between}
        /\ popup' \in Colors \cup {Between}
        /\ target' = NoColor => presented' = color /\ popup' = color
    BY <1>2, <2>1, TransitionKeeps
  <2> QED
    BY <1>2, <2>2, SurfaceAssumption DEF ColorsOK, HeaderAndPopupsAgree, Maybe
<1> QED  BY <1>1, <1>2 DEF CommitColor

LEMMA MetadataKeeps ==
  ASSUME ColorsOK, meta \in Maybe, NEW s, CommitPageMetadata(s),
         UNCHANGED fallback
  PROVE  ColorsOK'
<1>1. CASE UNCHANGED colorVars
  BY <1>1 DEF ColorsOK, HeaderAndPopupsAgree, colorVars
<1>2. CASE meta # NoColor /\ CommitColor(meta)
  <2>1. meta \in Colors
    BY <1>2 DEF Maybe
  <2> QED  BY <1>2, <2>1, CommitKeeps
<1>3. CASE committed' = NoColor /\ StartColorTransition(presented, fallback)
  <2>1. presented \in Colors \cup {Between} /\ fallback \in Colors
    BY DEF ColorsOK
  <2>2. /\ target' \in {NoColor, fallback} /\ target' \in Maybe
        /\ presented' \in Colors \cup {Between}
        /\ popup' \in Colors \cup {Between}
        /\ target' = NoColor => presented' = fallback /\ popup' = fallback
    BY <1>3, <2>1, TransitionKeeps
  <2> QED
    BY <1>3, <2>1, <2>2 DEF ColorsOK, HeaderAndPopupsAgree, Maybe
<1> QED  BY <1>1, <1>2, <1>3 DEF CommitPageMetadata

-----------------------------------------------------------------------------
(* Sampling *)

\* The three ways in which a capture goes on, with what each leaves to do.
LEMMA TryAgainKeeps ==
  ASSUME PageOK, ColorsOK, UNCHANGED fallback,
         NEW s, IsSampling(s), ~s.inFlight, visible, TryAgain(s)
  PROVE  /\ ColorsOK' /\ IsSampling(sampling')
         /\ sampling'.scrolling = s.scrolling
         /\ sampling'.requests = {}
         /\ sampling'.late = s.late /\ sampling'.pending = s.pending
         /\ sampling'.attempt = s.attempt
         /\ s.attempt = MaximumSampleAttempts => sampling'.timer = s.timer
<1>1. CASE s.attempt < MaximumSampleAttempts
  <2>1. sampling' = [s EXCEPT !.timer = TRUE] /\ UNCHANGED colorVars
    BY <1>1 DEF TryAgain
  <2>2. ColorsOK'
    BY <2>1 DEF ColorsOK, HeaderAndPopupsAgree, colorVars
  <2>3. IsSampling(sampling')
    BY <2>1 DEF IsSampling, Sampling
  <2>4. /\ sampling'.scrolling = s.scrolling
        /\ sampling'.requests = s.requests
        /\ sampling'.late = s.late /\ sampling'.pending = s.pending
        /\ sampling'.attempt = s.attempt
    BY <2>1 DEF IsSampling, Sampling
  <2>5. s.requests = {}
    BY DEF IsSampling
  <2>6. s.attempt # MaximumSampleAttempts
    BY <1>1 DEF MaximumSampleAttempts
  <2> QED  BY <2>2, <2>3, <2>4, <2>5, <2>6
<1>2. CASE ~(s.attempt < MaximumSampleAttempts)
  <2>1. sampling' = s /\ CommitPageMetadata(s)
    BY <1>2 DEF TryAgain
  <2>2. ColorsOK'
    BY <2>1, MetadataKeeps DEF PageOK
  <2> QED  BY <2>1, <2>2 DEF IsSampling
<1> QED  BY <1>1, <1>2

\* A capture that cannot begin, begins, or is tried again.
LEMMA CaptureKeeps ==
  ASSUME PageOK, ColorsOK, UNCHANGED fallback,
         NEW s, IsSampling(s), CaptureTopStrip(s)
  PROVE  /\ ColorsOK' /\ IsSampling(sampling')
         /\ sampling'.scrolling = s.scrolling
         /\ sampling'.late = s.late /\ sampling'.pending = s.pending
         /\ \/ sampling' = s
            \/ /\ visible /\ s.requests = {}
               /\ sampling'.attempt =
                    IF s.attempt < MaximumSampleAttempts THEN s.attempt + 1
                    ELSE s.attempt
               /\ \/ sampling'.timer = s.timer /\ sampling'.requests = {Asked}
                  \/ /\ sampling'.requests = {}
                     /\ sampling'.attempt = MaximumSampleAttempts
                          => sampling'.timer = s.timer
<1> DEFINE next == [s EXCEPT !.attempt =
                      IF @ < MaximumSampleAttempts THEN @ + 1 ELSE @]
           missed == [next EXCEPT !.missed = TRUE]
           begun == [next EXCEPT !.inFlight = TRUE, !.requests = @ \cup {Asked}]
<1>1. /\ s \in Sampling /\ next \in Sampling
      /\ next.attempt = IF s.attempt < MaximumSampleAttempts
                        THEN s.attempt + 1 ELSE s.attempt
      /\ next.timer = s.timer /\ next.late = s.late
      /\ next.scrolling = s.scrolling /\ next.inFlight = s.inFlight
      /\ next.requests = s.requests /\ next.pending = s.pending
  BY DEF IsSampling, Sampling, MaximumSampleAttempts
<1>2. CASE sampling' = s /\ UNCHANGED colorVars
  BY <1>2 DEF ColorsOK, HeaderAndPopupsAgree, colorVars
<1>3. ASSUME ~s.inFlight, visible, TryAgain(missed)
      PROVE  /\ ColorsOK' /\ IsSampling(sampling')
             /\ sampling'.scrolling = s.scrolling
             /\ sampling'.late = s.late /\ sampling'.pending = s.pending
             /\ s.requests = {} /\ sampling'.requests = {}
             /\ sampling'.attempt = next.attempt
             /\ sampling'.attempt = MaximumSampleAttempts
                  => sampling'.timer = s.timer
  <2> HIDE DEF next
  <2>1. /\ missed \in Sampling
        /\ missed.attempt = next.attempt
        /\ missed.timer = s.timer /\ missed.late = s.late
        /\ missed.scrolling = s.scrolling /\ missed.inFlight = s.inFlight
        /\ missed.requests = s.requests /\ missed.pending = s.pending
    BY <1>1 DEF Sampling
  <2> HIDE DEF missed
  <2>2. s.requests = {}
    BY <1>3 DEF IsSampling
  <2>3. IsSampling(missed) /\ ~missed.inFlight
    BY <1>3, <2>1, <2>2 DEF IsSampling
  <2> QED  BY <1>3, <2>1, <2>2, <2>3, TryAgainKeeps
<1>4. ASSUME ~s.inFlight, visible, sampling' = begun, UNCHANGED colorVars
      PROVE  /\ ColorsOK' /\ IsSampling(sampling')
             /\ sampling'.scrolling = s.scrolling
             /\ sampling'.late = s.late /\ sampling'.pending = s.pending
             /\ s.requests = {} /\ sampling'.requests = {Asked}
             /\ sampling'.attempt = next.attempt /\ sampling'.timer = s.timer
  <2> HIDE DEF next
  <2>1. s.requests = {}
    BY <1>4 DEF IsSampling
  <2>2. /\ begun \in Sampling /\ begun.inFlight /\ begun.requests = {Asked}
        /\ begun.scrolling = s.scrolling /\ begun.late = s.late
        /\ begun.pending = s.pending /\ begun.attempt = next.attempt
        /\ begun.timer = s.timer
    BY <1>1, <2>1 DEF Sampling
  <2> HIDE DEF begun
  <2>3. IsSampling(begun)
    BY <2>2 DEF IsSampling
  <2>4. ColorsOK'
    BY <1>4 DEF ColorsOK, HeaderAndPopupsAgree, colorVars
  <2> QED  BY <1>4, <2>1, <2>2, <2>3, <2>4
<1>5. \/ sampling' = s /\ UNCHANGED colorVars
      \/ /\ ~s.inFlight /\ visible
         /\ (sampling' = begun /\ UNCHANGED colorVars) \/ TryAgain(missed)
  BY DEF CaptureTopStrip
<1> HIDE DEF next, missed, begun
<1>6. CASE ~s.inFlight /\ visible /\ TryAgain(missed)
  BY <1>1, <1>3, <1>6
<1>7. CASE ~s.inFlight /\ visible /\ sampling' = begun /\ UNCHANGED colorVars
  BY <1>1, <1>4, <1>7
<1> QED  BY <1>2, <1>5, <1>6, <1>7

\* An epoch begins with nothing under way, on a page in sight.
LEMMA EpochKeeps ==
  ASSUME NEW s, s \in Sampling, strip' \in Maybe
  PROVE  LET e == NewEpoch(s)
         IN  /\ IsSampling(e) /\ e.requests = {} /\ ~e.inFlight
             /\ e.attempt = 0 /\ e.pending = s.pending /\ e.timer = s.timer
             /\ e.late = s.late /\ e.scrolling = s.scrolling
<1> DEFINE e == NewEpoch(s)
<1>1. e = [s EXCEPT !.requests = {}, !.inFlight = FALSE, !.attempt = 0,
                    !.candidate = NoColor, !.stable = 0,
                    !.viewed = {strip'}, !.missed = FALSE]
  BY DEF NewEpoch
<1> HIDE DEF e
<1>2. NoColor \in Maybe /\ {strip'} \in SUBSET Maybe
  BY DEF Maybe
<1>3. e \in Sampling
  <2>1. 0 \in 0..MaximumSampleAttempts /\ 0 \in 0..RequiredStableSamples
    BY DEF MaximumSampleAttempts, RequiredStableSamples
  <2>2. {} \in SUBSET (Maybe \cup {Asked})
    OBVIOUS
  <2> QED  BY <1>1, <1>2, <2>1, <2>2 DEF Sampling
<1>4. /\ e.requests = {} /\ ~e.inFlight
      /\ e.attempt = 0 /\ e.pending = s.pending /\ e.timer = s.timer
      /\ e.late = s.late /\ e.scrolling = s.scrolling
  BY <1>1 DEF Sampling
<1>5. IsSampling(e)
  BY <1>3, <1>4 DEF IsSampling
<1> QED  BY <1>4, <1>5 DEF e

LEMMA RestartKeeps ==
  ASSUME NEW s, s \in Sampling, strip' \in Maybe, visible' \in BOOLEAN
  PROVE  LET r == RestartPageSampling(s)
         IN  /\ IsSampling(r) /\ r.requests = {} /\ ~r.inFlight
             /\ ~r.late /\ ~r.scrolling /\ r.timer = visible'
             /\ r.attempt = 0 /\ r.pending = s.pending
<1> DEFINE e == NewEpoch(s)
           r == RestartPageSampling(s)
<1>1. /\ IsSampling(e) /\ e.requests = {} /\ ~e.inFlight
      /\ e.attempt = 0 /\ e.pending = s.pending
  BY EpochKeeps
<1>2. r = [e EXCEPT !.timer = visible', !.late = FALSE, !.scrolling = FALSE]
  BY DEF RestartPageSampling
<1> HIDE DEF e, r
<1>3. r \in Sampling
  BY <1>1, <1>2 DEF IsSampling, Sampling
<1>4. /\ r.requests = {} /\ ~r.inFlight /\ ~r.late /\ ~r.scrolling
      /\ r.timer = visible' /\ r.attempt = 0 /\ r.pending = s.pending
  BY <1>1, <1>2 DEF IsSampling, Sampling
<1>5. IsSampling(r)
  BY <1>3, <1>4 DEF IsSampling
<1> QED  BY <1>4, <1>5 DEF r

\* A restart leaves nothing to wait for on a tab that is hidden.
LEMMA RestartIsQuiet ==
  ASSUME NEW s, s \in Sampling, strip' \in Maybe, visible' \in BOOLEAN,
         sampling' = RestartPageSampling(s)
  PROVE  IsSampling(sampling') /\ (~visible' => Quiet(sampling'))
BY RestartKeeps DEF Quiet

LEMMA SettlingKeeps ==
  ASSUME sampling \in Sampling, strip' \in Maybe, visible' \in BOOLEAN,
         BeginPageSettling
  PROVE  IsSampling(sampling') /\ (~visible' => Quiet(sampling'))
<1> DEFINE s == [sampling EXCEPT !.pending = PageSettlingSampleCount]
           r == RestartPageSampling(s)
<1>1. s \in Sampling
  BY DEF Sampling, PageSettlingSampleCount
<1>2. /\ IsSampling(r) /\ r.requests = {} /\ ~r.inFlight
      /\ ~r.scrolling /\ r.timer = visible'
  BY <1>1, RestartKeeps
<1>3. sampling' = [r EXCEPT !.late = visible']
  BY DEF BeginPageSettling
<1> HIDE DEF s, r
<1>4. /\ sampling' \in Sampling /\ sampling'.requests = {}
      /\ ~sampling'.inFlight /\ ~sampling'.scrolling
      /\ sampling'.timer = visible' /\ sampling'.late = visible'
  BY <1>2, <1>3 DEF IsSampling, Sampling
<1> QED  BY <1>4 DEF IsSampling, Quiet

LEMMA ScheduleKeeps ==
  ASSUME NEW s, IsSampling(s), s.requests = {},
         sampling' = ScheduleNextPageSettlingSample(s)
  PROVE  /\ IsSampling(sampling')
         /\ sampling'.scrolling = s.scrolling /\ sampling'.requests = {}
         /\ sampling'.late = s.late /\ sampling'.attempt = s.attempt
         /\ \/ sampling' = s
            \/ sampling'.pending = s.pending - 1
<1>1. CASE sampling' = s
  BY <1>1
<1>2. CASE sampling' = [s EXCEPT !.pending = @ - 1, !.timer = TRUE]
           /\ s.pending # 0
  <2>1. s \in Sampling /\ s.pending - 1 \in 0..PageSettlingSampleCount
    BY <1>2 DEF IsSampling, Sampling, PageSettlingSampleCount
  <2>2. /\ sampling' \in Sampling /\ sampling'.inFlight = s.inFlight
        /\ sampling'.scrolling = s.scrolling
        /\ sampling'.requests = s.requests
        /\ sampling'.late = s.late /\ sampling'.attempt = s.attempt
        /\ sampling'.pending = s.pending - 1
    BY <1>2, <2>1 DEF Sampling
  <2> QED  BY <2>2 DEF IsSampling
<1> QED  BY <1>1, <1>2 DEF ScheduleNextPageSettlingSample

-----------------------------------------------------------------------------
(* Steps without an event *)

Wanes ==
  sampling' # sampling /\ ~sampling'.scrolling
    => Work(sampling') < Work(sampling)

LEMMA SampleTimerKeeps ==
  ASSUME SurfaceInv, SampleTimer
  PROVE  SurfaceInv' /\ Wanes
<1> DEFINE s == [sampling EXCEPT !.timer = FALSE]
<1>1. /\ sampling \in Sampling /\ sampling.timer /\ visible
      /\ PageOK /\ ColorsOK
  BY DEF SurfaceInv, IsSampling, SampleTimer, Quiet, PageOK
<1>2. /\ s \in Sampling /\ ~s.timer /\ s.late = sampling.late
      /\ s.scrolling = sampling.scrolling /\ s.inFlight = sampling.inFlight
      /\ s.requests = sampling.requests /\ s.attempt = sampling.attempt
      /\ s.pending = sampling.pending
  BY <1>1 DEF Sampling
<1>3. CaptureTopStrip(s) /\ UNCHANGED <<webVars, loadVars, fallback, happened>>
  BY DEF SampleTimer
<1> HIDE DEF s
<1>4. IsSampling(s)
  BY <1>2 DEF IsSampling, SurfaceInv
<1>5. /\ ColorsOK' /\ IsSampling(sampling')
      /\ sampling'.scrolling = s.scrolling
      /\ sampling'.late = s.late /\ sampling'.pending = s.pending
      /\ \/ sampling' = s
         \/ /\ visible /\ s.requests = {}
            /\ sampling'.attempt =
                 IF s.attempt < MaximumSampleAttempts THEN s.attempt + 1
                 ELSE s.attempt
            /\ \/ sampling'.timer = s.timer /\ sampling'.requests = {Asked}
               \/ /\ sampling'.requests = {}
                  /\ sampling'.attempt = MaximumSampleAttempts
                       => sampling'.timer = s.timer
  BY <1>1, <1>3, <1>4, CaptureKeeps
<1>6. SurfaceInv'
  BY <1>1, <1>3, <1>5 DEF SurfaceInv, PageOK, webVars, loadVars
<1>7. /\ s.attempt \in 0..5 /\ s.pending \in 0..2
      /\ sampling'.attempt \in 0..5 /\ sampling'.timer \in BOOLEAN
  BY <1>2, <1>5 DEF IsSampling, Sampling, MaximumSampleAttempts,
                    PageSettlingSampleCount
<1>8. Wanes
  <2>1. CASE sampling' = s
    BY <1>1, <1>2, <1>7, <2>1 DEF Wanes, Work, MaximumSampleAttempts
  <2>2. CASE sampling'.timer = s.timer /\ sampling'.requests = {Asked}
             /\ s.requests = {}
             /\ sampling'.attempt = IF s.attempt < MaximumSampleAttempts
                                    THEN s.attempt + 1 ELSE s.attempt
    BY <1>1, <1>2, <1>5, <1>7, <2>2 DEF Wanes, Work, MaximumSampleAttempts
  <2>3. CASE sampling'.requests = {} /\ s.requests = {}
             /\ (sampling'.attempt = MaximumSampleAttempts
                   => sampling'.timer = s.timer)
             /\ sampling'.attempt = IF s.attempt < MaximumSampleAttempts
                                    THEN s.attempt + 1 ELSE s.attempt
    BY <1>1, <1>2, <1>5, <1>7, <2>3 DEF Wanes, Work, MaximumSampleAttempts
  <2> QED  BY <1>5, <2>1, <2>2, <2>3
<1> QED  BY <1>6, <1>8

LEMMA ScrollTimerKeeps ==
  ASSUME SurfaceInv, ScrollTimer
  PROVE  SurfaceInv' /\ Wanes
<1>1. /\ PageOK /\ ColorsOK /\ IsSampling(sampling) /\ visible
      /\ sampling.scrolling
      /\ UNCHANGED <<webVars, loadVars, fallback, happened>>
  BY DEF SurfaceInv, ScrollTimer, Quiet, PageOK
<1>2. /\ ColorsOK' /\ IsSampling(sampling')
      /\ sampling'.scrolling = sampling.scrolling
  BY <1>1, CaptureKeeps DEF ScrollTimer
<1> QED  BY <1>1, <1>2 DEF SurfaceInv, PageOK, webVars, loadVars, Wanes

LEMMA StopScrollKeeps ==
  ASSUME SurfaceInv, StopScrollSampling
  PROVE  SurfaceInv' /\ Wanes
<1> DEFINE e == NewEpoch(sampling)
           s == [e EXCEPT !.scrolling = FALSE]
<1>1. /\ sampling \in Sampling /\ sampling.scrolling /\ visible
      /\ PageOK /\ ColorsOK
      /\ UNCHANGED <<webVars, loadVars, fallback, happened>>
      /\ strip' = strip /\ strip \in Maybe
      /\ CaptureTopStrip(s)
  BY DEF SurfaceInv, IsSampling, StopScrollSampling, Quiet, PageOK, webVars
<1>2. /\ IsSampling(e) /\ e.requests = {} /\ ~e.inFlight /\ e.attempt = 0
      /\ e.pending = sampling.pending /\ e.timer = sampling.timer
      /\ e.late = sampling.late
  BY <1>1, EpochKeeps
<1> HIDE DEF e
<1>3. /\ IsSampling(s) /\ s.requests = {} /\ ~s.inFlight /\ s.attempt = 0
      /\ s.pending = sampling.pending /\ s.timer = sampling.timer
      /\ s.late = sampling.late /\ ~s.scrolling
  BY <1>2 DEF IsSampling, Sampling
<1> HIDE DEF s
<1>4. /\ ColorsOK' /\ IsSampling(sampling')
      /\ sampling'.scrolling = s.scrolling
      /\ sampling'.late = s.late /\ sampling'.pending = s.pending
      /\ \/ sampling' = s
         \/ sampling'.attempt = 1
  BY <1>1, <1>3, CaptureKeeps DEF MaximumSampleAttempts
<1>5. SurfaceInv'
  BY <1>1, <1>4 DEF SurfaceInv, PageOK, webVars, loadVars
<1>6. /\ sampling.attempt \in 0..5 /\ sampling.pending \in 0..2
      /\ sampling'.timer \in BOOLEAN /\ sampling.timer \in BOOLEAN
  BY <1>1, <1>4 DEF IsSampling, Sampling, MaximumSampleAttempts,
                    PageSettlingSampleCount
<1>7. sampling'.attempt \in {0, 1}
  BY <1>3, <1>4
<1>8. Wanes
  BY <1>1, <1>3, <1>4, <1>6, <1>7 DEF Wanes, Work, MaximumSampleAttempts
<1> QED  BY <1>5, <1>8

LEMMA VerifyLateKeeps ==
  ASSUME SurfaceInv, VerifyLatePageSurface
  PROVE  SurfaceInv' /\ Wanes
<1> DEFINE s == [sampling EXCEPT !.pending = 0]
<1>1. /\ sampling \in Sampling /\ sampling.late /\ visible
      /\ UNCHANGED <<webVars, loadVars, fallback, colorVars, happened>>
      /\ strip' \in Maybe /\ visible' \in BOOLEAN
      /\ sampling' = RestartPageSampling(s)
  BY DEF SurfaceInv, IsSampling, VerifyLatePageSurface, Quiet, PageOK, webVars
<1>2. s \in Sampling /\ s.pending = 0
  BY <1>1 DEF Sampling, PageSettlingSampleCount
<1> HIDE DEF s
<1>3. /\ IsSampling(sampling') /\ sampling'.requests = {}
      /\ ~sampling'.late /\ ~sampling'.scrolling
      /\ sampling'.attempt = 0 /\ sampling'.pending = 0
      /\ ~visible' => Quiet(sampling')
  BY <1>1, <1>2, RestartKeeps, RestartIsQuiet
<1>4. SurfaceInv'
  BY <1>1, <1>3 DEF SurfaceInv, PageOK, ColorsOK, HeaderAndPopupsAgree,
                    webVars, loadVars, colorVars
<1>5. /\ sampling.attempt \in 0..5 /\ sampling.pending \in 0..2
      /\ sampling'.timer \in BOOLEAN
  BY <1>1, <1>3 DEF IsSampling, Sampling, MaximumSampleAttempts,
                    PageSettlingSampleCount
<1>6. Wanes
  BY <1>1, <1>3, <1>5 DEF Wanes, Work, MaximumSampleAttempts
<1> QED  BY <1>4, <1>6

LEMMA PictureKeeps ==
  ASSUME SurfaceInv, PictureTaken
  PROVE  SurfaceInv' /\ Wanes
<1>1. /\ sampling \in Sampling /\ sampling.inFlight /\ visible
      /\ sampling.requests = {Asked}
      /\ UNCHANGED <<webVars, loadVars, fallback, colorVars, happened>>
      /\ strip \in Maybe
  BY DEF SurfaceInv, IsSampling, PictureTaken, Quiet, PageOK
<1>2. sampling' = [sampling EXCEPT !.requests = {strip}]
  BY <1>1 DEF PictureTaken
<1>3. /\ sampling' \in Sampling /\ sampling'.requests = {strip}
      /\ sampling'.inFlight
      /\ sampling'.attempt = sampling.attempt
      /\ sampling'.pending = sampling.pending
      /\ sampling'.timer = sampling.timer /\ sampling'.late = sampling.late
      /\ sampling'.scrolling = sampling.scrolling
  BY <1>1, <1>2 DEF Sampling
<1>4. IsSampling(sampling')
  BY <1>1, <1>3 DEF IsSampling
<1>5. SurfaceInv'
  BY <1>1, <1>4 DEF SurfaceInv, PageOK, ColorsOK, HeaderAndPopupsAgree,
                    webVars, loadVars, colorVars
<1>6. sampling.attempt \in 0..5 /\ sampling.pending \in 0..2
  BY <1>1 DEF Sampling, MaximumSampleAttempts, PageSettlingSampleCount
<1>7. /\ sampling.requests # {} /\ Asked \in sampling.requests
      /\ sampling'.requests # {} /\ Asked \notin sampling'.requests
  BY <1>1, <1>3, SurfaceAssumption DEF Maybe
<1>8. sampling.timer \in BOOLEAN /\ sampling.late \in BOOLEAN
  BY <1>1 DEF Sampling
<1>9. Wanes
  <2> DEFINE left == (IF sampling.scrolling THEN 70 ELSE 0)
                     + (IF sampling.late THEN 60 ELSE 0)
                     + 10 * (sampling.pending + 5 - sampling.attempt)
                     + (IF ~sampling.timer THEN 0
                        ELSE IF sampling.attempt < 5 THEN 1 ELSE 6)
  <2>1. left \in Int
    BY <1>6, <1>8
  <2>2. Work(sampling) = left + 5
    BY <1>7 DEF Work, MaximumSampleAttempts
  <2>3. Work(sampling') = left + 4
    BY <1>3, <1>7 DEF Work, MaximumSampleAttempts
  <2> HIDE DEF left
  <2> QED  BY <2>1, <2>2, <2>3 DEF Wanes
<1> QED  BY <1>5, <1>9

\* A capture that ends, with a picture or without, leaves less to do.
LEMMA AnswerWanes ==
  ASSUME sampling \in Sampling, sampling.requests # {},
         sampling' \in Sampling, sampling'.requests = {},
         sampling'.scrolling = sampling.scrolling,
         sampling'.late = sampling.late,
         sampling'.attempt = sampling.attempt,
         \/ sampling'.pending = sampling.pending - 1
         \/ /\ sampling'.pending = sampling.pending
            /\ sampling.attempt = MaximumSampleAttempts
                 => sampling'.timer = sampling.timer
  PROVE  Wanes
<1>1. /\ sampling.attempt \in 0..5 /\ sampling.pending \in 0..2
      /\ sampling'.timer \in BOOLEAN /\ sampling.timer \in BOOLEAN
  BY DEF Sampling, MaximumSampleAttempts, PageSettlingSampleCount
<1> QED  BY <1>1 DEF Wanes, Work, MaximumSampleAttempts

LEMMA CapturedKeeps ==
  ASSUME SurfaceInv, NEW picture, Captured(picture)
  PROVE  SurfaceInv' /\ Wanes
<1> DEFINE got == [sampling EXCEPT !.requests = @ \ {picture},
                                   !.inFlight = FALSE]
           seen == [got EXCEPT !.candidate = picture,
                               !.stable = IF @ > 0 /\ got.candidate = picture
                                          THEN RequiredStableSamples ELSE 1]
<1>1. /\ PageOK /\ ColorsOK /\ visible
      /\ sampling \in Sampling /\ sampling.requests # {}
      /\ sampling.requests = {picture} /\ picture \in Maybe
      /\ UNCHANGED <<webVars, loadVars, fallback, happened>>
  BY DEF SurfaceInv, IsSampling, Captured, Quiet, Sampling, PageOK
<1>2. /\ got \in Sampling /\ got.requests = {} /\ ~got.inFlight
      /\ got.attempt = sampling.attempt /\ got.pending = sampling.pending
      /\ got.timer = sampling.timer /\ got.late = sampling.late
      /\ got.scrolling = sampling.scrolling
  BY <1>1 DEF Sampling
<1>3. \/ TryAgain(got)
      \/ TryAgain(seen)
      \/ /\ CommitColor(picture) /\ picture # NoColor
         /\ sampling' = ScheduleNextPageSettlingSample(seen)
  BY DEF Captured
<1> HIDE DEF got
<1> DEFINE steady == IF got.stable > 0 /\ got.candidate = picture
                     THEN RequiredStableSamples ELSE 1
<1>4. seen = [got EXCEPT !.candidate = picture, !.stable = steady]
  OBVIOUS
<1>5. steady \in 0..RequiredStableSamples
  BY DEF RequiredStableSamples
<1> HIDE DEF seen, steady
<1>6. /\ seen \in Sampling /\ seen.requests = {} /\ ~seen.inFlight
      /\ seen.attempt = sampling.attempt /\ seen.pending = sampling.pending
      /\ seen.timer = sampling.timer /\ seen.late = sampling.late
      /\ seen.scrolling = sampling.scrolling
  BY <1>1, <1>2, <1>4, <1>5 DEF Sampling
<1>7. IsSampling(got) /\ IsSampling(seen)
  BY <1>2, <1>6 DEF IsSampling
<1>8. ASSUME NEW s \in {got, seen}, TryAgain(s)
      PROVE  SurfaceInv' /\ Wanes
  <2>1. /\ IsSampling(s) /\ ~s.inFlight
        /\ s.attempt = sampling.attempt /\ s.pending = sampling.pending
        /\ s.timer = sampling.timer /\ s.late = sampling.late
        /\ s.scrolling = sampling.scrolling
    BY <1>2, <1>6, <1>7
  <2>2. /\ ColorsOK' /\ IsSampling(sampling')
        /\ sampling'.scrolling = s.scrolling
        /\ sampling'.requests = {}
        /\ sampling'.late = s.late /\ sampling'.pending = s.pending
        /\ sampling'.attempt = s.attempt
        /\ s.attempt = MaximumSampleAttempts => sampling'.timer = s.timer
    BY <1>1, <1>8, <2>1, TryAgainKeeps
  <2>3. SurfaceInv'
    BY <1>1, <2>2 DEF SurfaceInv, PageOK, webVars, loadVars
  <2>4. sampling' \in Sampling
    BY <2>2 DEF IsSampling
  <2>5. Wanes
    BY <1>1, <2>1, <2>2, <2>4, AnswerWanes
  <2> QED  BY <2>3, <2>5
<1>9. ASSUME CommitColor(picture), picture # NoColor,
             sampling' = ScheduleNextPageSettlingSample(seen)
      PROVE  SurfaceInv' /\ Wanes
  <2>1. ColorsOK'
    BY <1>1, <1>9, CommitKeeps DEF Maybe
  <2>2. /\ IsSampling(sampling')
        /\ sampling'.scrolling = seen.scrolling /\ sampling'.requests = {}
        /\ sampling'.late = seen.late /\ sampling'.attempt = seen.attempt
        /\ \/ sampling' = seen
           \/ sampling'.pending = seen.pending - 1
    BY <1>6, <1>7, <1>9, ScheduleKeeps
  <2>3. SurfaceInv'
    BY <1>1, <2>1, <2>2 DEF SurfaceInv, PageOK, webVars, loadVars
  <2>4. sampling' \in Sampling
    BY <2>2 DEF IsSampling
  <2>5. \/ sampling'.pending = sampling.pending - 1
        \/ /\ sampling'.pending = sampling.pending
           /\ sampling'.timer = sampling.timer
    BY <1>6, <2>2
  <2>6. Wanes
    BY <1>1, <1>6, <2>2, <2>4, <2>5, AnswerWanes
  <2> QED  BY <2>3, <2>6
<1> QED  BY <1>3, <1>8, <1>9

LEMMA CaptureFailsKeeps ==
  ASSUME SurfaceInv, CaptureFails
  PROVE  SurfaceInv' /\ Wanes
<1>1. /\ PageOK /\ ColorsOK /\ visible
      /\ sampling \in Sampling /\ sampling.requests # {}
      /\ UNCHANGED <<webVars, loadVars, fallback, happened>>
  BY DEF SurfaceInv, IsSampling, CaptureFails, Quiet, PageOK
<1>2. PICK r \in sampling.requests :
        TryAgain([sampling EXCEPT !.requests = @ \ {r}, !.inFlight = FALSE,
                                  !.missed = TRUE])
  BY DEF CaptureFails
<1> DEFINE s == [sampling EXCEPT !.requests = @ \ {r}, !.inFlight = FALSE,
                                 !.missed = TRUE]
<1>3. sampling.requests = {r}
  BY <1>1, <1>2 DEF SurfaceInv, IsSampling
<1>4. /\ s \in Sampling /\ s.requests = {} /\ ~s.inFlight
      /\ s.attempt = sampling.attempt /\ s.pending = sampling.pending
      /\ s.timer = sampling.timer /\ s.late = sampling.late
      /\ s.scrolling = sampling.scrolling
  BY <1>1, <1>3 DEF Sampling
<1> HIDE DEF s
<1>5. IsSampling(s) /\ TryAgain(s)
  BY <1>2, <1>4 DEF IsSampling, s
<1>6. /\ ColorsOK' /\ IsSampling(sampling')
      /\ sampling'.scrolling = s.scrolling
      /\ sampling'.requests = {}
      /\ sampling'.late = s.late /\ sampling'.pending = s.pending
      /\ sampling'.attempt = s.attempt
      /\ s.attempt = MaximumSampleAttempts => sampling'.timer = s.timer
  BY <1>1, <1>4, <1>5, TryAgainKeeps
<1>7. SurfaceInv'
  BY <1>1, <1>6 DEF SurfaceInv, PageOK, webVars, loadVars
<1>8. sampling' \in Sampling
  BY <1>6 DEF IsSampling
<1>9. Wanes
  BY <1>1, <1>4, <1>6, <1>8, AnswerWanes
<1> QED  BY <1>7, <1>9

LEMMA AnimationKeeps ==
  ASSUME SurfaceInv, AdvanceColorTransition \/ AnimationFrame
  PROVE  SurfaceInv' /\ Wanes
<1>1. /\ PageOK' /\ sampling' = sampling /\ visible' = visible
  BY DEF SurfaceInv, PageOK, webVars, loadVars, AdvanceColorTransition,
         AnimationFrame
<1>2. ColorsOK /\ target # NoColor
  BY DEF SurfaceInv, AdvanceColorTransition, AnimationFrame
<1>3. target \in Colors
  BY <1>2 DEF ColorsOK, Maybe
<1>4. CASE AdvanceColorTransition
  <2>1. ColorsOK'
    BY <1>2, <1>3, <1>4
       DEF ColorsOK, AdvanceColorTransition, HeaderAndPopupsAgree, Maybe
  <2> QED  BY <1>1, <2>1 DEF SurfaceInv, Wanes
<1>5. CASE AnimationFrame
  <2>1. ColorsOK'
    BY <1>2, <1>3, <1>5 DEF ColorsOK, AnimationFrame, HeaderAndPopupsAgree
  <2> QED  BY <1>1, <2>1 DEF SurfaceInv, Wanes
<1> QED  BY <1>4, <1>5

-----------------------------------------------------------------------------
(* Events *)

LEMMA SameColors ==
  ASSUME ColorsOK, UNCHANGED <<fallback, colorVars>>
  PROVE  ColorsOK'
BY DEF ColorsOK, HeaderAndPopupsAgree, colorVars

\* What an event does to the page, with the sampling it leaves.
LEMMA PageEventKeeps ==
  ASSUME SurfaceInv, UNCHANGED <<fallback, colorVars>>,
         \/ \E same \in BOOLEAN : DidFinishNavigation(same)
         \/ DidStopLoading \/ RenderViewReady
         \/ DidFirstVisuallyNonEmptyPaint \/ PageColorChanges \/ Interaction
         \/ Repainted \/ Shown
  PROVE  /\ visible' \in BOOLEAN /\ framed' \in BOOLEAN
         /\ waitingForLoad' \in BOOLEAN /\ paintSeen' \in BOOLEAN
         /\ strip' \in Maybe /\ meta' \in Maybe
         /\ IsSampling(sampling') /\ (~visible' => Quiet(sampling'))
<1>1. PageOK /\ sampling \in Sampling
  BY DEF SurfaceInv, IsSampling
<1>2. ASSUME NEW same \in BOOLEAN, DidFinishNavigation(same)
      PROVE  /\ visible' \in BOOLEAN /\ framed' \in BOOLEAN
             /\ waitingForLoad' \in BOOLEAN /\ paintSeen' \in BOOLEAN
             /\ strip' \in Maybe /\ meta' \in Maybe
             /\ IsSampling(sampling') /\ (~visible' => Quiet(sampling'))
  <2> DEFINE s == [sampling EXCEPT !.pending = 0]
  <2>1. /\ visible' \in BOOLEAN /\ framed' \in BOOLEAN
        /\ waitingForLoad' \in BOOLEAN /\ paintSeen' \in BOOLEAN
        /\ strip' \in Maybe /\ meta' \in Maybe
    BY <1>1, <1>2 DEF DidFinishNavigation, PageOK, webVars
  <2>2. s \in Sampling
    BY <1>1 DEF Sampling, PageSettlingSampleCount
  <2>3. \/ sampling' = RestartPageSampling(sampling)
        \/ sampling' = RestartPageSampling(s)
    BY <1>2 DEF DidFinishNavigation
  <2> HIDE DEF s
  <2>4. IsSampling(sampling') /\ (~visible' => Quiet(sampling'))
    BY <1>1, <2>1, <2>2, <2>3, RestartIsQuiet
  <2> QED  BY <2>1, <2>4
<1>3. CASE DidStopLoading \/ RenderViewReady
           \/ DidFirstVisuallyNonEmptyPaint \/ PageColorChanges
           \/ Interaction \/ Shown
  <2>1. /\ visible' \in BOOLEAN /\ framed' \in BOOLEAN
        /\ waitingForLoad' \in BOOLEAN /\ paintSeen' \in BOOLEAN
        /\ strip' \in Maybe /\ meta' \in Maybe
    BY <1>1, <1>3
       DEF DidStopLoading, RenderViewReady, DidFirstVisuallyNonEmptyPaint,
           PageColorChanges, Interaction, Shown, PageOK, webVars, loadVars
  <2>2. BeginPageSettling \/ sampling' = RestartPageSampling(sampling)
    BY <1>3
       DEF DidStopLoading, RenderViewReady, DidFirstVisuallyNonEmptyPaint,
           PageColorChanges, Interaction, Shown
  <2> QED  BY <1>1, <2>1, <2>2, SettlingKeeps, RestartIsQuiet
<1>4. CASE Repainted
  <2>1. /\ visible' \in BOOLEAN /\ framed' \in BOOLEAN
        /\ waitingForLoad' \in BOOLEAN /\ paintSeen' \in BOOLEAN
        /\ strip' \in Maybe /\ meta' \in Maybe
        /\ visible' = visible
    BY <1>1, <1>4 DEF Repainted, PageOK, loadVars
  <2>2. sampling' = [sampling EXCEPT !.viewed = @ \cup {strip'}]
    BY <1>4 DEF Repainted
  <2>3. sampling.viewed \cup {strip'} \in SUBSET Maybe
    BY <1>1, <2>1 DEF Sampling
  <2>4. /\ sampling' \in Sampling /\ sampling'.requests = sampling.requests
        /\ sampling'.inFlight = sampling.inFlight
        /\ sampling'.timer = sampling.timer /\ sampling'.late = sampling.late
        /\ sampling'.scrolling = sampling.scrolling
    BY <1>1, <2>2, <2>3 DEF Sampling
  <2> QED  BY <2>1, <2>4 DEF SurfaceInv, IsSampling, Quiet
<1> QED  BY <1>2, <1>3, <1>4

LEMMA HiddenKeeps ==
  ASSUME SurfaceInv, Hidden
  PROVE  /\ ColorsOK' /\ visible' \in BOOLEAN
         /\ IsSampling(sampling') /\ Quiet(sampling')
<1>1. PageOK /\ ColorsOK /\ sampling \in Sampling
  BY DEF SurfaceInv, IsSampling
<1> DEFINE s == [sampling EXCEPT !.pending = 0]
<1>2. s \in Sampling
  BY <1>1 DEF Sampling, PageSettlingSampleCount
<1>3. /\ sampling' = RestartPageSampling(s) /\ visible' = FALSE
      /\ strip' \in Maybe
  BY <1>1 DEF Hidden, PageOK
<1> HIDE DEF s
<1>4. IsSampling(sampling') /\ Quiet(sampling')
  BY <1>2, <1>3, RestartIsQuiet
<1>5. CASE target = NoColor
  BY <1>1, <1>3, <1>4, <1>5 DEF Hidden, ColorsOK, HeaderAndPopupsAgree
<1>6. CASE target # NoColor
  <2>1. target \in Colors
    BY <1>1, <1>6 DEF ColorsOK, Maybe
  <2>2. ColorsOK'
    BY <1>1, <1>6, <2>1 DEF Hidden, ColorsOK, HeaderAndPopupsAgree, Maybe
  <2> QED  BY <1>3, <1>4, <2>2
<1> QED  BY <1>5, <1>6

LEMMA FallbackKeeps ==
  ASSUME SurfaceInv, NEW color \in Colors, SetThemeFallbackColor(color)
  PROVE  /\ ColorsOK'
         /\ IsSampling(sampling') /\ (~visible' => Quiet(sampling'))
<1>1. PageOK /\ ColorsOK /\ sampling \in Sampling
  BY DEF SurfaceInv, IsSampling
<1>2. strip' \in Maybe /\ visible' \in BOOLEAN /\ BeginPageSettling
  BY <1>1 DEF SetThemeFallbackColor, PageOK, webVars
<1>3. IsSampling(sampling') /\ (~visible' => Quiet(sampling'))
  BY <1>1, <1>2, SettlingKeeps
<1>4. CASE committed = NoColor
  <2>1. presented \in Colors \cup {Between}
    BY <1>1 DEF ColorsOK
  <2>2. StartColorTransition(presented, color)
    BY <1>4 DEF SetThemeFallbackColor
  <2>3. /\ target' \in {NoColor, color} /\ target' \in Maybe
        /\ presented' \in Colors \cup {Between}
        /\ popup' \in Colors \cup {Between}
        /\ target' = NoColor => presented' = color /\ popup' = color
    BY <1>1, <2>1, <2>2, TransitionKeeps
  <2>4. ColorsOK'
    BY <1>1, <1>4, <2>3
       DEF SetThemeFallbackColor, ColorsOK, HeaderAndPopupsAgree
  <2> QED  BY <1>3, <2>4
<1>5. CASE committed # NoColor
  <2>1. ColorsOK'
    BY <1>1, <1>5 DEF SetThemeFallbackColor, ColorsOK, HeaderAndPopupsAgree
  <2> QED  BY <1>3, <2>1
<1> QED  BY <1>4, <1>5

LEMMA ActivateKeeps ==
  ASSUME SurfaceInv, NEW current \in Colors \cup {Between},
         ActivateFrom(current)
  PROVE  ColorsOK'
<1> DEFINE color == IF committed = NoColor THEN fallback ELSE committed
<1>1. ColorsOK /\ UNCHANGED <<fallback, committed>>
  BY DEF SurfaceInv, ActivateFrom
<1>2. color \in Colors /\ StartColorTransition(current, color)
  BY <1>1 DEF ActivateFrom, ColorsOK, Maybe
<1> HIDE DEF color
<1>3. /\ target' \in {NoColor, color} /\ target' \in Maybe
      /\ presented' \in Colors \cup {Between}
      /\ popup' \in Colors \cup {Between}
      /\ target' = NoColor => presented' = color /\ popup' = color
  BY <1>1, <1>2, TransitionKeeps
<1> QED  BY <1>1, <1>3 DEF ColorsOK, HeaderAndPopupsAgree, color

LEMMA ScrolledKeeps ==
  ASSUME SurfaceInv, Scrolled
  PROVE  /\ ColorsOK' /\ IsSampling(sampling') /\ visible'
<1> DEFINE e == NewEpoch(sampling)
           s == [e EXCEPT !.timer = FALSE, !.late = FALSE, !.pending = 0,
                          !.scrolling = TRUE]
<1>1. /\ PageOK /\ ColorsOK /\ sampling \in Sampling
      /\ UNCHANGED <<webVars, loadVars, fallback>>
      /\ visible /\ strip' \in Maybe /\ CaptureTopStrip(s)
  BY DEF SurfaceInv, IsSampling, Scrolled, StartScrollSampling, PageOK, webVars
<1>2. IsSampling(e) /\ e.requests = {} /\ ~e.inFlight
  BY <1>1, EpochKeeps
<1> HIDE DEF e
<1>3. IsSampling(s)
  <2>1. e \in Sampling /\ 0 \in 0..PageSettlingSampleCount
    BY <1>2 DEF IsSampling, PageSettlingSampleCount
  <2>2. s \in Sampling /\ s.requests = {} /\ ~s.inFlight
    BY <1>2, <2>1 DEF Sampling
  <2> HIDE DEF s
  <2> QED  BY <2>2 DEF IsSampling
<1> HIDE DEF s
<1>4. ColorsOK' /\ IsSampling(sampling')
  BY <1>1, <1>3, CaptureKeeps
<1> QED  BY <1>1, <1>4 DEF webVars

LEMMA EventKeeps ==
  ASSUME SurfaceInv, Event
  PROVE  SurfaceInv'
<1>1. /\ PageOK /\ ColorsOK /\ IsSampling(sampling)
      /\ ~visible => Quiet(sampling)
  BY DEF SurfaceInv
<1>2. happened' \in 0..MaxTabEvents
  BY <1>1, SurfaceAssumption DEF Event, PageOK
<1>3. CASE \/ \E same \in BOOLEAN : DidFinishNavigation(same)
           \/ DidStopLoading \/ RenderViewReady
           \/ DidFirstVisuallyNonEmptyPaint \/ PageColorChanges \/ Interaction
           \/ Repainted \/ Shown
  <2>1. UNCHANGED <<fallback, colorVars>>
    BY <1>3 DEF DidFinishNavigation, DidStopLoading, RenderViewReady,
                DidFirstVisuallyNonEmptyPaint, PageColorChanges, Interaction,
                Repainted, Shown
  <2>2. /\ visible' \in BOOLEAN /\ framed' \in BOOLEAN
        /\ waitingForLoad' \in BOOLEAN /\ paintSeen' \in BOOLEAN
        /\ strip' \in Maybe /\ meta' \in Maybe
        /\ IsSampling(sampling') /\ (~visible' => Quiet(sampling'))
    BY <1>3, <2>1, PageEventKeeps
  <2>3. ColorsOK'
    BY <1>1, <2>1, SameColors
  <2> QED  BY <1>2, <2>2, <2>3 DEF SurfaceInv, PageOK
<1>4. CASE Hidden
  <2>1. /\ ColorsOK' /\ visible' \in BOOLEAN
        /\ IsSampling(sampling') /\ Quiet(sampling')
    BY <1>4, HiddenKeeps
  <2> QED
    BY <1>1, <1>2, <1>4, <2>1 DEF Hidden, SurfaceInv, PageOK, loadVars
<1>5. ASSUME NEW c \in Colors, SetThemeFallbackColor(c)
      PROVE  SurfaceInv'
  <2>1. /\ ColorsOK'
        /\ IsSampling(sampling') /\ (~visible' => Quiet(sampling'))
    BY <1>5, FallbackKeeps
  <2>2. UNCHANGED <<webVars, loadVars>>
    BY <1>5 DEF SetThemeFallbackColor
  <2> QED
    BY <1>1, <1>2, <2>1, <2>2 DEF SurfaceInv, PageOK, webVars, loadVars
<1>6. ASSUME NEW c \in Colors \cup {Between}, ActivateFrom(c)
      PROVE  SurfaceInv'
  <2>1. ColorsOK'
    BY <1>6, ActivateKeeps
  <2>2. UNCHANGED <<webVars, loadVars, sampling>>
    BY <1>6 DEF ActivateFrom
  <2> QED
    BY <1>1, <1>2, <2>1, <2>2 DEF SurfaceInv, PageOK, webVars, loadVars
<1>7. CASE OnColorProviderChanged
  <2>1. /\ UNCHANGED <<webVars, loadVars, sampling>>
        /\ ColorsOK'
    BY <1>1, <1>7 DEF OnColorProviderChanged, ColorsOK, HeaderAndPopupsAgree
  <2> QED
    BY <1>1, <1>2, <2>1 DEF SurfaceInv, PageOK, webVars, loadVars
<1>8. CASE Scrolled
  <2>1. ColorsOK' /\ IsSampling(sampling') /\ visible'
    BY <1>8, ScrolledKeeps
  <2>2. UNCHANGED <<webVars, loadVars>>
    BY <1>8 DEF Scrolled
  <2> QED
    BY <1>1, <1>2, <2>1, <2>2 DEF SurfaceInv, PageOK, webVars, loadVars
<1> QED
  BY <1>3, <1>4, <1>5, <1>6, <1>7, <1>8 DEF Event

-----------------------------------------------------------------------------
(* The specification *)

LEMMA SurfaceStarts == SurfaceInit => SurfaceInv
<1> SUFFICES ASSUME SurfaceInit PROVE SurfaceInv
  OBVIOUS
<1>1. PageOK
  <2>1. 0 \in 0..MaxTabEvents
    BY SurfaceAssumption
  <2>2. FALSE \in BOOLEAN
    OBVIOUS
  <2> QED  BY <2>1, <2>2, Zenon DEF SurfaceInit, PageOK
<1>2. ColorsOK
  BY SurfaceAssumption DEF SurfaceInit, ColorsOK, HeaderAndPopupsAgree, Maybe
<1>3. visible \in BOOLEAN /\ {strip} \in SUBSET Maybe /\ NoColor \in Maybe
  BY DEF SurfaceInit, Maybe
<1>4. /\ 0 \in 0..MaximumSampleAttempts /\ 0 \in 0..PageSettlingSampleCount
      /\ 0 \in 0..RequiredStableSamples
  BY DEF MaximumSampleAttempts, PageSettlingSampleCount, RequiredStableSamples
<1>5. sampling \in Sampling
  BY <1>3, <1>4 DEF SurfaceInit, Sampling
<1>6. /\ sampling.requests = {} /\ ~sampling.inFlight /\ ~sampling.late
      /\ ~sampling.scrolling /\ sampling.timer = visible
  BY DEF SurfaceInit
<1> QED  BY <1>1, <1>2, <1>5, <1>6 DEF SurfaceInv, IsSampling, Quiet

\* No step undoes the invariant, and one without an event leaves less to do.
LEMMA SurfaceSteps ==
  ASSUME SurfaceInv, [SurfaceNext]_surfaceVars
  PROVE  SurfaceInv' /\ (happened' = happened => Wanes)
<1>1. CASE Event
  <2>1. happened' # happened
    BY <1>1 DEF Event, SurfaceInv, PageOK
  <2> QED  BY <1>1, <2>1, EventKeeps
<1>2. CASE SampleTimer
  BY <1>2, SampleTimerKeeps
<1>3. CASE ScrollTimer
  BY <1>3, ScrollTimerKeeps
<1>4. CASE StopScrollSampling
  BY <1>4, StopScrollKeeps
<1>5. CASE VerifyLatePageSurface
  BY <1>5, VerifyLateKeeps
<1>6. CASE PictureTaken
  BY <1>6, PictureKeeps
<1>7. CASE CaptureAnswered
  BY <1>7, CapturedKeeps DEF CaptureAnswered
<1>8. CASE CaptureFails
  BY <1>8, CaptureFailsKeeps
<1>9. CASE AdvanceColorTransition \/ AnimationFrame
  BY <1>9, AnimationKeeps
<1>10. CASE UNCHANGED surfaceVars
  BY <1>10 DEF surfaceVars, webVars, loadVars, colorVars, SurfaceInv, PageOK,
               ColorsOK, HeaderAndPopupsAgree, Wanes
<1> QED
  BY <1>1, <1>2, <1>3, <1>4, <1>5, <1>6, <1>7, <1>8, <1>9, <1>10
     DEF SurfaceNext

\* The invariant: at most one capture is under way and inFlight tells of it,
\* nothing is waited for on a hidden tab, and an animation ends in the colour
\* of the page or the fallback of the present theme.
THEOREM SurfaceInductive == SurfaceSpec => []SurfaceInv
<1>1. SurfaceInv /\ [SurfaceNext]_surfaceVars => SurfaceInv'
  BY SurfaceSteps
<1> QED  BY SurfaceStarts, <1>1, PTL DEF SurfaceSpec

\* Whatever hides, switches or recolours a tab in the middle of an animation or
\* a capture (OnVisibilityChanged, ActivateFrom, SetThemeFallbackColor): it is
\* left with the colour of its page, and hidden with nothing under way.
THEOREM SettledHolds == SurfaceSpec => []TabIsSettled
<1>1. SurfaceInv => TabIsSettled
  BY DEF SurfaceInv, ColorsOK, TabIsSettled, HiddenIsQuiet, SamplingAtRest,
         Quiet, IsSampling
<1> QED  BY SurfaceInductive, <1>1, PTL

\* Sampling a tab to which nothing happens ends (browser-shell-spec.md:190):
\* no timer, capture or answer leaves as much to do as there was.
THEOREM WanesHolds == SurfaceSpec => SamplingWanes
<1>1. SurfaceInv /\ [SurfaceNext]_surfaceVars
        => [happened' = happened /\ sampling' # sampling
              /\ ~sampling'.scrolling
            => Work(sampling') < Work(sampling)]_surfaceVars
  BY SurfaceSteps DEF Wanes
<1> QED  BY SurfaceInductive, <1>1, PTL DEF SurfaceSpec, SamplingWanes
-----------------------------------------------------------------------------
(* Where sampling comes to rest *)

\* The strip, and every picture taken of it, is among what was viewed.
ViewOK(s, now) ==
  now \in s.viewed /\ s.requests \subseteq s.viewed \cup {Asked}

\* Sampling was not disturbed since its last restart.
Clear(s, now) == s.viewed = {now} /\ ~s.missed

\* An undisturbed capture that was answered has counted the strip's colour.
Counted(s, now) ==
  Clear(s, now) /\ now # NoColor
    /\ s.attempt > (IF s.inFlight THEN 1 ELSE 0)
  => s.stable >= 1 /\ s.candidate = now

RestInv ==
  /\ ViewOK(sampling, strip)
  /\ Counted(sampling, strip)
  /\ RestIsRight

CommitIsViewed ==
  committed' \in {committed} \cup sampling.viewed
    \cup (IF sampling'.attempt = MaximumSampleAttempts THEN {meta, NoColor}
          ELSE {})

\* A capture that is tried again, or was the last attempt: only on a strip with
\* no colour, or under a page that loads, if nothing disturbed it.
LEMMA TryAgainRests ==
  ASSUME UNCHANGED <<webVars, loadVars>>, NEW s, IsSampling(s),
         ViewOK(s, strip), Counted(s, strip), TryAgain(s),
         Clear(s, strip) /\ s.attempt = MaximumSampleAttempts
           => strip = NoColor \/ waitingForLoad
  PROVE  RestInv' /\ CommitIsViewed
<1>1. s \in Sampling /\ UNCHANGED <<strip, meta, visible, waitingForLoad>>
  BY DEF IsSampling, webVars, loadVars
<1>2. CASE s.attempt < MaximumSampleAttempts
  <2>1. sampling' = [s EXCEPT !.timer = TRUE] /\ committed' = committed
    BY <1>2 DEF TryAgain, colorVars
  <2>2. /\ sampling'.timer
        /\ sampling'.viewed = s.viewed /\ sampling'.requests = s.requests
        /\ sampling'.missed = s.missed /\ sampling'.attempt = s.attempt
        /\ sampling'.inFlight = s.inFlight /\ sampling'.stable = s.stable
        /\ sampling'.candidate = s.candidate
    BY <1>1, <2>1 DEF Sampling
  <2>3. ViewOK(sampling, strip)' /\ Counted(sampling, strip)'
    BY <1>1, <2>2 DEF ViewOK, Counted, Clear
  <2>4. RestIsRight'
    BY <2>2 DEF RestIsRight, SamplingAtRest
  <2> QED  BY <2>1, <2>3, <2>4 DEF RestInv, CommitIsViewed
<1>3. CASE ~(s.attempt < MaximumSampleAttempts)
  <2>1. sampling' = s /\ CommitPageMetadata(s)
    BY <1>3 DEF TryAgain
  <2>2. s.attempt = MaximumSampleAttempts
    BY <1>1, <1>3 DEF Sampling, MaximumSampleAttempts
  <2>3. ViewOK(sampling, strip)' /\ Counted(sampling, strip)'
    BY <1>1, <2>1
  <2>4. CASE waitingForLoad \/ s.scrolling
    <3>1. committed' = committed
      BY <2>1, <2>4 DEF CommitPageMetadata, colorVars
    <3>2. RestIsRight'
      BY <1>1, <2>1, <2>4 DEF RestIsRight, SamplingAtRest
    <3> QED  BY <2>3, <3>1, <3>2 DEF RestInv, CommitIsViewed
  <2>5. CASE ~(waitingForLoad \/ s.scrolling)
    <3>1. committed' = meta
      BY <2>1, <2>5 DEF CommitPageMetadata, CommitColor, colorVars
    <3>2. Clear(s, strip) => strip = NoColor
      BY <2>2, <2>5
    <3>3. RestIsRight'
      BY <1>1, <2>1, <3>1, <3>2 DEF RestIsRight, Clear
    <3>4. CommitIsViewed
      BY <2>1, <2>2, <3>1 DEF CommitIsViewed
    <3> QED  BY <2>3, <3>3, <3>4 DEF RestInv
  <2> QED  BY <2>4, <2>5
<1> QED  BY <1>2, <1>3

LEMMA CaptureRests ==
  ASSUME UNCHANGED <<webVars, loadVars>>, NEW s, IsSampling(s),
         ViewOK(s, strip), Counted(s, strip), CaptureTopStrip(s)
  PROVE  RestInv' /\ CommitIsViewed
<1> DEFINE next == [s EXCEPT !.attempt =
                      IF @ < MaximumSampleAttempts THEN @ + 1 ELSE @]
           missed == [next EXCEPT !.missed = TRUE]
           begun == [next EXCEPT !.inFlight = TRUE, !.requests = @ \cup {Asked}]
<1>1. s \in Sampling /\ UNCHANGED <<strip, meta, visible, waitingForLoad>>
  BY DEF IsSampling, webVars, loadVars
<1>2. /\ next \in Sampling
      /\ next.attempt = IF s.attempt < MaximumSampleAttempts
                        THEN s.attempt + 1 ELSE s.attempt
      /\ next.viewed = s.viewed /\ next.requests = s.requests
      /\ next.missed = s.missed /\ next.inFlight = s.inFlight
      /\ next.stable = s.stable /\ next.candidate = s.candidate
  BY <1>1 DEF Sampling, MaximumSampleAttempts
<1>3. \/ sampling' = s /\ (s.inFlight \/ ~visible) /\ UNCHANGED colorVars
      \/ ~s.inFlight /\ sampling' = begun /\ UNCHANGED colorVars
      \/ ~s.inFlight /\ TryAgain(missed)
  BY DEF CaptureTopStrip
<1>4. CASE sampling' = s /\ (s.inFlight \/ ~visible) /\ UNCHANGED colorVars
  <2>1. ViewOK(sampling, strip)' /\ Counted(sampling, strip)'
    BY <1>1, <1>4
  <2>2. RestIsRight'
    BY <1>1, <1>4 DEF RestIsRight, SamplingAtRest
  <2> QED  BY <1>4, <2>1, <2>2 DEF RestInv, CommitIsViewed, colorVars
<1>5. CASE ~s.inFlight /\ sampling' = begun /\ UNCHANGED colorVars
  <2> HIDE DEF next
  <2>1. /\ sampling'.inFlight /\ sampling'.requests = s.requests \cup {Asked}
        /\ sampling'.viewed = s.viewed /\ sampling'.missed = s.missed
        /\ sampling'.attempt = next.attempt
        /\ sampling'.stable = s.stable /\ sampling'.candidate = s.candidate
    BY <1>2, <1>5 DEF Sampling
  <2>2. ViewOK(sampling, strip)'
    BY <1>1, <2>1 DEF ViewOK
  <2>3. s.attempt \in 0..5
    BY <1>1 DEF Sampling, MaximumSampleAttempts
  <2>4. sampling'.attempt > 1 => s.attempt > 0
    BY <1>2, <2>1, <2>3
  <2>5. Counted(sampling, strip)'
    BY <1>1, <1>5, <2>1, <2>4 DEF Counted, Clear
  <2>6. RestIsRight'
    BY <2>1 DEF RestIsRight, SamplingAtRest
  <2> QED  BY <1>5, <2>2, <2>5, <2>6 DEF RestInv, CommitIsViewed, colorVars
<1>6. CASE ~s.inFlight /\ TryAgain(missed)
  <2> HIDE DEF next
  <2>1. /\ missed \in Sampling /\ missed.missed
        /\ missed.inFlight = s.inFlight /\ missed.requests = s.requests
        /\ missed.viewed = s.viewed
    BY <1>2 DEF Sampling
  <2> HIDE DEF missed
  <2>2. IsSampling(missed)
    BY <2>1 DEF IsSampling
  <2>3. ViewOK(missed, strip) /\ ~Clear(missed, strip)
    BY <2>1 DEF ViewOK, Clear
  <2>4. Counted(missed, strip)
    BY <2>3 DEF Counted
  <2> QED  BY <1>6, <2>2, <2>3, <2>4, TryAgainRests
<1> HIDE DEF next, missed, begun
<1> QED  BY <1>3, <1>4, <1>5, <1>6

\* An epoch begins with what the strip is now.
LEMMA EpochIsClear ==
  ASSUME NEW s, s \in Sampling
  PROVE  LET e == NewEpoch(s)
         IN  /\ e.viewed = {strip'} /\ e.requests = {} /\ e.attempt = 0
             /\ e.inFlight = FALSE
BY DEF NewEpoch, Sampling

LEMMA FreshCounts ==
  ASSUME NEW s, NEW now, s.viewed = {now}, s.requests = {}, s.attempt = 0
  PROVE  ViewOK(s, now) /\ Counted(s, now)
BY DEF ViewOK, Counted

\* A restart leaves a visible tab with a timer to wait for.
LEMMA FreshRests ==
  ASSUME NEW s, s \in Sampling, strip' \in Maybe, visible' \in BOOLEAN,
         committed' = committed,
         \/ sampling' = RestartPageSampling(s)
         \/ BeginPageSettling /\ s = sampling
  PROVE  RestInv' /\ CommitIsViewed
<1>1. \E q \in Sampling :
        \/ sampling' = RestartPageSampling(q)
        \/ sampling' = [RestartPageSampling(q) EXCEPT !.late = visible']
  <2> DEFINE p == [s EXCEPT !.pending = PageSettlingSampleCount]
  <2>1. p \in Sampling
    BY DEF Sampling, PageSettlingSampleCount
  <2>2. CASE sampling' = RestartPageSampling(s)
    BY <2>2
  <2>3. CASE BeginPageSettling /\ s = sampling
    <3>1. sampling' = [RestartPageSampling(p) EXCEPT !.late = visible']
      BY <2>3 DEF BeginPageSettling
    <3> HIDE DEF p
    <3> QED  BY <2>1, <3>1
  <2> QED  BY <2>2, <2>3
<1>2. PICK q \in Sampling :
        \/ sampling' = RestartPageSampling(q)
        \/ sampling' = [RestartPageSampling(q) EXCEPT !.late = visible']
  BY <1>1
<1> DEFINE e == NewEpoch(q)
           r == RestartPageSampling(q)
<1>3. /\ e.viewed = {strip'} /\ e.requests = {} /\ e.attempt = 0
      /\ e.inFlight = FALSE
  BY EpochIsClear
<1>4. IsSampling(e)
  BY EpochKeeps
<1>5. r = [e EXCEPT !.timer = visible', !.late = FALSE, !.scrolling = FALSE]
  BY DEF RestartPageSampling
<1>6. sampling' = r \/ sampling' = [r EXCEPT !.late = visible']
  BY <1>2
<1> HIDE DEF e, r
<1>7. /\ r \in Sampling /\ r.viewed = {strip'} /\ r.requests = {}
      /\ r.attempt = 0 /\ r.timer = visible'
  BY <1>3, <1>4, <1>5 DEF IsSampling, Sampling
<1>8. /\ sampling'.viewed = {strip'} /\ sampling'.requests = {}
      /\ sampling'.attempt = 0 /\ sampling'.timer = visible'
  BY <1>6, <1>7 DEF Sampling
<1>9. ViewOK(sampling', strip') /\ Counted(sampling', strip')
  BY <1>8, FreshCounts
<1>10. RestIsRight'
  BY <1>8 DEF RestIsRight, SamplingAtRest
<1> QED  BY <1>9, <1>10 DEF RestInv, CommitIsViewed

LEMMA TimerRests ==
  ASSUME SurfaceInv, RestInv, SampleTimer \/ ScrollTimer
  PROVE  RestInv' /\ CommitIsViewed
<1>1. /\ IsSampling(sampling) /\ sampling \in Sampling
      /\ ViewOK(sampling, strip) /\ Counted(sampling, strip)
  BY DEF SurfaceInv, IsSampling, RestInv
<1>2. CASE SampleTimer
  <2> DEFINE s == [sampling EXCEPT !.timer = FALSE]
  <2>1. CaptureTopStrip(s) /\ UNCHANGED <<webVars, loadVars>>
    BY <1>2 DEF SampleTimer
  <2>2. /\ s \in Sampling /\ s.inFlight = sampling.inFlight
        /\ s.requests = sampling.requests /\ s.viewed = sampling.viewed
        /\ s.missed = sampling.missed /\ s.attempt = sampling.attempt
        /\ s.stable = sampling.stable /\ s.candidate = sampling.candidate
    BY <1>1 DEF Sampling
  <2> HIDE DEF s
  <2>3. IsSampling(s)
    BY <1>1, <2>2 DEF IsSampling
  <2>4. ViewOK(s, strip) /\ Counted(s, strip)
    BY <1>1, <2>2 DEF ViewOK, Counted, Clear
  <2> QED  BY <2>1, <2>3, <2>4, CaptureRests
<1>3. CASE ScrollTimer
  <2>1. CaptureTopStrip(sampling) /\ UNCHANGED <<webVars, loadVars>>
    BY <1>3 DEF ScrollTimer
  <2> QED  BY <1>1, <2>1, CaptureRests
<1> QED  BY <1>2, <1>3

\* A scroll begins and ends with a capture of its own.
LEMMA ScrollRests ==
  ASSUME SurfaceInv, Scrolled \/ StopScrollSampling
  PROVE  RestInv' /\ CommitIsViewed
<1> DEFINE e == NewEpoch(sampling)
           begins == [e EXCEPT !.timer = FALSE, !.late = FALSE, !.pending = 0,
                               !.scrolling = TRUE]
           ends == [e EXCEPT !.scrolling = FALSE]
<1>1. /\ sampling \in Sampling /\ strip' \in Maybe /\ strip' = strip
      /\ UNCHANGED <<webVars, loadVars>>
  BY DEF SurfaceInv, IsSampling, PageOK, Scrolled, StopScrollSampling, webVars
<1>2. CaptureTopStrip(begins) \/ CaptureTopStrip(ends)
  BY DEF Scrolled, StartScrollSampling, StopScrollSampling
<1>3. /\ e.viewed = {strip'} /\ e.requests = {} /\ e.attempt = 0
      /\ e.inFlight = FALSE
  BY <1>1, EpochIsClear
<1>4. IsSampling(e)
  BY <1>1, EpochKeeps
<1> HIDE DEF e
<1>5. e \in Sampling /\ 0 \in 0..PageSettlingSampleCount
  BY <1>4 DEF IsSampling, PageSettlingSampleCount
<1>6. ASSUME NEW s \in {begins, ends}, CaptureTopStrip(s)
      PROVE  RestInv' /\ CommitIsViewed
  <2>1. /\ s \in Sampling /\ s.viewed = {strip} /\ s.requests = {}
        /\ s.attempt = 0 /\ s.inFlight = FALSE
    BY <1>1, <1>3, <1>5, <1>6 DEF Sampling
  <2> HIDE DEF begins, ends
  <2>2. IsSampling(s)
    BY <2>1 DEF IsSampling
  <2>3. ViewOK(s, strip) /\ Counted(s, strip)
    BY <2>1, FreshCounts
  <2> QED  BY <1>1, <1>6, <2>2, <2>3, CaptureRests
<1> HIDE DEF begins, ends
<1> QED  BY <1>2, <1>6

LEMMA PictureRests ==
  ASSUME SurfaceInv, RestInv, PictureTaken
  PROVE  RestInv' /\ CommitIsViewed
<1>1. /\ sampling \in Sampling /\ strip \in Maybe /\ sampling.inFlight
      /\ ViewOK(sampling, strip) /\ Counted(sampling, strip)
      /\ strip' = strip /\ committed' = committed
  BY DEF SurfaceInv, PageOK, IsSampling, RestInv, PictureTaken, webVars,
         colorVars
<1> DEFINE left == (sampling.requests \ {Asked}) \cup {strip}
<1>2. sampling' = [sampling EXCEPT !.requests = left]
  BY DEF PictureTaken
<1>3. left \subseteq sampling.viewed \cup {Asked}
  BY <1>1 DEF ViewOK
<1> HIDE DEF left
<1>4. /\ sampling'.requests = left /\ sampling'.inFlight
      /\ sampling'.viewed = sampling.viewed
      /\ sampling'.missed = sampling.missed
      /\ sampling'.attempt = sampling.attempt
      /\ sampling'.stable = sampling.stable
      /\ sampling'.candidate = sampling.candidate
  BY <1>1, <1>2 DEF Sampling
<1>5. ViewOK(sampling', strip') /\ Counted(sampling', strip')
  BY <1>1, <1>3, <1>4 DEF ViewOK, Counted, Clear
<1>6. RestIsRight'
  BY <1>4 DEF RestIsRight, SamplingAtRest
<1> QED  BY <1>1, <1>5, <1>6 DEF RestInv, CommitIsViewed

LEMMA FailsRests ==
  ASSUME SurfaceInv, RestInv, CaptureFails
  PROVE  RestInv' /\ CommitIsViewed
<1>1. /\ sampling \in Sampling /\ IsSampling(sampling)
      /\ ViewOK(sampling, strip) /\ UNCHANGED <<webVars, loadVars>>
  BY DEF SurfaceInv, IsSampling, RestInv, CaptureFails
<1>2. PICK r \in sampling.requests :
        TryAgain([sampling EXCEPT !.requests = @ \ {r}, !.inFlight = FALSE,
                                  !.missed = TRUE])
  BY DEF CaptureFails
<1> DEFINE s == [sampling EXCEPT !.requests = @ \ {r}, !.inFlight = FALSE,
                                 !.missed = TRUE]
<1>3. sampling.requests = {r}
  BY <1>1 DEF IsSampling
<1>4. /\ s \in Sampling /\ s.requests = {} /\ ~s.inFlight /\ s.missed
      /\ s.viewed = sampling.viewed
  BY <1>1, <1>3 DEF Sampling
<1>5. TryAgain(s)
  BY <1>2
<1> HIDE DEF s
<1>6. IsSampling(s)
  BY <1>4 DEF IsSampling
<1>7. ViewOK(s, strip) /\ ~Clear(s, strip)
  BY <1>1, <1>4 DEF ViewOK, Clear
<1>8. Counted(s, strip)
  BY <1>7 DEF Counted
<1> QED  BY <1>1, <1>5, <1>6, <1>7, <1>8, TryAgainRests

\* What is committed for a picture is the picture.
LEMMA CommitsPicture ==
  ASSUME UNCHANGED <<webVars, loadVars>>, NEW s, s \in Sampling,
         ViewOK(s, strip), Counted(s, strip), s.viewed = sampling.viewed,
         NEW picture \in s.viewed, picture # NoColor,
         CommitColor(picture), sampling' = ScheduleNextPageSettlingSample(s)
  PROVE  RestInv' /\ CommitIsViewed
<1>1. committed' = picture /\ UNCHANGED <<strip, meta>>
  BY DEF CommitColor, colorVars, webVars
<1>2. /\ sampling'.viewed = s.viewed /\ sampling'.requests = s.requests
      /\ sampling'.missed = s.missed /\ sampling'.attempt = s.attempt
      /\ sampling'.inFlight = s.inFlight /\ sampling'.stable = s.stable
      /\ sampling'.candidate = s.candidate
  BY DEF ScheduleNextPageSettlingSample, Sampling
<1>3. ViewOK(sampling', strip') /\ Counted(sampling', strip')
  BY <1>1, <1>2 DEF ViewOK, Counted, Clear
<1>4. RestIsRight'
  BY <1>1, <1>2 DEF RestIsRight
<1> QED  BY <1>1, <1>3, <1>4 DEF RestInv, CommitIsViewed

\* An answer to a capture that nothing disturbed is the strip's colour, and the
\* last of them is enough if the page can be judged at all.
LEMMA CapturedRests ==
  ASSUME SurfaceInv, RestInv, NEW picture \in Maybe, Captured(picture)
  PROVE  RestInv' /\ CommitIsViewed
<1> DEFINE got == [sampling EXCEPT !.requests = @ \ {picture},
                                   !.inFlight = FALSE]
           count == IF sampling.stable > 0 /\ sampling.candidate = picture
                    THEN RequiredStableSamples ELSE 1
           seen == [got EXCEPT !.candidate = picture, !.stable = count]
<1>1. /\ sampling \in Sampling /\ IsSampling(sampling)
      /\ ViewOK(sampling, strip) /\ Counted(sampling, strip)
      /\ picture \in sampling.requests \ {Asked}
      /\ UNCHANGED <<webVars, loadVars>>
  BY DEF SurfaceInv, IsSampling, RestInv, Captured
<1>2. /\ sampling.requests = {picture} /\ sampling.inFlight
      /\ picture \in sampling.viewed
  BY <1>1 DEF IsSampling, ViewOK
<1>3. /\ got \in Sampling /\ got.requests = {} /\ ~got.inFlight
      /\ got.viewed = sampling.viewed /\ got.missed = sampling.missed
      /\ got.attempt = sampling.attempt /\ got.scrolling = sampling.scrolling
      /\ got.stable = sampling.stable /\ got.candidate = sampling.candidate
  BY <1>1, <1>2 DEF Sampling
<1>4. \/ picture = NoColor /\ TryAgain(got)
      \/ /\ picture # NoColor
         /\ \/ /\ CommitColor(picture)
               /\ sampling' = ScheduleNextPageSettlingSample(seen)
            \/ /\ ~(Enough(seen, picture) /\ HasMeaningfulPageFrame)
               /\ TryAgain(seen)
  <2>1. seen = [got EXCEPT !.candidate = picture,
                           !.stable = IF @ > 0 /\ got.candidate = picture
                                      THEN RequiredStableSamples ELSE 1]
    BY <1>3 DEF Sampling
  <2> QED  BY <2>1 DEF Captured
<1> HIDE DEF got
<1>5. CASE picture = NoColor /\ TryAgain(got)
  <2>1. IsSampling(got)
    BY <1>3 DEF IsSampling
  <2>2. ViewOK(got, strip)
    BY <1>1, <1>3 DEF ViewOK
  <2>3. Clear(got, strip) => strip = NoColor
    BY <1>2, <1>3, <1>5 DEF Clear
  <2>4. Counted(got, strip)
    BY <2>3 DEF Counted
  <2> QED  BY <1>1, <1>5, <2>1, <2>2, <2>3, <2>4, TryAgainRests
<1>6. /\ count \in 0..RequiredStableSamples /\ count >= 1
      /\ sampling.stable >= 1 /\ sampling.candidate = picture => count = 2
  BY <1>1 DEF Sampling, RequiredStableSamples
<1> HIDE DEF count
<1>7. /\ seen \in Sampling /\ seen.requests = {} /\ ~seen.inFlight
      /\ seen.viewed = sampling.viewed /\ seen.missed = sampling.missed
      /\ seen.attempt = sampling.attempt
      /\ seen.stable = count /\ seen.candidate = picture
  BY <1>3, <1>6 DEF Sampling
<1> HIDE DEF seen
<1>8. ViewOK(seen, strip) /\ (Clear(seen, strip) => picture = strip)
  BY <1>1, <1>2, <1>7 DEF ViewOK, Clear
<1>9. Counted(seen, strip)
  BY <1>6, <1>7, <1>8 DEF Counted
<1>10. CASE /\ picture # NoColor /\ CommitColor(picture)
            /\ sampling' = ScheduleNextPageSettlingSample(seen)
  BY <1>1, <1>2, <1>7, <1>8, <1>9, <1>10, CommitsPicture
<1>11. CASE /\ picture # NoColor /\ TryAgain(seen)
            /\ ~(Enough(seen, picture) /\ HasMeaningfulPageFrame)
  <2>1. IsSampling(seen)
    BY <1>7 DEF IsSampling
  <2>2. ASSUME Clear(seen, strip), seen.attempt = MaximumSampleAttempts
        PROVE  strip = NoColor \/ waitingForLoad
    <3>1. picture = strip /\ Clear(sampling, strip)
      BY <1>7, <1>8, <2>2 DEF Clear
    <3>2. sampling.attempt > 1
      BY <1>7, <2>2 DEF MaximumSampleAttempts
    <3>3. sampling.stable >= 1 /\ sampling.candidate = picture
      BY <1>1, <1>2, <1>11, <3>1, <3>2 DEF Counted
    <3>4. Enough(seen, picture)
      BY <1>6, <1>7, <3>3 DEF Enough, RequiredStableSamples
    <3> QED  BY <1>11, <3>4 DEF HasMeaningfulPageFrame
  <2> QED  BY <1>1, <1>8, <1>9, <1>11, <2>1, <2>2, TryAgainRests
<1> QED  BY <1>4, <1>5, <1>10, <1>11

LEMMA RepaintedRests ==
  ASSUME SurfaceInv, RestInv, Repainted
  PROVE  RestInv' /\ CommitIsViewed
<1>1. /\ sampling \in Sampling /\ ViewOK(sampling, strip)
      /\ strip' \in Maybe /\ strip' # strip /\ committed' = committed
      /\ sampling' = [sampling EXCEPT !.viewed = @ \cup {strip'}]
  BY DEF SurfaceInv, IsSampling, RestInv, Repainted, colorVars
<1>2. sampling.viewed \cup {strip'} \in SUBSET Maybe
  BY <1>1 DEF Sampling
<1>3. /\ sampling'.viewed = sampling.viewed \cup {strip'}
      /\ sampling'.requests = sampling.requests
  BY <1>1, <1>2 DEF Sampling
<1>4. ViewOK(sampling', strip') /\ sampling'.viewed # {strip'}
  BY <1>1, <1>3 DEF ViewOK
<1>5. Counted(sampling', strip') /\ RestIsRight'
  BY <1>4 DEF Counted, Clear, RestIsRight
<1> QED  BY <1>1, <1>4, <1>5 DEF RestInv, CommitIsViewed

\* What restarts sampling leaves the committed colour.
LEMMA RestartRests ==
  ASSUME SurfaceInv, SurfaceInv', UNCHANGED committed,
         \/ sampling' = RestartPageSampling(sampling)
         \/ sampling' = RestartPageSampling([sampling EXCEPT !.pending = 0])
         \/ BeginPageSettling
  PROVE  RestInv' /\ CommitIsViewed
<1> DEFINE s == [sampling EXCEPT !.pending = 0]
<1>1. /\ sampling \in Sampling /\ strip' \in Maybe /\ visible' \in BOOLEAN
  BY DEF SurfaceInv, IsSampling, PageOK
<1>2. s \in Sampling
  BY <1>1 DEF Sampling, PageSettlingSampleCount
<1>3. CASE sampling' = RestartPageSampling(s)
  <2> HIDE DEF s
  <2> QED  BY <1>1, <1>2, <1>3, FreshRests
<1>4. CASE sampling' = RestartPageSampling(sampling) \/ BeginPageSettling
  BY <1>1, <1>4, FreshRests
<1> QED  BY <1>3, <1>4

\* What leaves sampling, the page and the committed colour alone.
LEMMA SameRests ==
  ASSUME RestInv, UNCHANGED <<webVars, loadVars, sampling, committed>>
  PROVE  RestInv' /\ CommitIsViewed
BY DEF RestInv, RestIsRight, SamplingAtRest, CommitIsViewed, webVars, loadVars

LEMMA EventRests ==
  ASSUME SurfaceInv, SurfaceInv', RestInv, Event
  PROVE  RestInv' /\ CommitIsViewed
<1>1. ASSUME NEW same \in BOOLEAN, DidFinishNavigation(same)
      PROVE  RestInv' /\ CommitIsViewed
  BY <1>1, RestartRests DEF DidFinishNavigation, colorVars
<1>2. CASE \/ DidStopLoading \/ RenderViewReady
           \/ DidFirstVisuallyNonEmptyPaint \/ PageColorChanges \/ Interaction
           \/ Shown \/ Hidden
  BY <1>2, RestartRests
     DEF DidStopLoading, RenderViewReady, DidFirstVisuallyNonEmptyPaint,
         PageColorChanges, Interaction, Shown, Hidden, colorVars
<1>3. CASE Repainted
  BY <1>3, RepaintedRests
<1>4. ASSUME NEW c \in Colors, SetThemeFallbackColor(c)
      PROVE  RestInv' /\ CommitIsViewed
  BY <1>4, RestartRests DEF SetThemeFallbackColor
<1>5. ASSUME NEW c \in Colors \cup {Between}, ActivateFrom(c)
      PROVE  RestInv' /\ CommitIsViewed
  BY <1>5, SameRests DEF ActivateFrom
<1>6. CASE OnColorProviderChanged
  BY <1>6, SameRests DEF OnColorProviderChanged
<1>7. CASE Scrolled
  BY <1>7, ScrollRests
<1> QED
  BY <1>1, <1>2, <1>3, <1>4, <1>5, <1>6, <1>7 DEF Event

LEMMA RestSteps ==
  ASSUME SurfaceInv, SurfaceInv', RestInv, [SurfaceNext]_surfaceVars
  PROVE  RestInv' /\ CommitIsViewed
<1>1. CASE Event
  BY <1>1, EventRests
<1>2. CASE SampleTimer \/ ScrollTimer
  BY <1>2, TimerRests
<1>3. CASE StopScrollSampling
  BY <1>3, ScrollRests
<1>4. CASE VerifyLatePageSurface
  BY <1>4, RestartRests DEF VerifyLatePageSurface, colorVars
<1>5. CASE PictureTaken
  BY <1>5, PictureRests
<1>6. CASE CaptureAnswered
  BY <1>6, CapturedRests DEF CaptureAnswered
<1>7. CASE CaptureFails
  BY <1>7, FailsRests
<1>8. CASE AdvanceColorTransition \/ AnimationFrame
  BY <1>8, SameRests DEF AdvanceColorTransition, AnimationFrame
<1>9. CASE UNCHANGED surfaceVars
  BY <1>9, SameRests DEF surfaceVars, colorVars
<1> QED
  BY <1>1, <1>2, <1>3, <1>4, <1>5, <1>6, <1>7, <1>8, <1>9 DEF SurfaceNext

LEMMA RestStarts == SurfaceInit => RestInv
BY DEF SurfaceInit, RestInv, ViewOK, Counted, RestIsRight, SamplingAtRest

LEMMA RestInductive == SurfaceSpec => []RestInv
<1>1. SurfaceInv /\ SurfaceInv' /\ RestInv /\ [SurfaceNext]_surfaceVars
        => RestInv'
  BY RestSteps
<1> QED  BY SurfaceInductive, RestStarts, <1>1, PTL DEF SurfaceSpec

\* Where a visible, loaded tab's sampling has come to rest on a strip that did
\* not change and captures that did not fail (OnTopStripCaptured, TryAgain,
\* CommitPageMetadataColorIfReady), the tab's colour is the strip's, or what the
\* page names if the strip has none.
THEOREM RestHolds == SurfaceSpec => []RestIsRight
<1>1. RestInv => RestIsRight
  BY DEF RestInv
<1> QED  BY RestInductive, <1>1, PTL

\* No capture begun for an earlier document, theme or mode decides the colour:
\* whatever is committed was the strip's since the last restart, or is the
\* page's metadata after the last attempt.
THEOREM ViewedHolds == SurfaceSpec => CommittedWasViewed
<1>1. SurfaceInv /\ SurfaceInv' /\ RestInv /\ [SurfaceNext]_surfaceVars
        => [committed' \in {committed} \cup sampling.viewed
              \cup (IF sampling'.attempt = MaximumSampleAttempts
                    THEN {meta, NoColor} ELSE {})]_surfaceVars
  BY RestSteps DEF CommitIsViewed
<1> QED
  BY SurfaceInductive, RestInductive, <1>1, PTL
     DEF SurfaceSpec, CommittedWasViewed

\* For any colours and however much happens: one capture of a tab at most is
\* under way, attempts and samples stay within their bounds, and what is shown
\* is a colour or between two (CaptureTopStrip, OnTopStripCaptured).
THEOREM SurfaceTyped == SurfaceSpec => []SurfaceTypeOK
<1>1. SurfaceInv => SurfaceTypeOK
  <2> SUFFICES ASSUME PageOK, ColorsOK, IsSampling(sampling) PROVE SurfaceTypeOK
    BY DEF SurfaceInv
  <2>1. Cardinality(sampling.requests) <= 1
    <3>1. CASE sampling.requests = {}
      BY <3>1, FS_EmptySet
    <3>2. CASE sampling.requests # {}
      <4>1. PICK r \in Maybe \cup {Asked} : sampling.requests = {r}
        BY <3>2 DEF IsSampling
      <4>2. Cardinality({r}) = 1
        BY FS_Singleton
      <4> QED
        BY <4>1, <4>2
    <3> QED
      BY <3>1, <3>2
  <2> QED
    BY <2>1 DEF PageOK, ColorsOK, IsSampling, SurfaceTypeOK
<1> QED  BY SurfaceInductive, <1>1, PTL
=============================================================================
