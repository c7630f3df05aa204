-------------------------- MODULE BrowserSurfaceColor --------------------------
(***************************************************************************)
(* BrowserSurfaceColorController: one tab's colour, sampled from the top   *)
(* strip of its page in bounded sequences and shown by its header.         *)
(*                                                                         *)
(* Two colours are equal or unlike: the averaging of similar ones is left  *)
(* out.  A timer that runs may fire at any time.  The container the tab is *)
(* bound to is in a widget, so the controller has a fallback from its      *)
(* first moment on (BindWebContents), and shows it.                        *)
(***************************************************************************)
EXTENDS Integers, FiniteSets

CONSTANTS
  Colors,
  NoColor,  \* no colour; as a strip: none that dominates it
  Between,  \* a colour of an animation
  Asked,    \* a picture that is not taken yet
  MaxTabEvents \* bound on what happens to the page and the tab

ASSUME SurfaceAssumption ==
  /\ NoColor \notin Colors
  /\ {Between, Asked} \cap (Colors \cup {NoColor}) = {}
  /\ MaxTabEvents \in Nat

MaximumSampleAttempts == 5
PageSettlingSampleCount == 2
RequiredStableSamples == 2

VARIABLES
  \* the page
  visible,
  framed, \* the document has painted something
  strip,  \* the colour next to the header
  meta,   \* its CSS background or theme-color
  \* the controller
  waitingForLoad, \* waiting_for_load_completion_
  paintSeen,      \* first_visually_non_empty_paint_seen_
  sampling,       \* timers, counters and captures
  fallback,       \* theme_fallback_color_
  committed,      \* committed_color_
  presented,      \* presented_color_
  target,         \* transition_target_color_
  popup,          \* what was presented at the last popup revision
  happened        \* how many of MaxTabEvents have happened

webVars == <<visible, framed, strip, meta>>
loadVars == <<waitingForLoad, paintSeen>>
colorVars == <<committed, presented, target, popup>>
surfaceVars == <<webVars, loadVars, sampling, fallback, colorVars, happened>>

Maybe == Colors \cup {NoColor}

\* viewed and missed record what the strip was, and whether a capture failed,
\* since sampling was last restarted.  The two scroll timers run while
\* is_scroll_sampling_ is set.
Sampling ==
  [timer : BOOLEAN, late : BOOLEAN, scrolling : BOOLEAN, inFlight : BOOLEAN,
   requests : SUBSET (Maybe \cup {Asked}),
   attempt : 0..MaximumSampleAttempts,
   pending : 0..PageSettlingSampleCount,
   candidate : Maybe, stable : 0..RequiredStableSamples,
   viewed : SUBSET Maybe, missed : BOOLEAN]

-----------------------------------------------------------------------------
(* The colour that is shown *)

StartWithoutStop(from, color) ==
  \/ /\ from # color
     /\ target' = color /\ presented' = from
     /\ UNCHANGED popup
  \/ presented' = color /\ popup' = color /\ UNCHANGED target

StartColorTransition(from, color) ==
  \/ /\ from # color
     /\ target' = color /\ presented' = from
     /\ UNCHANGED popup
  \/ target' = NoColor /\ presented' = color /\ popup' = color

CommitColor(color) ==
  \/ committed = color /\ UNCHANGED colorVars
  \/ committed # color /\ committed' = color
     /\ StartColorTransition(presented, color)

\* CommitPageMetadataColorIfReady
CommitPageMetadata(s) ==
  IF waitingForLoad \/ s.scrolling THEN UNCHANGED colorVars
  ELSE IF meta # NoColor THEN CommitColor(meta)
       ELSE committed' = NoColor /\ StartColorTransition(presented, fallback)

AdvanceColorTransition ==
  /\ target # NoColor
  /\ presented' = target /\ target' = NoColor /\ popup' = target
  /\ UNCHANGED <<webVars, loadVars, sampling, fallback, committed, happened>>

AnimationFrame ==
  /\ target # NoColor
  /\ presented' \in {Between, target}
  /\ UNCHANGED <<webVars, loadVars, sampling, fallback, committed, target,
                 popup, happened>>

-----------------------------------------------------------------------------
(* Sampling *)

KeptRequests(s) ==
  [s EXCEPT !.inFlight = FALSE, !.attempt = 0, !.candidate = NoColor,
            !.stable = 0, !.viewed = {strip'}, !.missed = FALSE]

KeptAttempts(s) ==
  [s EXCEPT !.requests = {}, !.inFlight = FALSE, !.candidate = NoColor,
            !.stable = 0, !.viewed = {strip'}, !.missed = FALSE]

\* The weak pointers of captures under way are invalidated.
NewEpoch(s) ==
  [s EXCEPT !.requests = {}, !.inFlight = FALSE, !.attempt = 0,
            !.candidate = NoColor, !.stable = 0,
            !.viewed = {strip'}, !.missed = FALSE]

RestartPageSampling(s) ==
  [NewEpoch(s) EXCEPT !.timer = visible', !.late = FALSE, !.scrolling = FALSE]

BeginPageSettling ==
  sampling' =
    [RestartPageSampling([sampling EXCEPT !.pending = PageSettlingSampleCount])
       EXCEPT !.late = visible']

VerifyAgain ==
  /\ sampling.late
  /\ UNCHANGED <<webVars, loadVars, fallback, colorVars, happened>>
  /\ BeginPageSettling

VerifyLatePageSurface ==
  /\ sampling.late
  /\ UNCHANGED <<webVars, loadVars, fallback, colorVars, happened>>
  /\ sampling' = RestartPageSampling([sampling EXCEPT !.pending = 0])

ScheduleNext(s) ==
  IF s.scrolling THEN s ELSE [s EXCEPT !.pending = @ - 1, !.timer = TRUE]

ScheduleNextPageSettlingSample(s) ==
  IF s.scrolling \/ s.pending = 0 THEN s
  ELSE [s EXCEPT !.pending = @ - 1, !.timer = TRUE]

TryAgain(s) ==
  IF s.attempt < MaximumSampleAttempts
  THEN sampling' = [s EXCEPT !.timer = TRUE] /\ UNCHANGED colorVars
  ELSE sampling' = s /\ CommitPageMetadata(s)

\* The surface may not be available for a copy, or the viewport be empty.
CaptureTopStrip(s) ==
  LET next == [s EXCEPT !.attempt =
                 IF @ < MaximumSampleAttempts THEN @ + 1 ELSE @]
  IN  \/ /\ s.inFlight \/ ~visible
         /\ sampling' = s /\ UNCHANGED colorVars
      \/ /\ ~s.inFlight /\ visible
         /\ \/ /\ sampling' = [next EXCEPT !.inFlight = TRUE,
                                           !.requests = @ \cup {Asked}]
               /\ UNCHANGED colorVars
            \/ TryAgain([next EXCEPT !.missed = TRUE])

SampleTimer ==
  /\ sampling.timer
  /\ CaptureTopStrip([sampling EXCEPT !.timer = FALSE])
  /\ UNCHANGED <<webVars, loadVars, fallback, happened>>

ScrollTimer ==
  /\ sampling.scrolling
  /\ CaptureTopStrip(sampling)
  /\ UNCHANGED <<webVars, loadVars, fallback, happened>>

StartScrollSampling ==
  /\ visible /\ ~sampling.scrolling
  /\ CaptureTopStrip([NewEpoch(sampling) EXCEPT
       !.timer = FALSE, !.late = FALSE, !.pending = 0, !.scrolling = TRUE])

StopScrollSampling ==
  /\ sampling.scrolling
  /\ UNCHANGED <<webVars, loadVars, fallback, happened>>
  /\ CaptureTopStrip([NewEpoch(sampling) EXCEPT !.scrolling = FALSE])

\* The copy of the surface is made.
PictureTaken ==
  /\ Asked \in sampling.requests
  /\ sampling' = [sampling EXCEPT !.requests = (@ \ {Asked}) \cup {strip}]
  /\ UNCHANGED <<webVars, loadVars, fallback, colorVars, happened>>

Enough(s, color) ==
  s.stable >= IF ~s.scrolling /\ meta = color THEN 1 ELSE RequiredStableSamples

HasMeaningfulPageFrame == ~waitingForLoad \/ paintSeen

\* OnTopStripCaptured, with a picture
Captured(picture) ==
  LET got == [sampling EXCEPT !.requests = @ \ {picture}, !.inFlight = FALSE]
      seen == [got EXCEPT !.candidate = picture,
                          !.stable = IF @ > 0 /\ got.candidate = picture
                                     THEN RequiredStableSamples ELSE 1]
  IN  /\ picture \in sampling.requests \ {Asked}
      /\ IF picture = NoColor THEN TryAgain(got)
         ELSE IF Enough(seen, picture) /\ HasMeaningfulPageFrame
              THEN /\ CommitColor(picture)
                   /\ sampling' = ScheduleNextPageSettlingSample(seen)
              ELSE TryAgain(seen)
      /\ UNCHANGED <<webVars, loadVars, fallback, happened>>

\* OnTopStripCaptured, without one
CaptureFails ==
  /\ sampling.requests # {}
  /\ \E r \in sampling.requests :
       TryAgain([sampling EXCEPT !.requests = @ \ {r}, !.inFlight = FALSE,
                                 !.missed = TRUE])
  /\ UNCHANGED <<webVars, loadVars, fallback, happened>>

-----------------------------------------------------------------------------
(* What happens to the tab *)

DidFinishNavigation(sameDocument) ==
  /\ waitingForLoad' = ~sameDocument
  /\ IF sameDocument
     THEN /\ UNCHANGED <<webVars, paintSeen>>
          /\ sampling' = RestartPageSampling(sampling)
     ELSE /\ framed' = FALSE /\ paintSeen' = FALSE
          /\ meta' \in Maybe
          /\ UNCHANGED <<visible, strip>>
          /\ sampling' = RestartPageSampling([sampling EXCEPT !.pending = 0])
  /\ UNCHANGED <<fallback, colorVars>>

DidStopLoading ==
  /\ waitingForLoad' = FALSE
  /\ UNCHANGED <<webVars, paintSeen, fallback, colorVars>>
  /\ BeginPageSettling

RenderViewReady ==
  /\ UNCHANGED <<webVars, loadVars, fallback, colorVars>>
  /\ sampling' = RestartPageSampling(sampling)

DidFirstVisuallyNonEmptyPaint ==
  /\ ~framed /\ framed' = TRUE /\ paintSeen' = TRUE
  /\ strip' \in Maybe
  /\ UNCHANGED <<visible, meta, waitingForLoad, fallback, colorVars>>
  /\ BeginPageSettling

\* DidChangeThemeColor, OnBackgroundColorChanged
PageColorChanges ==
  /\ meta' \in Maybe \ {meta}
  /\ UNCHANGED <<visible, framed, strip, loadVars, fallback, colorVars>>
  /\ BeginPageSettling

\* A click, a key or a new size; the page may be repainted later.
Interaction ==
  /\ UNCHANGED <<webVars, loadVars, fallback, colorVars>>
  /\ BeginPageSettling

Repainted ==
  /\ strip' \in Maybe \ {strip}
  /\ sampling' = [sampling EXCEPT !.viewed = @ \cup {strip'}]
  /\ UNCHANGED <<visible, framed, meta, loadVars, fallback, colorVars>>

Shown ==
  /\ ~visible /\ visible' = TRUE
  /\ UNCHANGED <<framed, strip, meta, loadVars, fallback, colorVars>>
  /\ BeginPageSettling

Hidden ==
  /\ visible /\ visible' = FALSE
  /\ UNCHANGED <<framed, strip, meta, loadVars, fallback, committed>>
  /\ sampling' = RestartPageSampling([sampling EXCEPT !.pending = 0])
  /\ IF target = NoColor THEN UNCHANGED <<presented, target, popup>>
     ELSE presented' = target /\ popup' = target /\ target' = NoColor

SetThemeFallbackColor(color) ==
  /\ color # fallback /\ fallback' = color
  /\ UNCHANGED <<webVars, loadVars, committed>>
  /\ IF committed = NoColor THEN StartColorTransition(presented, color)
     ELSE UNCHANGED <<presented, target, popup>>
  /\ BeginPageSettling

\* current is what the header showed for the tab before.
ActivateFrom(current) ==
  /\ StartColorTransition(current,
                          IF committed = NoColor THEN fallback ELSE committed)
  /\ UNCHANGED <<webVars, loadVars, sampling, fallback, committed>>

OnColorProviderChanged ==
  /\ popup' = presented
  /\ UNCHANGED <<webVars, loadVars, sampling, fallback, committed, presented,
                 target>>

Scrolled ==
  /\ UNCHANGED <<webVars, loadVars, fallback>>
  /\ StartScrollSampling

Event ==
  /\ happened < MaxTabEvents
  /\ happened' = happened + 1
  /\ \/ \E same \in BOOLEAN : DidFinishNavigation(same)
     \/ DidStopLoading \/ RenderViewReady \/ DidFirstVisuallyNonEmptyPaint
     \/ PageColorChanges \/ Interaction \/ Repainted \/ Shown \/ Hidden
     \/ \E c \in Colors : SetThemeFallbackColor(c)
     \/ \E c \in Colors \cup {Between} : ActivateFrom(c)
     \/ OnColorProviderChanged \/ Scrolled

-----------------------------------------------------------------------------
SurfaceInit ==
  /\ visible \in BOOLEAN /\ framed \in BOOLEAN
  /\ strip \in Maybe /\ meta \in Maybe
  /\ waitingForLoad \in BOOLEAN /\ paintSeen = FALSE
  /\ fallback \in Colors /\ committed = NoColor
  /\ presented = fallback /\ target = NoColor /\ popup = fallback
  /\ sampling = [timer |-> visible, late |-> FALSE, scrolling |-> FALSE,
                 inFlight |-> FALSE, requests |-> {}, attempt |-> 0,
                 pending |-> 0, candidate |-> NoColor, stable |-> 0,
                 viewed |-> {strip}, missed |-> FALSE]
  /\ happened = 0

CaptureAnswered == \E picture \in Maybe : Captured(picture)

SurfaceNext ==
  \/ Event
  \/ SampleTimer \/ ScrollTimer \/ StopScrollSampling \/ VerifyLatePageSurface
  \/ PictureTaken \/ CaptureAnswered \/ CaptureFails
  \/ AdvanceColorTransition \/ AnimationFrame

SurfaceSpec == SurfaceInit /\ [][SurfaceNext]_surfaceVars

-----------------------------------------------------------------------------
\* The kinds of the page's and the controller's state; one capture at once.
SurfaceTypeOK ==
  /\ {visible, framed, waitingForLoad, paintSeen} \subseteq BOOLEAN
  /\ {strip, meta, committed, target} \subseteq Maybe
  /\ fallback \in Colors
  /\ {presented, popup} \subseteq Colors \cup {Between}
  /\ sampling \in Sampling
  /\ Cardinality(sampling.requests) <= 1
  /\ happened \in 0..MaxTabEvents

SamplingAtRest ==
  ~sampling.timer /\ ~sampling.late /\ ~sampling.scrolling /\ ~sampling.inFlight

\* A colour is committed only if the strip had it since sampling was last
\* restarted, by whatever restarted it; what the page names, or none, only after
\* the last attempt.  No capture begun for an earlier document, theme or mode
\* decides it, even if the page names that colour.
CommittedWasViewed ==
  [][committed' \in {committed} \cup sampling.viewed
       \cup (IF sampling'.attempt = MaximumSampleAttempts THEN {meta, NoColor}
             ELSE {})]_surfaceVars

\* Where sampling has come to rest on a visible tab that has loaded, after a
\* strip that did not change and captures that did not fail, the colour is the
\* strip's, or else what the page names; the fallback is kept out of it.
RestIsRight ==
  /\ SamplingAtRest /\ visible /\ ~waitingForLoad
  /\ sampling.viewed = {strip} /\ ~sampling.missed
  => committed = IF strip = NoColor THEN meta ELSE strip

\* With no animation under way header and popups have the colour of the page,
\* or the fallback of the present theme: no capture, switch of tabs or hiding
\* in the middle of an animation leaves another.
HeaderAndPopupsAgree ==
  target = NoColor =>
    /\ presented = IF committed = NoColor THEN fallback ELSE committed
    /\ popup = presented

\* theming-structural-audit.md:25: a hidden tab does no sampling, whatever
\* happens to it.
HiddenIsQuiet == ~visible => SamplingAtRest /\ sampling.requests = {}

\* The colours a tab is left with when it is hidden, switched or given a theme
\* in the middle of an animation or a capture (OnVisibilityChanged,
\* ActivateFrom, SetThemeFallbackColor).
TabIsSettled == HeaderAndPopupsAgree /\ HiddenIsQuiet

\* How much sampling is left to do without a further event: a scroll to end, a
\* late look at the page, settling samples and attempts, each with a timer to
\* wait for, a capture to make and a picture to be looked at.
Work(s) ==
  (IF s.scrolling THEN 70 ELSE 0) + (IF s.late THEN 60 ELSE 0)
  + 10 * (s.pending + MaximumSampleAttempts - s.attempt)
  + (IF ~s.timer THEN 0 ELSE IF s.attempt < MaximumSampleAttempts THEN 1 ELSE 6)
  + (IF s.requests = {} THEN 0 ELSE IF Asked \in s.requests THEN 5 ELSE 4)

\* browser-shell-spec.md:190: bounded sampling, never polling.  Except while the
\* user scrolls, every timer, capture and answer leaves less to do than there
\* was: no retry, settling sample or late look keeps the strip being captured
\* on a tab to which nothing happens.
SamplingWanes ==
  [][happened' = happened /\ sampling' # sampling /\ ~sampling'.scrolling
       => Work(sampling') < Work(sampling)]_surfaceVars
=============================================================================
