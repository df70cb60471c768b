------------------------------- MODULE Lights -------------------------------
(* The light service (src/hidl/light/Light.cpp): one RGB LED that three kinds  *)
(* of light share, and two backlights.  Each call is one step: it holds mLock  *)
(* from beginning to end, its pauses included.                                 *)
EXTENDS Integers

CONSTANTS States,     \* light states: [color, timed, on, off], a colour is [r, g, b]
          Nearest,    \* per colour, the primary colour that rgb2lab and nearest_color pick
          Panels      \* max_brightness of the panel

VARIABLES wanted,   \* per kind of light: [color, timed, on, off], its last state
          led,      \* what was written: [run, rgb, engines], the engines selected since it was stopped
          called,   \* ghost: whether setLight was called for the LED
          panel,    \* max_brightness
          level,    \* the brightness written, and
          shown     \* ghost: the colour that it was written for

lightVars == <<wanted, led, called, panel, level, shown>>

Kinds == {"NOTIFICATIONS", "ATTENTION", "BATTERY"}
Black == [r |-> 0, g |-> 0, b |-> 0]
White == [r |-> 255, g |-> 255, b |-> 255]
Dark == [run |-> 0, rgb |-> Black, engines |-> {}]

\* The three states are members without an initial value: what is in them is anything.
LightInit ==
  /\ wanted \in [Kinds -> States]
  /\ led = Dark /\ called = FALSE
  /\ panel \in Panels /\ level = 0 /\ shown = Black

isLit(s) == s.color # Black

\* Mutant: the attention light comes first.
AttentionFirst(w) ==
  IF isLit(w["ATTENTION"]) THEN w["ATTENTION"]
  ELSE IF isLit(w["NOTIFICATIONS"]) THEN w["NOTIFICATIONS"] ELSE w["BATTERY"]

\* setSpeakerBatteryLightLocked: which light the LED shows.
Top(w) ==
  IF isLit(w["NOTIFICATIONS"]) THEN w["NOTIFICATIONS"]
  ELSE IF isLit(w["ATTENTION"]) THEN w["ATTENTION"] ELSE w["BATTERY"]

Blinks(s) == s.timed /\ s.on > 0 /\ s.off > 0

\* The engines of the colours of a primary colour: 1 red, 2 green, 3 blue.
Engines(c) == {i \in 1 .. 3 : <<c.r, c.g, c.b>>[i] # 0}

\* Mutant: the engine is left running.
NotStopped == [Dark EXCEPT !.run = led.run]

\* Blinking is stopped and the colours cleared first.
Stopped == Dark

\* setSpeakerLightLocked: a blinking light runs the engines of the nearest primary colour,
\* a steady one has its colour written.
Shows(s) ==
  IF ~isLit(s) THEN Stopped
  ELSE IF Blinks(s) THEN [Stopped EXCEPT !.engines = Engines(Nearest[s.color]), !.run = 1]
  ELSE [Stopped EXCEPT !.rgb = s.color]

setLight(k, s) ==
  /\ wanted' = [wanted EXCEPT ![k] = s]
  /\ led' = Shows(Top(wanted')) /\ called' = TRUE
  /\ UNCHANGED <<panel, level, shown>>

rgbToBrightness(c) == (77 * c.r + 150 * c.g + 29 * c.b) \div 256

\* DEFAULT_MAX_BRIGHTNESS is 255.
Scaled(x) == IF panel = 255 THEN x ELSE (x * panel) \div 255
setBacklight(c) ==
  /\ level' = Scaled(rgbToBrightness(c)) /\ shown' = c
  /\ UNCHANGED <<wanted, led, called, panel>>

LightNext ==
  \/ \E k \in Kinds, s \in States : setLight(k, s)
  \/ \E c \in DOMAIN Nearest : setBacklight(c)

----------------------------------------------------------------------------
\* After any sequence of calls the LED shows the notification light if it is lit, otherwise
\* the attention light, otherwise the battery light, with nothing left of what it showed
\* before: blinking and steady colours exclude each other.  (A light that was never set
\* counts with whatever was in its memory.)
LedShowsTop ==
  called =>
  LET lit == {k \in Kinds : isLit(wanted[k])}
      k == IF "NOTIFICATIONS" \in lit THEN "NOTIFICATIONS"
           ELSE IF "ATTENTION" \in lit THEN "ATTENTION" ELSE "BATTERY"
  IN  IF lit = {} THEN led.run = 0 /\ led.rgb = Black
      ELSE IF Blinks(wanted[k]) THEN led.run = 1 /\ led.rgb = Black /\ led.engines = Engines(Nearest[wanted[k].color])
      ELSE led.run = 0 /\ led.rgb = wanted[k].color

\* The backlight reaches the panel's maximum for white and never exceeds it.
BacklightFits == level \in 0 .. panel /\ (shown = White => level = panel)

\* What is written to the LED and to the backlight is what was last asked for.
LightsSound == LedShowsTop /\ BacklightFits
=============================================================================
