--------------------------------- MODULE Colour ---------------------------------
(***************************************************************************)
(* One pixel on its way from the key frames to the LEDs: interpolation in   *)
(* HSV space, gamma and brightness correction (ld_core/inc/ld_led_ops.h,    *)
(* ld_math_u8.h, ld_core/src/ld_gamma_lut.c), as FrameBuffer::compute and   *)
(* Player::updatePlayback apply them.                                       *)
(*                                                                          *)
(* Channels are bytes; a hue is 0 .. 1535, in six sectors of 256.  powf is  *)
(* represented by any curves Gamma of its kind.                             *)
(***************************************************************************)
EXTENDS Integers, FiniteSetsExt

CONSTANTS
  Gamma,        \* [type][channel]: the lookup table built from powf
  MaxLevel,     \* [type][channel]: LD_CFG_*_MAX_BRIGHTNESS
  Levels,       \* bound: levels of a channel in the frames
  Blends,       \* bound: blend factors
  TestLevels,   \* bound: arguments of the test command
  BreathTimes   \* bound: playback times in breath mode, in ms

U8       == 0 .. 255
Types    == {"WS2812B", "PCA9955B"}
Primaries == {"g", "r", "b"}
Grb(g, r, b) == [g |-> g, r |-> r, b |-> b]
Black    == Grb(0, 0, 0)

ASSUME GammaAssumption ==
  \A type \in Types, c \in Primaries :
    LET lut == Gamma[type][c] IN
    /\ lut \in [U8 -> U8] /\ lut[0] = 0 /\ lut[255] = 255
    /\ \A x \in 1 .. 255 : lut[x - 1] <= lut[x]
ASSUME LevelAssumption == \A type \in Types, c \in Primaries : MaxLevel[type][c] \in U8
ASSUME InputAssumption ==
  Levels \subseteq U8 /\ Blends \subseteq U8 /\ TestLevels \subseteq Int /\ BreathTimes \subseteq Nat

VARIABLES
  fade,    \* history: the colours interpolated, the blend factor and the result
  shown    \* history: what the LED was sent: its type, the colour, compute's result

colourVars == <<fade, shown>>

NoFade == [from |-> Black, to |-> Black, t |-> 0, grb |-> Black]
Dark   == [type |-> "WS2812B", grb |-> Black, status |-> "NONE"]

ColourInit ==
  fade = NoFade /\ shown = Dark

-----------------------------------------------------------------------------
(* ld_math_u8.h *)

CDiv(a, b)  == IF a >= 0 THEN a \div b ELSE -((-a) \div b)    \* C truncates
Mul255(x, y) == (x * y + 127) \div 255

LerpU8(start, end, t) == (start * (255 - t) + end * t + 127) \div 255
Max3(c) == Max({c.r, c.g, c.b})
Min3(c) == Min({c.r, c.g, c.b})

-----------------------------------------------------------------------------
(* ld_led_ops.h *)

WrapHue(h) == h % 1536

\* Mutant of ShortestDh: only a positive difference is shortened.
ShortestDhUp(dh) == IF dh > 768 THEN dh - 1536 ELSE dh

ShortestDh(dh) == IF dh > 768 THEN dh - 1536 ELSE IF dh < -768 THEN dh + 1536 ELSE dh

GrbToHsv(c) ==
  LET v == Max3(c)
      delta == v - Min3(c)
  IN  IF delta = 0 THEN [h |-> 0, s |-> 0, v |-> v]
      ELSE [v |-> v, s |-> (delta * 255 + (v \div 2)) \div v,
            h |-> WrapHue(IF v = c.r THEN CDiv(256 * (c.g - c.b), delta)
                          ELSE IF v = c.g THEN 512 + CDiv(256 * (c.b - c.r), delta)
                          ELSE 1024 + CDiv(256 * (c.r - c.g), delta))]

HsvToGrb(c) ==
  LET f == c.h % 256
      v == c.v
      p == Mul255(v, 255 - c.s)
      q == Mul255(v, 255 - Mul255(c.s, f))
      t == Mul255(v, 255 - Mul255(c.s, 255 - f))
      sectors == <<Grb(t, v, p), Grb(v, q, p), Grb(v, p, t), Grb(q, p, v), Grb(p, t, v),
                   Grb(p, v, q)>>
  IN  IF c.s = 0 THEN Grb(v, v, v) ELSE sectors[((c.h \div 256) % 6) + 1]

LerpHsv(start, end, t) ==
  LET a == GrbToHsv(start)
      b == GrbToHsv(end)
      h == IF a.s = 0 /\ b.s # 0 THEN b.h
           ELSE IF b.s = 0 /\ a.s # 0 THEN a.h
           ELSE WrapHue(a.h + CDiv(ShortestDh(b.h - a.h) * t, 255))
  IN  HsvToGrb([h |-> h, s |-> LerpU8(a.s, b.s, t), v |-> LerpU8(a.v, b.v, t)])

GammaCorrected(c, type)      == [k \in Primaries |-> Gamma[type][k][c[k]]]
BrightnessLimited(c, type)   == [k \in Primaries |-> Mul255(c[k], MaxLevel[type][k])]

\* Mutant of Corrected: the curve only.
CorrectedUnlimited(c, type)  == GammaCorrected(c, type)

Corrected(c, type) == BrightnessLimited(GammaCorrected(c, type), type)

-----------------------------------------------------------------------------
(* compute and updatePlayback, for one pixel of a type *)

Pixels == [Primaries -> Levels]

\* handle_frames gives a pair of frames: interpolate, correct, show.
Fade(type, from, to, t) ==
  /\ LET grb == LerpHsv(from, to, t) IN
     /\ fade' = [from |-> from, to |-> to, t |-> t, grb |-> grb]
     /\ shown' = [type |-> type, grb |-> Corrected(grb, type), status |-> "OK"]

\* HOLD or EOF_REACHED: the current frame is copied, corrected and shown.
Hold(type, current) ==
  /\ shown' = [type |-> type, grb |-> Corrected(current, type), status |-> "HOLD"]
  /\ UNCHANGED fade

\* An error: compute returns before the correction, and updatePlayback shows the copy.
ShowError(type, current) ==
  /\ shown' = [type |-> type, grb |-> current, status |-> "ERROR"]
  /\ UNCHANGED fade

\* The test command clamps its arguments; in breath mode the hue follows the time.
Clamp(x) == Max({0, Min({x, 255})})

Test(type, r, g, b) ==
  /\ shown' = [type |-> type, grb |-> Corrected(Grb(Clamp(g), Clamp(r), Clamp(b)), type),
               status |-> "OK"]
  /\ UNCHANGED fade

BreathHue(time) == Min({((time % 6000) * 1536) \div 6000, 1535})

Breath(type, time) ==
  /\ shown' = [type |-> type, status |-> "OK",
               grb |-> Corrected(HsvToGrb([h |-> BreathHue(time), s |-> 255, v |-> 255]), type)]
  /\ UNCHANGED fade

\* A tick shows one colour; the next one starts afresh.
Tick ==
  /\ shown = Dark
  /\ \E type \in Types :
       \/ \E from, to \in Pixels, t \in Blends : Fade(type, from, to, t)
       \/ \E current \in Pixels : Hold(type, current) \/ ShowError(type, current)
       \/ \E r, g, b \in TestLevels : Test(type, r, g, b)
       \/ \E time \in BreathTimes : Breath(type, time)

NextTick == shown # Dark /\ fade' = NoFade /\ shown' = Dark

ColourNext == Tick \/ NextTick

ColourSpec == ColourInit /\ [][ColourNext]_colourVars

-----------------------------------------------------------------------------
Distance(c, d) == Max({Max({c[k] - d[k], d[k] - c[k]}) : k \in Primaries})

(* A fade begins and ends at the colours of its key frames, whose hue, saturation and
   value are rounded: no channel is off by more than 3 of 255 (framebuffer.cpp:145-149,
   ld_led_ops.h:37-138). *)
FadeMeetsFrames ==
  /\ fade.t = 0   => Distance(fade.grb, fade.from) <= 3
  /\ fade.t = 255 => Distance(fade.grb, fade.to) <= 3

(* Between them it never flashes and never dips: its brightest channel stays between
   those of its ends (ld_led_ops.h:147-168). *)
FadeStaysBetween ==
  /\ Max3(fade.grb) >= Min({Max3(fade.from), Max3(fade.to)})
  /\ Max3(fade.grb) <= Max({Max3(fade.from), Max3(fade.to)})

IsGrey(c) == Max3(c) = Min3(c)

(* A fade takes the shorter way round the hues, so a primary that neither of two colours
   has never appears; and from or to a grey, which has no hue, it goes through shades of
   the other end's colour only.  Black is such a grey: on its way there a pure colour
   turns pale (ld_led_ops.h:24-32, 155-165). *)
FadeKeepsHue ==
  /\ ~IsGrey(fade.from) /\ ~IsGrey(fade.to) =>
       \A k \in Primaries : fade.from[k] = 0 /\ fade.to[k] = 0 => fade.grb[k] = 0
  /\ IsGrey(fade.from) \/ IsGrey(fade.to) =>
       \A end \in {fade.from, fade.to} : \A j, k \in Primaries :
         end[j] > end[k] => fade.grb[j] >= fade.grb[k]

(* A fade is faithful to its two key frames in colour, brightness and hue, all the way
   (framebuffer.cpp:145-149, ld_led_ops.h:24-168). *)
FadeIsFaithful == FadeMeetsFrames /\ FadeStaysBetween /\ FadeKeepsHue

(* Whatever is shown, no LED is driven above its maximum brightness.  ld_core/README.md
   says so (line 143: "Run rendering pipeline (`lerp -> gamma -> brightness`) before
   hardware send."); the frame shown on an error has not been through it
   (framebuffer.cpp:140-143, player.cpp:137-156). *)
WithinMaxBrightness ==
  \A k \in Primaries : shown.grb[k] <= MaxLevel[shown.type][k]

(* In every tick that reports no error, no LED is driven above its maximum brightness,
   whatever the frames, the arguments of the test command, the time and the curve
   (framebuffer.cpp:126-156, ld_led_ops.h:186-223). *)
WithinMaxUnlessError == shown.status # "ERROR" => WithinMaxBrightness

=============================================================================
