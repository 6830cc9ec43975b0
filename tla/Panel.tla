------------------------------- MODULE Panel -------------------------------
(***************************************************************************)
(* The face of the badge: keys, games, animations, splash screen and LEDs.  *)
(* They meet in the handlers of the keys, of which Badge.tla says when each *)
(* is bound, and in fb, into which one of the screens paints at a time and *)
(* which the next one finds as it was left.  So a behaviour here is that of *)
(* one of the parts, beginning with any picture; the others rest.          *)
(***************************************************************************)
EXTENDS Keys, Snake, Flappy, Pong, Animation, Splash, Display

VARIABLE part

Parts == {"keys", "snake", "flappy", "pong", "animation", "splash", "display"}

screenVars == <<snakeVars, flappyVars, pongVars, aniVars, splashVars, displayVars>>
vars == <<part, fb, keysVars, screenVars>>

Init ==
  /\ part \in Parts
  /\ keysInit /\ (hands # "nothing") = (part = "keys")
  /\ snakeRests /\ flappyRests /\ pongRests
  /\ aniRests /\ (part # "animation" => current = 1)
  /\ splashRests /\ (part # "splash" => splash_bm = 1)
  /\ displayRests /\ (part # "display" => led_brightness = 0)
  /\ CASE part = "snake" -> fb = SnakeLeftover
       [] part = "flappy" -> fb = FlappyLeftover
       [] part = "pong" -> fb = PongLeftover
       [] part = "animation" -> fb = AniLeftover
       [] part = "splash" -> fb = SplashLeftover
       [] part = "display" -> fb \in Pictures
       [] OTHER -> fb = {}

KeysStep == keysNext /\ UNCHANGED <<fb, screenVars>>
SnakeStep == snakeNext /\ UNCHANGED <<keysVars, flappyVars, pongVars, aniVars, splashVars, displayVars>>
FlappyStep == flappyNext /\ UNCHANGED <<keysVars, snakeVars, pongVars, aniVars, splashVars, displayVars>>
PongStep == pongNext /\ UNCHANGED <<keysVars, snakeVars, flappyVars, aniVars, splashVars, displayVars>>
AniStep == aniNext /\ UNCHANGED <<keysVars, snakeVars, flappyVars, pongVars, splashVars, displayVars>>
SplashStep == splashNext /\ UNCHANGED <<keysVars, snakeVars, flappyVars, pongVars, aniVars, displayVars>>
DisplayStep == displayNext /\ UNCHANGED <<keysVars, snakeVars, flappyVars, pongVars, aniVars, splashVars>>

Next ==
  /\ UNCHANGED part
  /\ \/ part = "keys" /\ KeysStep
     \/ part = "snake" /\ SnakeStep
     \/ part = "flappy" /\ FlappyStep
     \/ part = "pong" /\ PongStep
     \/ part = "animation" /\ AniStep
     \/ part = "splash" /\ SplashStep
     \/ part = "display" /\ DisplayStep

Spec == Init /\ [][Next]_vars /\ keysFairness

-----------------------------------------------------------------------------
\* What moves over the display, a bitmap or the splash screen, moves frame by frame to
\* its end, whatever was there before.
PicturesMove == AnimationEnds /\ SplashSlides

=============================================================================
