------------------------------ MODULE MCPanel ------------------------------
(* KEY2 and one of the two keys that button.c reads from the same pin, and  *)
(* samples of the ADC on either side of each threshold; the boards of the   *)
(* games; a list in which every animation plays bitmaps narrower than the   *)
(* display, as wide and wider; splash screens lower than the display, as    *)
(* high and higher; and pictures for the LEDs, one of them with bits above  *)
(* the display's rows.                                                      *)
EXTENDS Panel

MCPin == <<"KEY2_PIN", "KEY2_PIN">>
MCRaws == {0, 499, 500, 3300, 3301, 3599, 3600, 3601, 3602}

MCSnakeLeftover == SnakeBoard
MCFlappyLeftover == FlappyBoard
MCPongLeftover == PongBoard

Narrow == <<{0}, {1, 2}>>
Filling == <<{0, 2}, {}, {1}, {0}>>
Wide == <<{1}, {0, 1}, {}, {2}, {0, 1, 2}>>

Plain(buf, ani) == [buf |-> buf, ani |-> ani, is_flash |-> FALSE, is_marquee |-> FALSE]
Flashing(buf, ani) == [Plain(buf, ani) EXCEPT !.is_flash = TRUE]
Marquee(buf, ani) == [Plain(buf, ani) EXCEPT !.is_marquee = TRUE]

MCBitmaps ==
  <<Plain(Narrow, "scroll_left"), Flashing(Wide, "picture"), Plain(Wide, "scroll_right"),
    Plain(Narrow, "laser"), Plain(Filling, "laser"), Marquee(Wide, "scroll_up"),
    Plain(Filling, "scroll_down"), Plain(Narrow, "picture"), Plain(Wide, "laser"),
    Flashing(Narrow, "snowflake"), Plain(Wide, "snowflake"), Plain(Narrow, "fixed"),
    Marquee(Filling, "picture"), Plain(Wide, "animation"), Flashing(Wide, "scroll_left"),
    Plain(Narrow, "scroll_up"), Marquee(Wide, "fixed"), Plain(Narrow, "scroll_right")>>

MCAniLeftover == Screen

Striped(h, w) == [w |-> w, rows |-> [r \in 1..h |-> {c \in 0..w - 1 : (3 * r + c) % 5 < 2}]]
MCSplashPictures == <<Striped(10, 12), Striped(11, 44), Striped(13, 7), Striped(22, 44)>>
MCSplashLeftover == Box(SplashCols, SplashRows)

Matrix == Box(DisplayCols, DisplayRows)
MCPictures ==
  {{}, {<<0, 0>>}, Matrix, Box(DisplayCols, 16), {p \in Matrix : (p[1] + p[2]) % 3 = 0}}

=============================================================================
