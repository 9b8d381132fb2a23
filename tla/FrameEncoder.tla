---------------------------- MODULE FrameEncoder ----------------------------
(***************************************************************************)
(* One display frame at the level of pixels: the drawing operations of the *)
(* Framebuffer with its DirtyTracker, the encoder that turns the dirty     *)
(* tiles into display commands (crates/maschine-core/src/display), and the *)
(* controller's decoder, external, as the wire format of                   *)
(* crates/maschine-proto/src/display.rs describes it.                      *)
(*                                                                         *)
(* Encoding and delivery are one step here: the order of deliveries and    *)
(* their failures are the subject of DisplayPipeline.                      *)
(***************************************************************************)
EXTENDS Integers, SequencesExt

CONSTANTS TILE,      \* side of a tile in pixels (16)
          COLS,      \* tiles in a row (30)
          ROWS,      \* rows of tiles (17)
          Colors,    \* RGB565 values used
          Black,     \* the RGB565 value 0
          Coords,    \* pixel coordinates given to the drawing operations
          Sizes,     \* widths and heights given to them
          MaxDraws   \* bound: drawing operations explored

ASSUME GeometryAssumption ==
  /\ TILE \in Nat \ {0} /\ TILE % 2 = 0
  /\ COLS \in Nat \ {0} /\ ROWS \in Nat \ {0}
  /\ Black \in Colors
  /\ Coords \subseteq Nat /\ Sizes \subseteq Nat
  /\ MaxDraws \in Nat

W == COLS * TILE
H == ROWS * TILE
BITS == COLS * ROWS
Pixels == (0..W-1) \X (0..H-1)

VARIABLES
  pixels,   \* the framebuffer
  bits,     \* the bits set in the DirtyTracker
  shown,    \* what the controller shows
  draws     \* drawing operations so far

frameVars == <<pixels, bits, shown, draws>>

----------------------------------------------------------------------------
\* DirtyTracker

\* The bit of a tile; a tile off the screen has none.
TileBit(col, row) ==
  IF col >= COLS \/ row >= ROWS THEN {} ELSE {row * COLS + col}

IsTileDirty(col, row) == TileBit(col, row) \cap bits # {}

Least(a, b) == IF a <= b THEN a ELSE b

\* Mutant of RectBits: the last column is computed from the width alone.
RectBitsUnaligned(x, y, w, h) ==
  IF w = 0 \/ h = 0 THEN {}
  ELSE UNION {TileBit(c, r) :
         c \in (x \div TILE)..Least(x \div TILE + (w - 1) \div TILE, COLS - 1),
         r \in (y \div TILE)..Least((y + h - 1) \div TILE, ROWS - 1)}

\* mark_rect: the bits of the tiles a rectangle touches.
RectBits(x, y, w, h) ==
  IF w = 0 \/ h = 0 THEN {}
  ELSE UNION {TileBit(c, r) :
         c \in (x \div TILE)..Least((x + w - 1) \div TILE, COLS - 1),
         r \in (y \div TILE)..Least((y + h - 1) \div TILE, ROWS - 1)}

\* The inner loop of runs(): the first column from c on whose tile is clean.
ScanEnd(row, c) ==
  LET scan[i \in 0..COLS] ==
        IF i < COLS /\ IsTileDirty(i, row) THEN scan[i + 1] ELSE i
  IN  scan[c]

\* Mutant of RowRuns: the tile that stopped the scan is taken for the last
\* one of the run.
RowRunsPastEnd(row) ==
  LET from[c \in 0..COLS] ==
        IF c = COLS THEN <<>>
        ELSE IF IsTileDirty(c, row)
             THEN LET e == ScanEnd(row, c)
                  IN  <<<<row, c, Least(e, COLS - 1)>>>> \o from[e]
             ELSE from[c + 1]
  IN  from[0]

\* The outer loop for one row: row, first and last column of each run.
RowRuns(row) ==
  LET from[c \in 0..COLS] ==
        IF c = COLS THEN <<>>
        ELSE IF IsTileDirty(c, row)
             THEN LET e == ScanEnd(row, c)
                  IN  <<<<row, c, e - 1>>>> \o from[e]
             ELSE from[c + 1]
  IN  from[0]

\* runs(): row after row.
Runs == FlattenSeq([r \in 1..ROWS |-> RowRuns(r - 1)])

----------------------------------------------------------------------------
\* The encoder

\* The pixels of a rectangle in row-major order.
Native(x, y, w, h) ==
  [k \in 1..w*h |-> pixels[<<x + ((k - 1) % w), y + ((k - 1) \div w)>>]]

Header(x, y, w, h) == [op |-> "header", x |-> x, y |-> y, w |-> w, h |-> h]
Repeat(pairs, pair) == [op |-> "repeat", n |-> pairs, data |-> pair]
Blit(pairs, data) == [op |-> "blit", n |-> pairs, data |-> data]
FlushCmd == [op |-> "flush"]
EndCmd == [op |-> "end"]

\* encode_run: the header that frames the rectangle, then one repeat of a
\* pixel pair when all its pixels are equal, else a blit of the pixels.
EncodeRun(x, y, w, h) ==
  LET native == Native(x, y, w, h)
      pairs == (w * h) \div 2
      solid == \A k \in DOMAIN native : native[k] = native[1]
  IN  <<Header(x, y, w, h),
        IF solid THEN Repeat(pairs, <<native[1], native[1]>>)
                 ELSE Blit(pairs, native)>>

\* encode_frame: a command block per run, then flush and end.
EncodedFrame ==
  LET runs == Runs
      block(r) ==
        LET x == r[2] * TILE
            y == r[1] * TILE
        IN  EncodeRun(x, y, Least((r[3] - r[2] + 1) * TILE, W - x),
                      Least(TILE, H - y))
  IN  FlattenSeq([i \in DOMAIN runs |-> block(runs[i])]) \o <<FlushCmd, EndCmd>>

----------------------------------------------------------------------------
\* The controller (external): a header frames the rectangle that the next
\* command fills pair by pair; flush makes the drawn pixels visible.

\* Draw the first 2n pixels of the framed rectangle, taking them from `data`,
\* over and over when it is shorter.
Drawn(screen, n, data) ==
  [p \in Pixels |->
     LET i == p[1] - screen.rect.x
         j == p[2] - screen.rect.y
         k == j * screen.rect.w + i
     IN  IF /\ i \in 0..screen.rect.w-1
            /\ j \in 0..screen.rect.h-1
            /\ k < 2 * n
         THEN data[(k % Len(data)) + 1]
         ELSE screen.back[p]]

Receive(screen, cmd) ==
  CASE cmd.op = "header" -> [screen EXCEPT !.rect = cmd]
    [] cmd.op \in {"repeat", "blit"} ->
         [screen EXCEPT !.back = Drawn(screen, cmd.n, cmd.data)]
    [] cmd.op = "flush" -> [screen EXCEPT !.front = screen.back]
    [] cmd.op = "end" -> screen

Shown(cmds) ==
  FoldLeft(Receive,
           [rect |-> Header(0, 0, 0, 0), back |-> shown, front |-> shown],
           cmds).front

----------------------------------------------------------------------------
\* The operations

FrameInit ==
  /\ pixels = [p \in Pixels |-> Black]
  /\ bits = {}
  /\ shown = [p \in Pixels |-> Black]
  /\ draws = 0

Draw(newPixels, marked) ==
  /\ draws < MaxDraws
  /\ draws' = draws + 1
  /\ pixels' = newPixels
  /\ bits' = bits \cup marked
  /\ UNCHANGED shown

\* Mutant of Clear: mark_full sets the bit after the last tile too.
ClearMarksOneMore(color) == Draw([p \in Pixels |-> color], 0..BITS)

\* clear() and mark_full().
Clear(color) == Draw([p \in Pixels |-> color], 0..BITS-1)

\* set_pixel() ignores a pixel off the screen.
SetPixel(x, y, color) ==
  /\ <<x, y>> \in Pixels
  /\ Draw([pixels EXCEPT ![<<x, y>>] = color], TileBit(x \div TILE, y \div TILE))

\* fill_rect() clips to the screen, paints and marks what is left.
FillRect(x, y, w, h, color) ==
  LET x0 == Least(x, W)
      y0 == Least(y, H)
      x1 == Least(x0 + w, W)
      y1 == Least(y0 + h, H)
  IN  /\ x0 # x1 /\ y0 # y1
      /\ Draw([p \in Pixels |->
                 IF p[1] \in x0..x1-1 /\ p[2] \in y0..y1-1 THEN color
                 ELSE pixels[p]],
              RectBits(x0, y0, x1 - x0, y1 - y0))

\* pixels_mut() followed by touch(): a caller draws without marking and then
\* names the rectangle it drew in, unclipped.
DrawAndTouch(x, y, w, h, color) ==
  Draw([p \in Pixels |->
          IF p[1] \in x..x+w-1 /\ p[2] \in y..y+h-1 /\ (p[1] + p[2]) % 2 = 0
          THEN color ELSE pixels[p]],
       RectBits(x, y, w, h))

\* encode_frame() and its delivery: the tracker is cleared.
EncodeAndShow ==
  /\ bits # {}
  /\ shown' = Shown(EncodedFrame)
  /\ bits' = {}
  /\ UNCHANGED <<pixels, draws>>

FrameNext ==
  \/ \E c \in Colors : Clear(c)
  \/ \E x, y \in Coords, c \in Colors : SetPixel(x, y, c)
  \/ \E x, y \in Coords, w, h \in Sizes, c \in Colors :
       FillRect(x, y, w, h, c) \/ DrawAndTouch(x, y, w, h, c)
  \/ EncodeAndShow

FrameSpec == FrameInit /\ [][FrameNext]_frameVars

----------------------------------------------------------------------------

\* A pixel that the panel does not show as drawn lies in a dirty tile.  Right
\* after encode_frame no tile is dirty, so the invariant says that the
\* commands, decoded, repaint every tile that lost its bit, pixel by pixel,
\* whatever mix of repeat and blit the runs gave.
StalePixelIsDirty ==
  \A p \in Pixels :
    shown[p] # pixels[p] => IsTileDirty(p[1] \div TILE, p[2] \div TILE)

\* runs() against its definition: a stretch of a row is a run exactly when
\* all its tiles are dirty and neither neighbour is, and each run is there
\* once.  A run too long repaints clean tiles, one too short forgets some.
RunsAreMaximal ==
  LET runs == Runs IN
  /\ IsInjective(runs)
  /\ Range(runs) =
       {r \in (0..ROWS-1) \X (0..COLS-1) \X (0..COLS-1) :
          /\ r[2] <= r[3]
          /\ \A c \in r[2]..r[3] : IsTileDirty(c, r[1])
          /\ r[2] > 0 => ~IsTileDirty(r[2] - 1, r[1])
          /\ ~IsTileDirty(r[3] + 1, r[1])}

FrameTypeOK ==
  /\ pixels \in [Pixels -> Colors]
  /\ bits \subseteq 0..BITS-1
  /\ shown \in [Pixels -> Colors]
  /\ draws \in 0..MaxDraws
=============================================================================
