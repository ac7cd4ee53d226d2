---------------------------- MODULE MCWorkerPool ----------------------------
(***************************************************************************)
(* A finite instance of WorkerPool: the shorter side at least 2, at most 8 *)
(* pixels.  One upload each is wrong in one way only, the others are as    *)
(* small and as large as an avatar may be.                                 *)
(***************************************************************************)
EXTENDS WorkerPool, TLC

CONSTANTS
  Narrow,    \* the upload whose shorter side is one too short
  Large,     \* the one with a pixel too many
  Sideless,  \* the one whose header tells no width
  Broken     \* the one whose header is fine and whose pixels do not decode

ASSUME {Narrow, Large, Sideless, Broken} \subseteq Uploads

Picture(width, height, decodes) ==
  [format |-> "png", pages |-> 1, width |-> width, height |-> height, decodes |-> decodes]

MCImageOf ==
  [u \in Uploads |->
    CASE u = Narrow   -> Picture(1, 8, TRUE)
      [] u = Large    -> Picture(3, 3, TRUE)
      [] u = Sideless -> Picture(0, 4, TRUE)
      [] u = Broken   -> Picture(2, 4, FALSE)
      [] OTHER        -> Picture(2, 4, TRUE)]

MCFormats == {"jpeg", "png", "webp"}
=============================================================================
