--------------------------- MODULE MCMatrixTransfer ---------------------------
(***************************************************************************)
(* Groups of one to four workers as the process grids El::Grid may give    *)
(* them, matrices smaller and larger than the grid, a layout of each kind, *)
(* and clients with and without unsigned integers whose numbers and blocks *)
(* are in either byte order.                                               *)
(***************************************************************************)
EXTENDS MatrixTransfer

Shape(h, w, r, c, l) == [height |-> h, width |-> w, rows |-> r, cols |-> c, l |-> l]

MCShapes == {Shape(1, 1, 2, 3, 0), Shape(2, 1, 3, 2, 0), Shape(1, 2, 2, 3, 0),
             Shape(2, 2, 3, 3, 0), Shape(2, 2, 1, 2, 0), Shape(2, 1, 3, 2, 1),
             Shape(1, 2, 3, 1, 4), Shape(1, 2, 2, 2, 3), Shape(1, 2, 2, 2, 8),
             Shape(2, 1, 3, 2, 11), Shape(2, 2, 3, 2, 2), Shape(2, 1, 2, 3, 6),
             Shape(1, 2, 2, 2, 13)}

Client(cl, f, b) == [cl |-> cl, foreign |-> f, foreign_blocks |-> b]

MCClients == {Client("CPP", FALSE, FALSE), Client("CPP", TRUE, TRUE),
              Client("SCALA", TRUE, TRUE), Client("SCALA", FALSE, FALSE),
              Client("PYTHON", TRUE, FALSE), Client("PYTHON", FALSE, FALSE)}

=============================================================================
