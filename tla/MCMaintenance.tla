--------------------------- MODULE MCMaintenance ---------------------------
(***************************************************************************)
(* A small instance of Maintenance: pages with room for three short rows,  *)
(* or two with a long one, and tables of one to three pages.               *)
(***************************************************************************)
EXTENDS Maintenance

MCRows == {<<1, 1>>, <<2, 2>>, <<3, 1>>, <<3, 3>>}
MCLoads == {<<>>,
            <<<<2, 1>>, <<4, 2>>>>,
            <<<<1, 1>>, <<2, 1>>, <<3, 1>>, <<4, 2>>, <<5, 1>>, <<6, 2>>>>,
            <<<<2, 2>>, <<3, 1>>, <<3, 1>>, <<3, 2>>, <<5, 1>>, <<6, 1>>>>}
MCKeySets == {{2}, {3}, {2, 3}, {3, 4, 5}}
=============================================================================
