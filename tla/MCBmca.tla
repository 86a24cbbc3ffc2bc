--------------------------------- MODULE MCBmca ---------------------------------
(* A small instance of Bmca: a ring of three bridges. *)
EXTENDS Bmca

Ring == {{<<1, 1>>, <<2, 2>>}, {<<2, 1>>, <<3, 2>>}, {<<3, 1>>, <<1, 2>>}}
===============================================================================
