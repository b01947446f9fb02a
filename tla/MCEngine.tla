-------------------------------- MODULE MCEngine --------------------------------
EXTENDS Engine

MCSizes == {[rows |-> 2, cols |-> 2], [rows |-> 2, cols |-> 3], [rows |-> 3, cols |-> 2]}
MCFocuses == {"text", "edit", "scroll", "screens", "resize", "tabs"}

Small == Len(g.history) + Len(stored) <= MaxScrolled
=================================================================================
