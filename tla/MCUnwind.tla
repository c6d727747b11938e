------------------------------ MODULE MCUnwind ------------------------------
(* Instances of Unwind for TLC.  The call sites are what the two language  *)
(* personalities answer for small tables (Policy).                         *)
EXTENDS Unwind, Integers

One == CHOOSE e \in Exceptions : TRUE

\* Catch 1 accepts one of the exceptions; nothing accepts another.
Accepts == [p \in Exceptions \X {-2, -1, 1} |-> IF p = <<One, 1>> THEN "yes" ELSE "no"]

Policies == INSTANCE Policy WITH MaxSelector <- 1, Match <- Accepts

TableSite(lang, shape, kinds) ==
  Policies!SiteOf([lang |-> lang, shape |-> shape, kinds |-> kinds,
                   end |-> "end", types |-> {1}])

RustCleanup == TableSite("rust", "actionless", <<>>)
RustCatch   == TableSite("rust", "chained", <<1>>)
RustFilter  == TableSite("rust", "chained", <<-1>>)

\* A C++ clause matching one exception, alone or before a cleanup record.
CxxCatch        == TableSite("cxx", "chained", <<1>>)
CxxCatchCleanup == TableSite("cxx", "chained", <<1, 0>>)

\* A call site missing from the table.
Terminate == TableSite("rust", "uncovered", <<>>)

BasicSites == {Plain, RustCleanup, RustCatch}
FaultySites ==
  {Plain, RustCleanup, RustCatch, RustFilter, CxxCatchCleanup,
   [RustCleanup EXCEPT !.fault = "install"], [Plain EXCEPT !.fault = "stack"],
   [RustCleanup EXCEPT !.fault = "info"],
   [CxxCatch EXCEPT !.handle = "CONTINUE"], Terminate,
   [Plain EXCEPT !.fault = "caller"]}

\* Landing pads resume from sites without a pad; Rust gives some no entry.
PlainPads == {Plain}
SomePads  == {Plain, Terminate} \cap Sites

\* One stop function, at a nonzero address.
OneStop == {7}
OneParam == {0}
=============================================================================
