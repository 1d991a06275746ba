----------------------------- MODULE ResultPipes -----------------------------
(***************************************************************************)
(* Result<T> (an std::expected) and its combinators.  A result remembers   *)
(* the steps whose functions made it: that is all the payload there is.    *)
(***************************************************************************)
EXTENDS Naturals, Sequences

Ok(by)      == [tag |-> "Ok", by |-> by]
Failure(by) == [tag |-> "Failure", by |-> by]
IsOk(r)     == r.tag = "Ok"

\* The combinators get the outcome of the user's function on the result they
\* look at, lazily: it counts only where the function is called.
AndThen(result, outcome) == IF IsOk(result) THEN outcome ELSE result
Map(result, outcome)     == IF IsOk(result) THEN Ok(outcome.by) ELSE result

OrElse(result, outcome)  == IF IsOk(result) THEN result ELSE outcome

\* result | pipe, for the pipes of Syntax/Result.hpp.
Pipes == {"AndThen", "Map", "OrElse"}

Pipe(result, pipe, outcome) ==
    CASE pipe = "AndThen" -> AndThen(result, outcome)
      [] pipe = "Map"     -> Map(result, outcome)
      [] pipe = "OrElse"  -> OrElse(result, outcome)
=============================================================================
