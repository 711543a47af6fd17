----------------------------- MODULE MCDocuments -----------------------------
(* A job specification and an evidence bundle for Documents. *)
EXTENDS Documents

F(key, value) == [key |-> key, value |-> value]

Item(id, key, value) == Obj(<<F("id", Str(id)), F(key, Str(value))>>)

ASpec ==
    Obj(<<F("artifact", Obj(<<F("tolerance_um", Num(2, "integer")), F("quantity", Num(1, "integer"))>>)),
          F("price", Num(2, "integer")),
          F("acceptance", Arr(<<Item("dims", "check", "dimensions_within_tolerance"),
                                Item("on_time", "check", "delivered_before_deadline")>>))>>)

ABundle ==
    Obj(<<F("submitted_unix", Num(1, "integer")),
          F("measurements", Obj(<<F("deviation_um", Num(1, "integer")),
                                  F("delivered_unix", Num(1, "integer"))>>)),
          F("results", Arr(<<Item("dims", "passed", "true"), Item("on_time", "passed", "true")>>))>>)

SpecAndBundle == {[kind |-> "job_spec", text |-> ASpec], [kind |-> "evidence", text |-> ABundle]}

Alphabetical ==
    <<"acceptance", "artifact", "check", "delivered_unix", "deviation_um", "id", "measurements",
      "passed", "price", "quantity", "results", "submitted_unix", "tolerance_um">>

=============================================================================
