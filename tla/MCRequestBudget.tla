---------------------------- MODULE MCRequestBudget ----------------------------
(* RequestBudget for TLC: the default options, some that are refused, and some *)
(* that are accepted, over files that are broken, short of paths or ambiguous. *)
EXTENDS RequestBudget

Opt(i, s, d, l, f) ==
  [inventory |-> i, state |-> s, devices |-> d, location |-> l, spec |-> f]

Default == Opt(3600, 300, 20, TRUE, FALSE)

AllSegments == {"v3", "devices", "status", "location", "connect", "wireless",
  "configurator", "configuration", "id", "device_id", "companies", "company"}

Get(segments, length) == [path |-> P(segments, length), get |-> TRUE]
Ok(items) == [state |-> "ok", items |-> items]

\* The file of the unit test, one with a shorter candidate outside /v3 and an
\* item without "get", one without any candidate, and one with other names
Unit == Ok(<<Get(<<"v3", "devices">>, 11), Get(<<"v3", "devices", "id">>, 16),
             Get(<<"v3", "devices", "status">>, 18),
             Get(<<"v3", "devices", "id", "status">>, 23),
             Get(<<"v3", "devices", "id", "location">>, 25)>>)
Mixed == Ok(<<Get(<<"devices", "status">>, 15),
              Get(<<"v3", "devices", "id", "status">>, 23),
              Get(<<"v3", "devices", "connect", "status">>, 26),
              [path |-> P(<<"devices", "id">>, 13), get |-> FALSE]>>)
Other == Ok(<<Get(<<"v3", "companies", "company", "devices">>, 31),
              Get(<<"devices", "device_id">>, 20)>>)
Files == {[state |-> "missing", items |-> <<>>], Ok(<<>>), Unit, Mixed, Other}

\* One day, with the quota in proportion: an hour, the shortest interval for
\* thirty devices that is accepted, one that is not, and one with location
MonthChoices == {Opt(3600, 3600, 30, FALSE, TRUE), Opt(3600, 1020, 30, FALSE, FALSE),
                 Opt(3600, 600, 30, FALSE, TRUE), Opt(3600, 1800, 20, TRUE, FALSE)}

\* Twenty devices with their location
QuotaChoices == {Opt(3600, 900, 20, TRUE, FALSE)}
===============================================================================
