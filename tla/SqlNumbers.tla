----------------------------- MODULE SqlNumbers -----------------------------
(***************************************************************************)
(* The way of a number between a column and the program: what the MySQL     *)
(* driver stores for a row, what its getters read, what its setters send    *)
(* (src/src/db_mysql.c). db_service.c moves two numbers: the id of a row,   *)
(* read by getInt() and sent by setInt(), and the bytes of a connection.    *)
(* An int has Width bits here, a short half and a bigint twice as many.     *)
(***************************************************************************)
EXTENDS Integers

CONSTANT Width

WidthAssumption == Width \in Nat /\ Width > 1

VARIABLES
    type,   \* of the column, as internal_fetch_result() binds it
    value,  \* of the column in the present row, or NullValue
    data,   \* the union of the column: is_null, and its bits as an unsigned bigint
    bytes   \* received on a connection

vars == <<type, value, data, bytes>>

Half == Width \div 2
Big  == 2 * Width

Pow2[n \in 0 .. Big] == IF n = 0 THEN 1 ELSE 2 * Pow2[n - 1]    \* the powers of two

Ints(w)  == -Pow2[w - 1] .. Pow2[w - 1] - 1
uInts(w) == 0 .. Pow2[w] - 1
Signed(bits, w) == LET u == bits % Pow2[w] IN IF u < Pow2[w - 1] THEN u ELSE u - Pow2[w]

NullValue == Pow2[Big]    \* no number of a column

\* The union is zero when it is allocated.
Init ==
    /\ type \in {"long", "longlong", "string"}
    /\ value = NullValue
    /\ data = [null |-> TRUE, bits |-> 0]
    /\ bytes = 0

\* A column that is NULL sets is_null and leaves the union as it is; a number goes to int_data
\* or int64_data; a string has no buffer here.
Stored(v) ==
    IF v = NullValue THEN [data EXCEPT !.null = TRUE] ELSE
    CASE type = "long"     -> [null |-> FALSE,
                               bits |-> data.bits - (data.bits % Pow2[Width]) + (v % Pow2[Width])]
      [] type = "longlong" -> [null |-> FALSE, bits |-> v % Pow2[Big]]
      [] type = "string"   -> [data EXCEPT !.null = FALSE]

ResultNext(v) ==
    /\ value' = v
    /\ data' = Stored(v)
    /\ UNCHANGED <<type, bytes>>

\* The getters
GetInt_Stale  == Signed(data.bits, Width)
GetInt        == IF data.null THEN 0 ELSE Signed(data.bits, Width)
GetShort      == IF data.null THEN 0 ELSE Signed(data.bits, Half)
GetuInt       == IF data.null THEN 0 ELSE data.bits % Pow2[Width]
GetuBigint    == IF data.null THEN 0 ELSE data.bits
GetBigint_Int == IF data.null THEN 0 ELSE Signed(data.bits, Width)
GetBigint     == IF data.null THEN 0 ELSE Signed(data.bits, Big)

\* The setters: what the server receives when x is passed as the C type of the parameter.
SetShort_Unsigned(x) == x % Pow2[Half]
SetShort(x)   == Signed(x, Half)
SetInt(x)     == Signed(x, Width)
SetuInt(x)    == x % Pow2[Width]
SetBigint(x)  == Signed(x, Big)
SetuBigint(x) == x % Pow2[Big]

\* The id of a row: getInt() in connection_established(), setInt() in connection_close().
IdSentBack == SetInt(GetInt)

MaxBytes == Pow2[Width]    \* bound on the bytes: past what an int holds

\* connection_close() passes the bytes, a ssize_t, to setInt().
BytesSent == SetInt(bytes)

Receive(n) ==
    /\ bytes + n <= MaxBytes
    /\ bytes' = bytes + n
    /\ UNCHANGED <<type, value, data>>

Next ==
    \/ \E v \in Ints(Big) \cup {NullValue} : ResultNext(v)
    \/ \E n \in 1 .. 3 : Receive(n)

Spec == Init /\ [][Next]_vars

-----------------------------------------------------------------------------
(* Properties                                                               *)

TypeOK ==
    /\ type \in {"long", "longlong", "string"}
    /\ value \in Ints(Big) \cup {NullValue}
    /\ data \in [null : BOOLEAN, bits : uInts(Big)]
    /\ bytes \in 0 .. MaxBytes

\* The value of the row is a number its column can have.
Number == value # NullValue /\ (type = "longlong" \/ (type = "long" /\ value \in Ints(Width)))

\* A column that is NULL reads as 0, never as the number of an earlier row, which is still in
\* the union.
NullReadsZero == value = NullValue => {GetInt, GetShort, GetuInt, GetBigint, GetuBigint} = {0}

\* Each getter returns a number that its C type can hold as it is in the column, whichever
\* width the column was bound with - but a negative number of an int column is read by
\* getBigint() without its sign.
GettersExact ==
    Number => /\ value \in Ints(Width)  => GetInt = value
              /\ value \in Ints(Half)   => GetShort = value
              /\ value \in uInts(Width) => GetuInt = value
              /\ value >= 0             => GetuBigint = value
              /\ GetBigint = IF type = "long" THEN value % Pow2[Width] ELSE value

\* Each setter sends a number its C type can hold unchanged, in particular the id of a row that
\* getInt() could read; one that it could not is sent back as the id of another row. The bytes of
\* a connection are stored right as long as an int can hold their number, and no longer.
SettersExact ==
    /\ (BytesSent = bytes) <=> (bytes \in Ints(Width))
    /\ Number => /\ value \in Ints(Half) => SetShort(value) = value
                 /\ (IdSentBack = value) <=> (value \in Ints(Width))
                 /\ value \in uInts(Width) => SetuInt(value) = value
                 /\ SetBigint(value) = value
                 /\ value >= 0 => SetuBigint(value) = value
=============================================================================
