------------------------------ MODULE ScriptVM ------------------------------
(* The two script interpreters, ScriptEngine.execute (legacy and P2SH) and   *)
(* execute_tapscript (taproot script path), reading the same script byte by  *)
(* byte.  Neither ever moves backwards in the script, so the bytes are fed   *)
(* one at a time; a push is a run of bytes and an item a sequence of bytes.  *)
EXTENDS Integers, Sequences, SequencesExt, FiniteSetsExt

CONSTANTS FlagSets,         \* sets of the verification flags that are enabled
          InitialStacks,    \* items left by the scriptSig or the witness
          ValidSig,         \* <<signature, key>> pairs that verify
          LockTime, Sequence,   \* of the spending transaction and input
          MaxItems,         \* MAX_STACK_ITEMS, MAX_TAPSCRIPT_STACK_ITEMS
          MaxElement,       \* MAX_SCRIPT_ELEMENT_SIZE
          MaxOps,           \* MAX_OPS_PER_SCRIPT
          MaxScript         \* bound on the length of a script

VARIABLES flags,    \* the flags of this execution
          fed,      \* bytes read so far
          legacy,   \* the state of ScriptEngine.execute
          tap,      \* the state of execute_tapscript
          arms      \* the conditionals that are open, as a reader counts them

scriptVars == <<flags, fed, legacy, tap, arms>>

Flag(f) == f \in flags

-----------------------------------------------------------------------------
(* Numbers and truth values                                                  *)

\* A zero of any length, also the negative one, is false.
CastToBool(d) ==
    \E i \in 1..Len(d) : d[i] # 0 /\ ~(i = Len(d) /\ d[i] = 128)

LittleEndian(d) == FoldLeftDomain(LAMBDA n, i : n + d[i] * 256^(i - 1), 0, d)

CastToInt(d) ==
    IF d = <<>> THEN 0
    ELSE IF Last(d) >= 128 THEN -LittleEndian([d EXCEPT ![Len(d)] = @ - 128])
    ELSE LittleEndian(d)

Digits(a) ==
    LET k == CHOOSE k \in 1..3 : a < 256^k /\ a >= 256^(k - 1)
    IN  [i \in 1..k |-> (a \div 256^(i - 1)) % 256]

\* Sign and magnitude; a byte is added when the sign bit is taken.  The
\* numbers of the model fit in three bytes.
EncodeScriptNum(v) ==
    IF v = 0 THEN <<>>
    ELSE LET d == Digits(IF v < 0 THEN -v ELSE v)
         IN  IF Last(d) >= 128 THEN Append(d, IF v < 0 THEN 128 ELSE 0)
             ELSE IF v < 0 THEN [d EXCEPT ![Len(d)] = @ + 128]
             ELSE d

True == <<1>>
False == <<>>
Bool(b) == IF b THEN True ELSE False

-----------------------------------------------------------------------------
(* The machine                                                               *)

Start(stack) ==
    [mode |-> "op",          \* "op", "length", "data" or "skip"
     want |-> 0, buf |-> <<>>,   \* what a push still has to read
     stack |-> stack, alt |-> <<>>, conds |-> <<>>, depth |-> 0, ops |-> 0,
     res |-> IF Len(stack) > MaxItems \/ \E i \in 1..Len(stack) : Len(stack[i]) > MaxElement
             THEN "refused" ELSE "running"]

\* An oversized element of the initial stack is refused by both, too many
\* elements by tapscript only.
StartLegacy(stack) ==
    [Start(stack) EXCEPT !.res = IF \E i \in 1..Len(stack) : Len(stack[i]) > MaxElement
                                 THEN "refused" ELSE "running"]

Refuse(vm) == [vm EXCEPT !.res = "refused"]
Check(ok, vm) == IF ok THEN vm ELSE Refuse(vm)

Top(s, i) == s[Len(s) + 1 - i]
Below(s, n) == SubSeq(s, 1, Len(s) - n)
PushItem(vm, d) == [vm EXCEPT !.stack = Append(@, d)]
Need(vm, n, then) == IF Len(vm.stack) >= n THEN then ELSE Refuse(vm)
Replace(vm, n, items) == [vm EXCEPT !.stack = Below(@, n) \o items]

\* Opcode bytes
OpIf == 99
OpNotIf == 100
OpElse == 103
OpEndIf == 104

\* The operations that only copy, drop and reorder: how many items they take
\* and what they leave, as positions from the top, bottom first.  OP_2ROT and
\* OP_2SWAP push the items back in the order they were popped.
Rearrange ==
    [op \in 109..114 \cup 117..120 \cup 123..125 |->
        CASE op = 109 -> <<2, <<>>>>                 [] op = 110 -> <<2, <<2, 1, 2, 1>>>>
          [] op = 111 -> <<3, <<3, 2, 1, 3, 2, 1>>>> [] op = 112 -> <<4, <<4, 3, 2, 1, 4, 3>>>>
          [] op = 113 -> <<6, <<1, 2, 3, 4, 5, 6>>>> [] op = 114 -> <<4, <<1, 2, 3, 4>>>>
          [] op = 117 -> <<1, <<>>>>                 [] op = 118 -> <<1, <<1, 1>>>>
          [] op = 119 -> <<2, <<1>>>>                [] op = 120 -> <<2, <<2, 1, 2>>>>
          [] op = 123 -> <<3, <<2, 1, 3>>>>          [] op = 124 -> <<2, <<1, 2>>>>
          [] op = 125 -> <<2, <<1, 2, 1>>>>]

Rearranged(vm, op) ==
    LET n == Rearrange[op][1]  at == Rearrange[op][2]
    IN  Need(vm, n, Replace(vm, n, [i \in 1..Len(at) |-> Top(vm.stack, at[i])]))

ToAlt(vm) ==
    Need(vm, 1, [vm EXCEPT !.stack = Front(@), !.alt = Append(@, Last(vm.stack))])

FromAlt(vm) ==
    IF vm.alt = <<>> THEN Refuse(vm)
    ELSE [vm EXCEPT !.alt = Front(@), !.stack = Append(@, Last(vm.alt))]

\* The item n below the top, after n is popped; moved there or copied there.
PickOrRoll(vm, move) ==
    Need(vm, 1,
        LET n == CastToInt(Last(vm.stack))
            s == Front(vm.stack)
            at == Len(s) - n
        IN  IF n < 0 \/ n >= Len(s) THEN Refuse(vm)
            ELSE [vm EXCEPT !.stack =
                    (IF move THEN RemoveAt(s, at) ELSE s) \o <<s[at]>>])

\* A hash is an injective map that no item of a script collides with.
Hash(op, d) == <<op>> \o d

HashTop(vm, op) == Need(vm, 1, Replace(vm, 1, <<Hash(op, Last(vm.stack))>>))

Equal(vm) == Need(vm, 2, Replace(vm, 2, <<Bool(Top(vm.stack, 1) = Top(vm.stack, 2))>>))

\* OP_VERIFY, and the VERIFY half of the operations that have one.
Verify(vm) ==
    IF vm.res # "running" THEN vm
    ELSE Need(vm, 1, Check(CastToBool(Last(vm.stack)), Replace(vm, 1, <<>>)))

\* The flags MINIMALIF and the value that opens an arm.
Condition(vm, op) == CastToBool(Last(vm.stack)) = (op = OpIf)
MinimalIf(vm) == Flag("MINIMALIF") => Last(vm.stack) \in {True, False}

-----------------------------------------------------------------------------
(* Signatures                                                                *)

\* check_signature answers FALSE to an empty signature or key.
GoodSig == {p \in ValidSig : p[1] # <<>> /\ p[2] # <<>>}
SigOK(sig, key) == <<sig, key>> \in GoodSig

FaultCheckMultisig(sigs, keys, good) ==
    \A i \in 1..Len(sigs) : \E j \in 1..Len(keys) : <<sigs[i], keys[j]>> \in good

\* SignatureChecker.check_multisig: one pass over the keys, the next signature
\* is tried only once the one before it has found its key.
CheckMultisig(sigs, keys, good) ==
    FoldLeft(LAMBDA n, k : IF n < Len(sigs) /\ <<sigs[n + 1], k>> \in good THEN n + 1 ELSE n,
             0, keys) = Len(sigs)

\* _op_checksig
CheckSig(vm) ==
    Need(vm, 2,
        LET key == Top(vm.stack, 1)  sig == Top(vm.stack, 2)
        IN  IF ~SigOK(sig, key) /\ Flag("NULLFAIL") /\ sig # <<>> THEN Refuse(vm)
            ELSE Replace(vm, 2, <<Bool(SigOK(sig, key))>>))

\* What Stack.pop and then _cast_to_int make of an empty stack.
IntAt(s, i) == IF Len(s) < i THEN 0 ELSE CastToInt(Top(s, i))

\* _op_checkmultisig
CheckMultisigOp(vm) ==
    LET s     == vm.stack
        n     == IntAt(s, 1)
        m     == IntAt(s, n + 2)
        dummy == n + m + 3
    IN  IF \/ n \notin 0..20 \/ (n > 0 /\ Len(s) < n + 1)
           \/ m \notin 0..n \/ (m > 0 /\ Len(s) < n + m + 2)
           \/ Flag("NULLDUMMY") /\ dummy <= Len(s) /\ Top(s, dummy) # <<>>
        THEN Refuse(vm)
        ELSE Replace(vm, Min({dummy, Len(s)}),
                <<Bool(CheckMultisig([i \in 1..m |-> Top(s, n + 2 + i)],
                                     [i \in 1..n |-> Top(s, 1 + i)], GoodSig))>>)

-----------------------------------------------------------------------------
(* Pushes: the same bytes for both interpreters                              *)

\* A push whose length bytes are still to be read, or whose data are.
LengthOf(op) == CASE op = 76 -> 1 [] op = 77 -> 2 [] op = 78 -> 4

\* What a finished push does: tapscript drops it in an arm that is not taken.
Executing(vm) == \A i \in 1..Len(vm.conds) : vm.conds[i]

Pushed(vm, d, tapscript) ==
    IF tapscript /\ ~Executing(vm) THEN vm ELSE Check(Len(d) <= MaxElement, PushItem(vm, d))

StartData(vm, n, tapscript) ==
    IF n = 0 THEN Pushed([vm EXCEPT !.mode = "op", !.want = 0, !.buf = <<>>], <<>>, tapscript)
    ELSE [vm EXCEPT !.mode = "data", !.want = n, !.buf = <<>>]

StartLength(vm, op) == [vm EXCEPT !.mode = "length", !.want = LengthOf(op), !.buf = <<>>]

\* One byte of a length or of the data.
ReadOn(vm, b, tapscript) ==
    LET got == Append(vm.buf, b)
    IN  IF Len(got) < vm.want THEN [vm EXCEPT !.buf = got]
        ELSE IF vm.mode = "length" THEN StartData(vm, LittleEndian(got), tapscript)
        ELSE Pushed([vm EXCEPT !.mode = "op", !.want = 0, !.buf = <<>>], got, tapscript)

-----------------------------------------------------------------------------
(* ScriptEngine                                                              *)

\* OP_IF, OP_NOTIF, OP_ELSE: an arm that is not taken is skipped byte by byte.
OpenArm(vm, op) ==
    Need(vm, 1,
        IF ~MinimalIf(vm) THEN Refuse(vm)
        ELSE LET c == Condition(vm, op)
             IN  [Replace(vm, 1, <<>>) EXCEPT
                    !.conds = Append(@, c),
                    !.mode = IF c THEN "op" ELSE "skip", !.depth = IF c THEN 0 ELSE 1])

ElseArm(vm) ==
    IF vm.conds = <<>> THEN Refuse(vm)
    ELSE [vm EXCEPT !.conds[Len(vm.conds)] = ~@,
                    !.mode = IF Last(vm.conds) THEN "skip" ELSE "op",
                    !.depth = IF Last(vm.conds) THEN 1 ELSE 0]

CloseArm(vm) == IF vm.conds = <<>> THEN Refuse(vm) ELSE [vm EXCEPT !.conds = Front(@)]

FaultSkipToEndIf(vm, b) ==
    IF b \in {OpElse, OpEndIf} THEN [vm EXCEPT !.mode = "op", !.depth = 0] ELSE vm

\* _skip_to_endif: the byte that ends the skip is consumed, nothing is popped
\* from if_stack, and the bytes of a push count like opcodes.
SkipToEndIf(vm, b) ==
    CASE b \in {OpIf, OpNotIf}            -> [vm EXCEPT !.depth = @ + 1]
      [] b = OpElse /\ vm.depth = 1       -> [vm EXCEPT !.mode = "op", !.depth = 0]
      [] b = OpEndIf                       -> [vm EXCEPT !.depth = @ - 1,
                                                 !.mode = IF vm.depth = 1 THEN "op" ELSE "skip"]
      [] OTHER                             -> vm

\* OP_CHECKLOCKTIMEVERIFY and OP_CHECKSEQUENCEVERIFY leave the stack alone.
AtLeast(vm, flag, actual) ==
    IF ~Flag(flag) THEN vm
    ELSE Need(vm, 1, Check(CastToInt(Last(vm.stack)) \in 0..actual, vm))

IfDup(vm) == IF CastToBool(Last(vm.stack)) THEN PushItem(vm, Last(vm.stack)) ELSE vm

\* _execute_opcode.  OP_IFDUP does nothing on an empty stack.  _op_checksig and
\* _op_checkmultisig never return False, so their VERIFY forms leave the result
\* on the stack and fail on nothing.
ExecuteOpcode(vm, op) ==
    CASE op = 97                       -> vm
      [] op \in {OpIf, OpNotIf}        -> OpenArm(vm, op)
      [] op = OpElse                   -> ElseArm(vm)
      [] op = OpEndIf                  -> CloseArm(vm)
      [] op = 105                      -> Verify(vm)
      [] op = 107                      -> ToAlt(vm)
      [] op = 108                      -> FromAlt(vm)
      [] op \in DOMAIN Rearrange       -> Rearranged(vm, op)
      [] op = 115                      -> IF vm.stack = <<>> THEN vm ELSE IfDup(vm)
      [] op = 116                      -> PushItem(vm, EncodeScriptNum(Len(vm.stack)))
      [] op \in {121, 122}             -> PickOrRoll(vm, op = 122)
      [] op = 130                      -> Need(vm, 1, PushItem(vm, EncodeScriptNum(Len(Last(vm.stack)))))
      [] op = 135                      -> Equal(vm)
      [] op = 136                      -> Verify(Equal(vm))
      [] op \in 166..170               -> HashTop(vm, op)
      [] op \in {172, 173}             -> CheckSig(vm)
      [] op \in {174, 175}             -> CheckMultisigOp(vm)
      [] op = 177                      -> AtLeast(vm, "CLTV", LockTime)
      [] op = 178                      -> AtLeast(vm, "CSV", Sequence)
      [] op \in {176} \cup 179..185    -> Check(~Flag("DISCOURAGE_NOPS"), vm)
      [] OTHER                         -> Refuse(vm)

WithinLimits(vm) ==
    /\ Len(vm.stack) + Len(vm.alt) <= MaxItems
    /\ \A i \in 1..Len(vm.stack) : Len(vm.stack[i]) <= MaxElement

\* One turn of execute's loop, or a byte of the push or skip it is in.  Bytes
\* that are no Opcode raise; OP_RESERVED (80) is taken for a push of nothing.
LegacyReads(vm, b) ==
    IF vm.res # "running" THEN vm
    ELSE IF vm.mode \in {"length", "data"} THEN ReadOn(vm, b, FALSE)
    ELSE IF vm.mode = "skip" THEN SkipToEndIf(vm, b)
    ELSE CASE b \in 76..78           -> StartLength(vm, b)
           [] b \in {0, 80}          -> PushItem(vm, <<>>)
           [] b = 79                 -> PushItem(vm, <<129>>)
           [] b \in 81..96           -> PushItem(vm, <<b - 80>>)
           [] b \in 1..75 \/ b > 187 -> Refuse(vm)
           [] OTHER                  ->
                LET done == ExecuteOpcode([vm EXCEPT !.ops = @ + 1], b)
                IN  IF vm.ops = MaxOps THEN Refuse(vm)
                    ELSE IF done.res = "running" THEN Check(WithinLimits(done), done) ELSE done

\* The end of execute: the verdict.
LegacyEnds(vm) ==
    [vm EXCEPT !.res =
        IF vm.res # "running" THEN vm.res
        ELSE IF vm.mode \in {"length", "data"} THEN "refused"
        ELSE IF vm.conds # <<>> THEN "unbalanced"
        ELSE IF Flag("CLEANSTACK") /\ Len(vm.stack) # 1 THEN "refused"
        ELSE IF vm.stack # <<>> /\ CastToBool(Last(vm.stack)) THEN "accepted"
        ELSE "refused"]

-----------------------------------------------------------------------------
(* execute_tapscript                                                         *)

OpSuccess == {80, 98} \cup 126..129 \cup 131..134 \cup {137, 138, 141, 142}
             \cup 149..153 \cup 187..254

FaultTapIf(vm, op) ==
    IF ~Executing(vm) THEN vm
    ELSE Need(vm, 1,
            IF ~MinimalIf(vm) THEN Refuse(vm)
            ELSE [Replace(vm, 1, <<>>) EXCEPT !.conds = Append(@, Condition(vm, op))])

\* Conditionals are followed in arms that are not taken, too.
TapIf(vm, op) ==
    IF ~Executing(vm) THEN [vm EXCEPT !.conds = Append(@, FALSE)]
    ELSE Need(vm, 1,
            IF ~MinimalIf(vm) THEN Refuse(vm)
            ELSE [Replace(vm, 1, <<>>) EXCEPT !.conds = Append(@, Condition(vm, op))])

TapElse(vm) ==
    IF vm.conds = <<>> THEN Refuse(vm)
    ELSE [vm EXCEPT !.conds[Len(vm.conds)] =
            ~@ /\ \A i \in 1..(Len(vm.conds) - 1) : vm.conds[i]]

\* check_schnorr_signature on the top two items.
Schnorr(vm) == Need(vm, 2, Replace(vm, 2, <<Bool(SigOK(Top(vm.stack, 2), Top(vm.stack, 1)))>>))

CheckSigAdd(vm) ==
    Need(vm, 3,
        IF Len(Top(vm.stack, 2)) > 4 THEN Refuse(vm)
        ELSE Replace(vm, 3, <<EncodeScriptNum(CastToInt(Top(vm.stack, 2)) +
                        (IF SigOK(Top(vm.stack, 3), Top(vm.stack, 1)) THEN 1 ELSE 0))>>))

\* _decode_script_num refuses what is longer than four bytes.
Arithmetic(vm, op) ==
    LET n == IF op \in {145, 146} THEN 1 ELSE 2
        a == CastToInt(Top(vm.stack, 1))
        b == CastToInt(Top(vm.stack, 2))
    IN  Need(vm, n,
            IF \E i \in 1..n : Len(Top(vm.stack, i)) > 4 THEN Refuse(vm)
            ELSE Replace(vm, n,
                <<CASE op = 145 -> Bool(a = 0)            [] op = 146 -> Bool(a # 0)
                    [] op = 147 -> EncodeScriptNum(b + a) [] op = 148 -> EncodeScriptNum(b - a)
                    [] op = 154 -> Bool(a # 0 /\ b # 0)   [] op = 155 -> Bool(a # 0 \/ b # 0)
                    [] op \in {156, 157} -> Bool(a = b)>>))

TapOpcode(vm, op) ==
    CASE op = 97 \/ op \in 176..185 \/ op = 171 -> vm
      [] op = 107                     -> ToAlt(vm)
      [] op = 108                     -> FromAlt(vm)
      [] op \in DOMAIN Rearrange \ {111, 112, 113, 114, 123} -> Rearranged(vm, op)
      [] op = 115                     -> Need(vm, 1, IfDup(vm))
      [] op = 116                     -> PushItem(vm, EncodeScriptNum(Len(vm.stack)))
      [] op = 130                     -> Need(vm, 1, PushItem(vm, EncodeScriptNum(Len(Last(vm.stack)))))
      [] op = 135                     -> Equal(vm)
      [] op = 136                     -> Verify(Equal(vm))
      [] op = 105                     -> Verify(vm)
      [] op \in 167..170              -> HashTop(vm, op)
      [] op = 172                     -> Schnorr(vm)
      [] op = 173                     -> Verify(Schnorr(vm))
      [] op = 186                     -> CheckSigAdd(vm)
      [] op \in {145, 146, 147, 148, 154, 155, 156} -> Arithmetic(vm, op)
      [] op = 157                     -> Verify(Arithmetic(vm, op))
      [] OTHER                        -> Refuse(vm)

TapWithinLimits(vm) ==
    WithinLimits(vm) /\ \A i \in 1..Len(vm.alt) : Len(vm.alt[i]) <= MaxElement

\* One turn of execute_tapscript's loop, or a byte of the push it is in.
TapReads(vm, b) ==
    IF vm.res # "running" THEN vm
    ELSE IF vm.mode # "op" THEN ReadOn(vm, b, TRUE)
    ELSE IF ~TapWithinLimits(vm) THEN Refuse(vm)
    ELSE CASE b <= 75               -> StartData(vm, b, TRUE)
           [] b \in 76..78          -> StartLength(vm, b)
           [] b \in 81..96          -> Pushed(vm, <<b - 80>>, TRUE)
           [] b \in {OpIf, OpNotIf} -> TapIf(vm, b)
           [] b = OpElse            -> TapElse(vm)
           [] b = OpEndIf           -> CloseArm(vm)
           [] OTHER                 ->
                IF ~Executing(vm) THEN vm
                ELSE IF b \in OpSuccess THEN [vm EXCEPT !.res = "success"]
                ELSE IF vm.ops = MaxOps THEN Refuse(vm)
                ELSE TapOpcode([vm EXCEPT !.ops = @ + 1], b)

TapEnds(vm) ==
    [vm EXCEPT !.res =
        IF vm.res # "running" THEN vm.res
        ELSE IF vm.mode # "op" \/ vm.conds # <<>> \/ vm.stack = <<>> THEN "refused"
        ELSE IF ~TapWithinLimits(vm) THEN "refused"
        ELSE IF CastToBool(Last(vm.stack)) THEN "accepted"
        ELSE "refused"]

-----------------------------------------------------------------------------
(* Both interpreters on one script, and how a reader counts its conditionals *)

ScriptInit ==
    /\ flags \in FlagSets
    /\ fed = 0
    /\ \E s \in InitialStacks : legacy = StartLegacy(s) /\ tap = Start(s)
    /\ arms = [open |-> <<>>, aligned |-> TRUE]

Taken(open) == \A i \in 1..Len(open) : open[i].taken

\* The open conditionals after byte b: is the arm the taken one, and how many
\* OP_ELSE it has had.
Counted(open, b) ==
    IF tap.mode # "op" THEN open
    ELSE CASE b \in {OpIf, OpNotIf}      ->
                Append(open, [taken |-> Taken(open) /\ tap.stack # <<>> /\ Condition(tap, b),
                              elses |-> 0])
           [] b = OpElse /\ open # <<>>  ->
                [open EXCEPT ![Len(open)] = [taken |-> ~@.taken, elses |-> @.elses + 1]]
           [] b = OpEndIf /\ open # <<>> -> Front(open)
           [] OTHER                      -> open

\* What takes the legacy engine off the reading of the other: an OP_ENDIF that
\* a skip consumes, a second OP_ELSE, a push in a skipped arm whose data look
\* like a conditional, and the VERIFY forms that leave their result.
Strays(b) ==
    \/ legacy.mode = "skip" /\ b = OpEndIf /\ legacy.depth = 1
    \/ legacy.mode = "skip" /\ tap.mode # "op" /\ b \in {OpIf, OpNotIf, OpElse, OpEndIf}
    \/ tap.mode = "op" /\ b = OpElse /\ arms.open # <<>> /\ Last(arms.open).elses = 1
    \/ legacy.mode = "op" /\ b \in {173, 175}

\* The next byte of the script.
Feed(b) ==
    /\ fed < MaxScript
    /\ "running" \in {legacy.res, tap.res}
    /\ fed' = fed + 1
    /\ legacy' = LegacyReads(legacy, b)
    /\ tap' = TapReads(tap, b)
    /\ arms' = [open |-> Counted(arms.open, b),
                aligned |-> arms.aligned /\ ~Strays(b)]
    /\ UNCHANGED flags

\* The script ends here.
EndScript ==
    /\ "running" \in {legacy.res, tap.res}
    /\ legacy' = LegacyEnds(legacy)
    /\ tap' = TapEnds(tap)
    /\ UNCHANGED <<flags, fed, arms>>

ScriptNext(bytes) == EndScript \/ \E b \in bytes : Feed(b)

\* Any script: any bytes in any order.
ScriptSpec == ScriptInit /\ [][ScriptNext(0..255)]_scriptVars

-----------------------------------------------------------------------------
(* Properties                                                                *)

\* execute_tapscript executes exactly in the arms that are taken, however
\* deeply they are nested and whatever lies in the arms that are not.
ExecutesOwnArms ==
    tap.res = "running" => /\ Executing(tap) = Taken(arms.open)
                           /\ Len(tap.conds) = Len(arms.open)

\* As long as the script stays off what the legacy engine reads differently,
\* the two interpreters hold the same items and skip the same bytes.
LockStep ==
    legacy.res = "running" /\ tap.res = "running" /\ arms.aligned =>
        /\ legacy.stack = tap.stack /\ legacy.alt = tap.alt
        /\ (legacy.mode = "skip") = ~Executing(tap)
        /\ Len(tap.conds) = Len(legacy.conds) +
                            (IF legacy.mode = "skip" THEN legacy.depth - 1 ELSE 0)

\* A tapscript accepted at its end has closed its conditionals, leaves a true
\* item and is within the limits also after its last operation.
AcceptedIsClean ==
    tap.res = "accepted" =>
        /\ arms.open = <<>>
        /\ tap.stack # <<>> /\ CastToBool(Last(tap.stack))
        /\ Len(tap.stack) + Len(tap.alt) <= MaxItems
        /\ \A i \in 1..Len(tap.stack) : Len(tap.stack[i]) <= MaxElement
        /\ \A i \in 1..Len(tap.alt) : Len(tap.alt[i]) <= MaxElement

RoundTrips ==
    \A v \in -600..600 :
        LET d == EncodeScriptNum(v)
        IN  /\ CastToInt(d) = v
            /\ CastToBool(d) = (v # 0)
            /\ d # <<>> => CastToInt(Front(d)) # v

\* _encode_script_num and _cast_to_int are inverse, the encoding is minimal and
\* a number is true exactly when it is not zero.  (Evaluated before the first
\* byte only.)
NumbersSurvive == fed = 0 => RoundTrips

InOrderOnly ==
    \A good \in SUBSET ((1..2) \X (1..3)) :
        CheckMultisig(<<1, 2>>, <<1, 2, 3>>, good)
        = (\E i, j \in 1..3 : i < j /\ <<1, i>> \in good /\ <<2, j>> \in good)

\* check_multisig's single pass accepts exactly when every signature can be
\* given a key of its own in the order of the keys.
MultisigExact == fed = 0 => InOrderOnly

\* execute_tapscript runs what it should run and accepts what it should.
TapscriptSound == ExecutesOwnArms /\ AcceptedIsClean

\* The encodings and the signature matching that both engines are built on
\* agree with their definitions.
PrimitivesExact == NumbersSurvive /\ MultisigExact
=============================================================================
