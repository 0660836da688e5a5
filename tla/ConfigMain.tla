------------------------------ MODULE ConfigMain ------------------------------
(***************************************************************************)
(* ConfigMain (src/libdnf/conf/config_main.cpp): the option values whose   *)
(* string conversion lives in this file, and the variable map filled by    *)
(* add_vars_from_dir and add_vars_from_env.                                *)
(*                                                                         *)
(* Strings are sequences of one-character strings.  The five characters    *)
(* "glob:" are one element GLOB: resolve_globs only ever compares them at  *)
(* a token start and skips them together.    Files and directories are      *)
(* given by constants: what glob() returns for a pattern, which paths are  *)
(* directories (GLOB_MARK gives them a trailing '/'), which cannot be     *)
(* opened, and the lines of the others.                                    *)
(***************************************************************************)
EXTENDS Integers, SequencesExt

CONSTANTS
  Priorities,      \* Option::Priority values a caller passes
  DEFAULT,         \* Option::Priority::DEFAULT, the priority of a default
  OptionStrings,   \* strings a config file or the command line gives
  DefaultProtected,\* the default of protected_packages, "dnf glob:..."
  GlobMatch,       \* GlobMatch[pattern]: the paths glob() returns, in order
  Dirs,            \* paths that are directories
  Unreadable,      \* paths std::ifstream cannot open
  FileLines,       \* FileLines[path]: the lines of a readable file
  VarDirPaths,     \* directories add_vars_from_dir is called with
  VarDirs,         \* VarDirs[dir]: the entries readdir returns, each
                   \* [dname, opens (ifstream opens it), lines]
  Envs,            \* environments: sequences of "NAME=value" strings
  BytesStrings,    \* strings given to the options parsed by str_to_bytes
  ThrottleStrings, \* strings given to throttle
  LimitStrings     \* strings given to installonly_limit

GLOB == "glob:"              \* one element for the five characters
Delims == {" ", ",", "\n"}   \* find_first_of(" ,\n")
Blank == {" ", "\t", "\r"}   \* find_first_not_of(" \t\r")
NPOS == -1
BytesOptions == {"log_size", "bandwidth", "minrate"}
OptionDefault == [o \in BytesOptions |->
                   CASE o = "log_size" -> 1024 * 1024 [] o = "bandwidth" -> 0
                     [] o = "minrate" -> 1000]

VARIABLES
  protected_packages, \* [priority |-> p, value |-> the resolved string]
  protectedSrc,       \* the string the value was resolved from (ghost)
  vars_map,           \* std::map<std::string, std::string>
  documentedVars,     \* vars_map as the comments say it should be (ghost)
  options,            \* log_size (int32), bandwidth and minrate (uint32),
                      \* each as the int str_to_bytes returned: the uint32
                      \* is that int's 32-bit pattern
  bytesSrc,           \* the string an option was last set from, <<>> for
                      \* the default (ghost)
  throttle,           \* the float, as a fraction [num, den]
  installonly_limit   \* the uint32, as its 32-bit pattern

bytesVars == <<options, bytesSrc>>
numVars == <<throttle, installonly_limit>>
vars == <<protected_packages, protectedSrc, vars_map, documentedVars, bytesVars,
          numVars>>

(***************************************************************************)
(* resolve_globs and the file readers.  A result is the text written to    *)
(* the ostringstream and whether a runtime_error was thrown.               *)
(***************************************************************************)

\* the first index >= start of a delimiter, 0-based, or npos
find_first_of(s, start) ==
  LET I == {i \in start..Len(s) - 1 : s[i + 1] \in Delims}
  IN IF I = {} THEN NPOS ELSE Min(I)

FileLineText(line) ==
  LET NonBlank == {i \in DOMAIN line : line[i] \notin Blank}
  IN IF NonBlank = {} \/ line[Min(NonBlank)] = "#" THEN <<>>
     ELSE SubSeq(line, Min(NonBlank), Max(NonBlank)) \o <<" ">>

add_from_file(path) == FlattenSeq([i \in DOMAIN FileLines[path] |->
                                     FileLineText(FileLines[path][i])])

\* one path of the glob: directories (marked with '/') are skipped, a path
\* that cannot be opened throws and ends resolve_globs
AddPath(acc, path) ==
  CASE acc.thrown \/ path \in Dirs -> acc
    [] path \in Unreadable         -> [acc EXCEPT !.thrown = TRUE]
    [] OTHER                       -> [acc EXCEPT !.out = @ \o add_from_file(path)]

add_from_files(acc, pattern) == FoldLeft(AddPath, acc, GlobMatch[pattern])

Write(acc, text) == [acc EXCEPT !.out = @ \o text]

RECURSIVE ResolveFrom(_, _, _)
ResolveFrom(s, start, acc) ==
  IF start >= Len(s) \/ acc.thrown THEN acc
  ELSE
    LET end == find_first_of(s, start) IN
    IF s[start + 1] = GLOB
    THEN LET st == start + 1 IN
         CASE st >= Len(s) -> acc
           [] end = NPOS   -> add_from_files(acc, SubSeq(s, st + 1, Len(s)))
           [] OTHER        -> ResolveFrom(s, end + 1,
                                IF end - st # 0
                                THEN add_from_files(acc, SubSeq(s, st + 1, end))
                                ELSE acc)
    ELSE IF end = NPOS
         THEN Write(acc, SubSeq(s, start + 1, Len(s)))
         ELSE ResolveFrom(s, end + 1,
                IF end - start # 0
                THEN Write(acc, SubSeq(s, start + 1, end) \o <<" ">>)
                ELSE acc)

resolve_globs(s) == ResolveFrom(s, 0, [out |-> <<>>, thrown |-> FALSE])

(***************************************************************************)
(* str_to_bytes and the number options.  std::stod is modelled for the    *)
(* characters the models use: leading white space, a sign, digits and one *)
(* '.' (no exponent, hexadecimal, inf or nan).  A double is exact here:   *)
(* every value the models parse is a multiple of 1/10 far below 2^53.      *)
(***************************************************************************)

DIGIT_CHARS == <<"0", "1", "2", "3", "4", "5", "6", "7", "8", "9">>
DIGITS == Range(DIGIT_CHARS)
SPACES == {" ", "\t", "\n", "\r"}          \* isspace
INT_MAX == 2147483647
INT_MIN == -2147483647 - 1

\* the number of characters of S at s[from], s[from + 1], ... (0-based)
RECURSIVE Span(_, _, _)
Span(s, from, S) ==
  IF from < Len(s) /\ s[from + 1] \in S THEN 1 + Span(s, from + 1, S) ELSE 0

DigitsValue(ds) ==
  FoldLeft(LAMBDA a, c : 10 * a + (CHOOSE d \in 0..9 : DIGIT_CHARS[d + 1] = c), 0, ds)

\* std::stod(str, &idx): ok, the value num / scale with its sign, and idx
stod(s) ==
  LET p0 == Span(s, 0, SPACES)
      signed == p0 < Len(s) /\ s[p0 + 1] \in {"-", "+"}
      p1 == IF signed THEN p0 + 1 ELSE p0
      k1 == Span(s, p1, DIGITS)
      dot == p1 + k1 < Len(s) /\ s[p1 + k1 + 1] = "."
      k2 == IF dot THEN Span(s, p1 + k1 + 1, DIGITS) ELSE 0
  IN [ok |-> k1 + k2 > 0,
      neg |-> signed /\ s[p0 + 1] = "-",
      num |-> DigitsValue(SubSeq(s, p1 + 1, p1 + k1) \o SubSeq(s, p1 + k1 + 2, p1 + k1 + 1 + k2)),
      scale |-> 10^k2,
      idx |-> p1 + k1 + (IF dot THEN 1 + k2 ELSE 0)]

\* the unit as a power of two: log2 of 1024, 1024 * 1024, 1024 * 1024 * 1024
UnitOf(c) ==
  CASE c \in {"k", "K"} -> 10
    [] c \in {"m", "M"} -> 20
    [] c \in {"g", "G"} -> 30
    [] OTHER            -> -1          \* throws "unknown unit"

\* res = num / scale * 2^m, the number of bytes str denotes; it fits an int
\* iff trunc(res) <= INT_MAX iff num * 2^m < 2^31 * scale (TLC's integers
\* are 32 bits wide, so no value of 2^31 or more is ever computed)
Shift(str) ==
  IF stod(str).idx < Len(str) THEN UnitOf(str[Len(str)]) ELSE 0

FitsInt(str) ==
  Shift(str) = 0 \/ stod(str).num < 2^(31 - Shift(str)) * stod(str).scale

\* floor(a * 2^m / sc) for a < sc, one bit at a time so that no term
\* exceeds the result
RECURSIVE MulDiv(_, _, _)
MulDiv(a, m, sc) ==
  IF m = 0 THEN 0
  ELSE ((2 * a) \div sc) * 2^(m - 1) + MulDiv((2 * a) % sc, m - 1, sc)

\* trunc(res), for a str that fits
BytesOf(str) ==
  LET d == stod(str) IN
  (d.num \div d.scale) * 2^Shift(str) + MulDiv(d.num % d.scale, Shift(str), d.scale)

\* static_cast<int>(res) of a value past INT_MAX is undefined: x86-64
\* (cvttsd2si) yields INT_MIN, AArch64 (fcvtzs) saturates to INT_MAX
CastToInt(str) == IF FitsInt(str) THEN {BytesOf(str)} ELSE {INT_MIN, INT_MAX}

\* str_to_bytes: the exception it throws ("none" if it returns), and the
\* ints it may return
str_to_bytes(str) ==
  LET d == stod(str) IN
  CASE str = <<>>                   -> [err |-> "InvalidValue", res |-> {}]
    [] ~d.ok                        -> [err |-> "invalid_argument", res |-> {}]
    [] d.neg /\ d.num > 0           -> [err |-> "InvalidValue", res |-> {}]
    [] d.idx < Len(str) - 1         -> [err |-> "InvalidValue", res |-> {}]
    [] d.idx = Len(str) - 1 /\ UnitOf(str[Len(str)]) = -1
                                    -> [err |-> "InvalidValue", res |-> {}]
    [] OTHER                        -> [err |-> "none", res |-> CastToInt(str)]

(***************************************************************************)
(* Operations                                                              *)
(***************************************************************************)

Init ==
  /\ ~resolve_globs(DefaultProtected).thrown
  /\ protected_packages = [priority |-> DEFAULT,
                           value |-> resolve_globs(DefaultProtected).out]
  /\ protectedSrc = DefaultProtected
  /\ vars_map = <<>>
  /\ documentedVars = <<>>
  /\ options = [o \in BytesOptions |-> OptionDefault[o]]
  /\ bytesSrc = [o \in BytesOptions |-> <<>>]
  /\ throttle = [num |-> 0, den |-> 1]
  /\ installonly_limit = 3

\* the "protected_packages" binding: set only at a priority at least the
\* current one, to the resolved string; a throw from resolve_globs leaves
\* the option as it was
SetProtectedPackages(priority, value) ==
  /\ priority >= protected_packages.priority
  /\ LET resolved == resolve_globs(value) IN
       /\ ~resolved.thrown
       /\ protected_packages' = [priority |-> priority, value |-> resolved.out]
  /\ protectedSrc' = value
  /\ UNCHANGED <<vars_map, documentedVars, bytesVars, numVars>>

\* vars_map[key] = value
Assign(vm, key, value) == (key :> value) @@ vm

\* add_vars_from_dir: each entry but "." and "..", opened and read up to the
\* first newline; an entry that cannot be opened or has no line is skipped
AddVarFromEntry(vm, ent) ==
  CASE ent.dname \in {<<".">>, <<".", ".">>} -> vm
    [] ~ent.opens                          -> vm
    [] ent.lines = <<>>                    -> vm   \* getline fails
    [] OTHER                               -> Assign(vm, ent.dname, Head(ent.lines))

\* opendir fails for a path that is not a directory: nothing is added
add_vars_from_dir(dir) ==
  /\ vars_map' = IF dir \in DOMAIN VarDirs
                 THEN FoldLeft(AddVarFromEntry, vars_map, VarDirs[dir])
                 ELSE vars_map
  /\ documentedVars' = vars_map'
  /\ UNCHANGED <<protected_packages, protectedSrc, bytesVars, numVars>>

ASCII_LETTERS ==
  {"a", "b", "c", "d", "e", "f", "g", "h", "i", "j", "k", "l", "m", "n", "o",
   "p", "q", "r", "s", "t", "u", "v", "w", "x", "y", "z",
   "A", "B", "C", "D", "E", "F", "G", "H", "I", "J", "K", "L", "M", "N", "O",
   "P", "Q", "R", "S", "T", "U", "V", "W", "X", "Y", "Z"}
DNF_VAR_ == <<"D", "N", "F", "_", "V", "A", "R", "_">>

\* strspn(var + from, ASCII_LETTERS DIGITS "_")
RECURSIVE strspn(_, _)
strspn(var, from) ==
  IF from < Len(var) /\ var[from + 1] \in ASCII_LETTERS \cup DIGITS \cup {"_"}
  THEN 1 + strspn(var, from + 1) ELSE 0

\* Mutant: eql_idx >= 8 admits "DNF_VAR_=value"
AddVarFromEnvIdx8(vm, var) ==
  LET Eq == {i \in 0..Len(var) - 1 : var[i + 1] = "="}
      eql_idx == Min(Eq)
  IN CASE Eq = {} -> vm
       [] eql_idx = 4 /\ SubSeq(var, 1, 3) = <<"D", "N", "F">> /\ var[4] \in DIGITS ->
            Assign(vm, SubSeq(var, 1, 4), SubSeq(var, 6, Len(var)))
       [] eql_idx >= 8 /\ SubSeq(var, 1, 8) = DNF_VAR_
            /\ strspn(var, 8) = eql_idx - 8 ->
            Assign(vm, SubSeq(var, 9, eql_idx), SubSeq(var, eql_idx + 2, Len(var)))
       [] OTHER -> vm

\* one environ entry: DNF[0-9]=value, or DNF_VAR_name=value with the
\* prefix cut off
AddVarFromEnv(vm, var) ==
  LET Eq == {i \in 0..Len(var) - 1 : var[i + 1] = "="}
      eql_idx == Min(Eq)
  IN CASE Eq = {} -> vm
       [] eql_idx = 4 /\ SubSeq(var, 1, 3) = <<"D", "N", "F">> /\ var[4] \in DIGITS ->
            Assign(vm, SubSeq(var, 1, 4), SubSeq(var, 6, Len(var)))
       [] eql_idx > 8 /\ SubSeq(var, 1, 8) = DNF_VAR_
            /\ strspn(var, 8) = eql_idx - 8 ->
            Assign(vm, SubSeq(var, 9, eql_idx), SubSeq(var, eql_idx + 2, Len(var)))
       [] OTHER -> vm

\* an environ entry as the comments of add_vars_from_env describe it:
\* DNF[0-9]=value, or DNF_VAR_[A-Za-z0-9_]+=value with the prefix cut off
DocumentedEnvVar(vm, var) ==
  LET Names == {n \in {SubSeq(var, 1, k) : k \in 0..Len(var)} :
                  /\ var = n \o <<"=">> \o SubSeq(var, Len(n) + 2, Len(var))
                  /\ "=" \notin Range(n)}
  IN IF Names = {} THEN vm
     ELSE LET n == CHOOSE x \in Names : TRUE
              value == SubSeq(var, Len(n) + 2, Len(var))
              name == SubSeq(n, 9, Len(n))
          IN CASE Len(n) = 4 /\ SubSeq(n, 1, 3) = <<"D", "N", "F">> /\ n[4] \in DIGITS ->
                    Assign(vm, n, value)
               [] Len(n) > 8 /\ SubSeq(n, 1, 8) = DNF_VAR_
                    /\ Range(name) \subseteq ASCII_LETTERS \cup DIGITS \cup {"_"} ->
                    Assign(vm, name, value)
               [] OTHER -> vm

add_vars_from_env(env) ==
  /\ vars_map' = FoldLeft(AddVarFromEnv, vars_map, env)
  /\ documentedVars' = FoldLeft(DocumentedEnvVar, vars_map, env)
  /\ UNCHANGED <<protected_packages, protectedSrc, bytesVars, numVars>>

\* setting log_size, bandwidth or minrate from a string: fromString is
\* str_to_bytes, its int converted to the option's type (for uint32_t,
\* modulo 2^32: the same bits); an exception leaves the option as it was
SetBytesOption(o, value) ==
  LET r == str_to_bytes(value) IN
  /\ r.err = "none"
  /\ \E v \in r.res : options' = [options EXCEPT ![o] = v]
  /\ bytesSrc' = [bytesSrc EXCEPT ![o] = value]
  /\ UNCHANGED <<protected_packages, protectedSrc, vars_map, documentedVars, numVars>>

\* the throttle lambda: "N%" is stof(value, &idx) / 100 after the 0..100
\* range check, idx unused so nothing after the number is looked at; any
\* other string is str_to_bytes(value) as a float
throttle_from_string(value) ==
  IF value # <<>> /\ value[Len(value)] = "%"
  THEN LET d == stod(value) IN
       CASE ~d.ok -> [err |-> "invalid_argument", res |-> {}]
         [] (d.neg /\ d.num > 0) \/ d.num > 100 * d.scale
                  -> [err |-> "InvalidValue", res |-> {}]
         [] OTHER -> [err |-> "none",
                      res |-> {[num |-> IF d.neg THEN -d.num ELSE d.num, den |-> 100 * d.scale]}]
  ELSE LET r == str_to_bytes(value)
       IN [err |-> r.err, res |-> {[num |-> n, den |-> 1] : n \in r.res}]

\* OptionNumber<float> throttle{0, 0, ...}: the converted value, unless the
\* lambda throws or OptionNumber's minimum 0 rejects it
SetThrottle(value) ==
  LET r == throttle_from_string(value) IN
  /\ r.err = "none"
  /\ \E v \in r.res : v.num >= 0 /\ throttle' = v
  /\ UNCHANGED <<protected_packages, protectedSrc, vars_map, documentedVars,
                 bytesVars, installonly_limit>>

OFF == <<"<", "o", "f", "f", ">">>

\* the installonly_limit lambda: "<off>" is 0; else std::stoul (white
\* space, a sign, the digits; a '-' negates modulo 2^64) cast to uint32,
\* and any exception is 0
installonly_limit_from_string(value) ==
  LET p0 == Span(value, 0, SPACES)
      signed == p0 < Len(value) /\ value[p0 + 1] \in {"-", "+"}
      p1 == IF signed THEN p0 + 1 ELSE p0
      n == DigitsValue(SubSeq(value, p1 + 1, p1 + Span(value, p1, DIGITS)))
  IN CASE value = OFF                      -> 0
       [] Span(value, p1, DIGITS) = 0      -> 0      \* invalid_argument caught
       [] signed /\ value[p0 + 1] = "-"    -> -n     \* 2^32 - n as a uint32
       [] OTHER                            -> n

\* OptionNumber<std::uint32_t> installonly_limit{3, 0, ...}: every uint32
\* is within [0, max]
SetInstallonlyLimit(value) ==
  /\ installonly_limit' = installonly_limit_from_string(value)
  /\ UNCHANGED <<protected_packages, protectedSrc, vars_map, documentedVars,
                 bytesVars, throttle>>

Next ==
  \/ \E p \in Priorities, s \in OptionStrings : SetProtectedPackages(p, s)
  \/ \E dir \in VarDirPaths : add_vars_from_dir(dir)
  \/ \E env \in Envs : add_vars_from_env(env)
  \/ \E value \in ThrottleStrings : SetThrottle(value)
  \/ \E value \in LimitStrings : SetInstallonlyLimit(value)

Spec == Init /\ [][Next]_vars

\* the options set from byte strings; only the bytes_overflow run takes them
BytesNext == \E o \in BytesOptions, value \in BytesStrings : SetBytesOption(o, value)

BytesSpec == Init /\ [][BytesNext]_vars

(***************************************************************************)
(* Properties                                                              *)
(***************************************************************************)

\* the tokens of s between the delimiters " ,\n", empty ones dropped
RECURSIVE Tokens(_)
Tokens(s) ==
  IF s = <<>> THEN <<>>
  ELSE LET D == {i \in DOMAIN s : s[i] \in Delims}
           i == IF D = {} THEN Len(s) + 1 ELSE Min(D)
       IN (IF i = 1 THEN <<>> ELSE <<SubSeq(s, 1, i - 1)>>)
            \o Tokens(SubSeq(s, i + 1, Len(s)))

\* a line without its leading and trailing " \t\r"
RECURSIVE Trimmed(_)
Trimmed(l) ==
  CASE l # <<>> /\ Head(l) \in Blank -> Trimmed(Tail(l))
    [] l # <<>> /\ Last(l) \in Blank -> Trimmed(Front(l))
    [] OTHER                          -> l

\* a file: each trimmed line that is neither blank nor a comment, then ' '
FileText(path) ==
  LET Kept == SelectSeq(FileLines[path],
                LAMBDA l : Trimmed(l) # <<>> /\ Head(Trimmed(l)) # "#")
  IN FlattenSeq([i \in DOMAIN Kept |-> Trimmed(Kept[i]) \o <<" ">>])

GlobText(pattern) ==
  LET Files == SelectSeq(GlobMatch[pattern], LAMBDA p : p \notin Dirs)
  IN FlattenSeq([i \in DOMAIN Files |-> FileText(Files[i])])

\* s with each token followed by one ' ', except a plain token that ends
\* s, and each glob: token replaced by the text of the files it matches
ExpectedText(s) ==
  LET T == Tokens(s)
      EndsInToken == s # <<>> /\ s[Len(s)] \notin Delims
  IN FlattenSeq([i \in DOMAIN T |->
       CASE T[i][1] = GLOB                      -> GlobText(Tail(T[i]))
         [] i = Len(T) /\ EndsInToken           -> T[i]
         [] OTHER                               -> T[i] \o <<" ">>])

VarsFromEnvAsDocumented == vars_map = documentedVars

\* log_size, bandwidth and minrate hold the number of bytes of the string
\* they were last set from, as the comment of str_to_bytes ("@return int
\* Number of bytes") and its "must not be negative" check promise: the
\* unit multiplication and static_cast<int> never wrap the value.
BytesOptionsHoldTheirValue ==
  \A o \in BytesOptions :
    bytesSrc[o] # <<>> => FitsInt(bytesSrc[o]) /\ options[o] = BytesOf(bytesSrc[o])

====
