------------------------- MODULE PasswordGenerator -------------------------
(***************************************************************************)
(* The password generator of the editor (password_service.rs): one         *)
(* character of each class, more of any class up to the length, a shuffle, *)
(* and the policy check every password of the service passes.  Each choice *)
(* takes one random word, and takes another when the word would make some  *)
(* choices likelier than others.                                           *)
(*                                                                         *)
(* A character stands for itself, its class is the constant Class.         *)
(***************************************************************************)
EXTENDS Naturals, Sequences, FiniteSets

CONSTANTS
    Class,        \* class of each character
    Charset,      \* class -> the characters the generator draws, in order
    Wanted,       \* lengths asked for; 0 asks for the default one
    DEFAULT_GENERATED_PASSWORD_LENGTH,
    MIN_PASSWORD_LENGTH, MAX_PASSWORD_LENGTH,
    MaxWord       \* u32::MAX, the largest random word

Classes4 == <<"lower", "upper", "digit", "symbol">>
Characters == DOMAIN Class

ASSUME CharsetsAssumption ==
    /\ Class \in [Characters -> {"lower", "upper", "digit", "symbol", "space"}]
    /\ Charset \in [{"lower", "upper", "digit", "symbol"} -> Seq(Characters)]
    /\ \A c \in DOMAIN Charset :
          /\ Charset[c] # <<>>
          /\ \A n \in DOMAIN Charset[c] : Class[Charset[c][n]] = c
ASSUME LengthsAssumption ==
    /\ Wanted \subseteq Nat
    /\ DEFAULT_GENERATED_PASSWORD_LENGTH \in Nat
    /\ MIN_PASSWORD_LENGTH \in Nat /\ MIN_PASSWORD_LENGTH >= 4
    /\ MAX_PASSWORD_LENGTH \in Nat
ASSUME WordAssumption == MaxWord \in Nat

VARIABLES
    wanted,     \* requested_length
    made,       \* the password so far
    turn,       \* "ask", "fill", "shuffle", "given", "refused" or "failed"
    cursor      \* the index of the shuffle, counted from 1

generatorVars == <<wanted, made, turn, cursor>>

-----------------------------------------------------------------------------

HasClass(class, password) == \E n \in DOMAIN password : Class[password[n]] = class

validate_length(length) == length >= MIN_PASSWORD_LENGTH /\ length <= MAX_PASSWORD_LENGTH

validate_password_policy(password) ==
    /\ validate_length(Len(password))
    /\ ~HasClass("space", password)
    /\ \A n \in 1..4 : HasClass(Classes4[n], password)

\* Words from the zone on are drawn again.
Zone(bound) == MaxWord - (MaxWord % bound)

\* random_index: the words that give an index below `bound`.
Gives(word, bound, n) == word < Zone(bound) /\ word % bound = n

-----------------------------------------------------------------------------

Combined == Charset["lower"] \o Charset["upper"] \o Charset["digit"] \o Charset["symbol"]
ASSUME WordsAreMany == MAX_PASSWORD_LENGTH <= MaxWord /\ Len(Combined) <= MaxWord

\* One of each class first, then any.
NextCharset_AnyLast == IF Len(made) < 3 THEN Charset[Classes4[Len(made) + 1]] ELSE Combined
NextCharset == IF Len(made) < 4 THEN Charset[Classes4[Len(made) + 1]] ELSE Combined

\* How many choices the next word has.
Bound == IF turn = "fill" THEN Len(NextCharset) ELSE cursor

GeneratorInit ==
    /\ wanted \in Wanted
    /\ made = <<>>
    /\ turn = "ask"
    /\ cursor = 1

Ask ==
    /\ turn = "ask"
    /\ wanted' = IF wanted = 0 THEN DEFAULT_GENERATED_PASSWORD_LENGTH ELSE wanted
    /\ turn' = IF validate_length(wanted') THEN "fill" ELSE "refused"
    /\ UNCHANGED <<made, cursor>>

sample_from_charset(word) ==
    /\ turn = "fill" /\ Len(made) < wanted
    /\ word < Zone(Bound)
    /\ made' = Append(made, NextCharset[1 + (word % Bound)])
    /\ UNCHANGED <<wanted, turn, cursor>>

BeginShuffle ==
    /\ turn = "fill" /\ Len(made) >= wanted
    /\ turn' = "shuffle" /\ cursor' = Len(made)
    /\ UNCHANGED <<wanted, made>>

Swapped(password, a, b) == [password EXCEPT ![a] = password[b], ![b] = password[a]]

Shuffle(word) ==
    /\ turn = "shuffle" /\ cursor > 1
    /\ word < Zone(Bound)
    /\ made' = Swapped(made, cursor, 1 + (word % Bound))
    /\ cursor' = cursor - 1
    /\ UNCHANGED <<wanted, turn>>

Check ==
    /\ turn = "shuffle" /\ cursor <= 1
    /\ turn' = IF validate_password_policy(made) THEN "given" ELSE "refused"
    /\ UNCHANGED <<wanted, made, cursor>>

\* The system has no random bytes to give.
NoRandom ==
    /\ \/ turn = "fill" /\ Len(made) < wanted
       \/ turn = "shuffle" /\ cursor > 1
    /\ turn' = "failed"
    /\ UNCHANGED <<wanted, made, cursor>>

GeneratorNext ==
    \/ Ask
    \/ \E word \in 0..MaxWord : sample_from_charset(word) \/ Shuffle(word)
    \/ BeginShuffle
    \/ Check
    \/ NoRandom

GeneratorSpec == GeneratorInit /\ [][GeneratorNext]_generatorVars

-----------------------------------------------------------------------------
(* Properties. *)

\* A length inside the limits is never refused: whatever is drawn and however it
\* is shuffled, the password passes the policy, so the button always gives one
\* (generate_password ends with validate_password_policy).
GeneratedPasses == turn = "refused" => ~validate_length(wanted)

\* No choice is likelier than another: each index is given by as many words as
\* any other, and by one at least (random_index).
EvenDraws ==
    turn \in {"fill", "shuffle"} =>
        \A m, n \in 0..Bound - 1 :
            /\ Cardinality({word \in 0..MaxWord : Gives(word, Bound, m)})
                 = Cardinality({word \in 0..MaxWord : Gives(word, Bound, n)})
            /\ \E word \in 0..MaxWord : Gives(word, Bound, n)

\* The button gives a password of the policy, drawn without a preference.
PasswordsEarned == GeneratedPasses /\ EvenDraws

=============================================================================
