# A TLA+ model of the CYRUS2014 soccer client

CYRUS2014 is a team for the RoboCup 2D soccer simulator, built on librcsc
(`src/lib/rcsc`) and agent2d (`src/team`). Eleven player processes and a coach
each hold a UDP conversation with the server `rcssserver`, which is not in this
repository. Every 100 ms the server simulates a step. A player has to work out from
the messages it happens to receive which step it is in, whether a visual
message is still to come, whether it has decided already, and whether its
last command was carried out. No message says any of this outright. These
inferences are where the code is hard to test, and they are the core of the model.
On top of them come the team's shared beliefs, which no message states outright either:
the referee's mode, whose turn it is to take a penalty kick, who the seen players are, and
what substitutions are left.

Paths below are relative to `src/`; `player/` stands for `lib/rcsc/player/`.

## 1. Inventory

| Component | State | Operations | Status |
|---|---|---|---|
| See timing (`player/see_state.*`, `player_agent.cpp` 2296-2631) | timing of the last see, see counts of three cycles, cycles till the next see | `updateBySenseBody`, `updateBySee`, `setViewMode`, `canChangeViewTo`, the two adjustments, the missed-see check | modelled |
| Decision loop (`common/basic_client.cpp`, `player/player_agent.cpp`) | game time (cycle, stopped), server status, last decision, think received, waits | `runOnline`, `handleMessage`, `handleTimeout`, `isDecisionTiming`, `analyze*`, `action`, `finalize` | modelled, without the bodies of the messages |
| Command effects (`player/action_effector.*`, `self_object.cpp`, `ball_object.cpp`) | command counters, last body command and its stored effect | `reset`, the setters, `makeCommand`, `checkCommandCount`, the prediction in `update` | modelled for body commands and turn_neck |
| World model (`player/world_model.cpp`, `player_object.cpp`, `localization_default.cpp`) | objects with age counts, play mode, set play count, cards | `update`, `updateAfterSenseBody`, `updateAfterSee`, matching of seen players | the remembered players, the game mode, the set play and the clock; positions on a line, no ball, velocities, cards or tables |
| Game mode and penalty shootout (`util/game_mode.cpp`, `player/penalty_kick_state.cpp`) | mode, side, scores, takers | `update`, `isServerCycleStoppedMode`, the order of takers | modelled |
| View, neck and arm actions (`lib/rcsc/action/view_*`, `team/src/view_tactical.cpp`) | none between cycles | request a view width, a neck angle | the widths requested |
| Audio memory and say messages (`common/audio_memory.cpp`, `say_message_parser.cpp`) | what was heard in this cycle | parse, remember, encode | what three messages change: recovery, goalie, player |
| Intentions, periodic callbacks | a queued intention | `doIntention`, `finished` | the intention to receive a pass |
| Chain action search (`team/src/chain_action`) | a priority queue within one decision | best-first search with limits | not modelled |
| Coach (`coach/coach_agent.cpp`, `team/src/sample_coach.cpp`) | assigned types, substitutions left | assign, substitute, team graphic | the substitutions |
| Strategy and team behaviour (`team/src`) | roles, positions | exchange of positions, decision rules | not modelled |
| Stamina, player types | real numbers | recovery formulas | that recovery falls and starts anew |
| Interception, kick and dribble planning, formations, geometry, neural networks | real numbers | numerical algorithms | out of TLC's reach |
| Network, compression, logs, monitor, trainer, parameters, options | buffers, files | I/O, parsing | not modelled |

**How they interact.** `BasicClient::runOnline` waits in `select` for 10 ms at a
time. On a message it calls `PlayerAgent::handleMessage`, which drains the socket
and runs one `analyze*` handler for each datagram; on a timeout it calls
`handleTimeout`. Either may call `action()`. That method corrects the see estimate,
updates the world model to the current time, resets `ActionEffector`, runs the team's
decision, the view, neck and arm actions, sends one datagram with the commands and
their counters increased, and records `last_decision_time_`. `analyzeSenseBody`
feeds the body sensor to `SeeState` (a new cycle), to `ActionEffector` (the
counters) and to `WorldModel`; `analyzeSee` feeds `SeeState` and `WorldModel`;
referee messages set the play mode and `server_cycle_stopped_`, which decides how
the next message is stamped. All of it is one thread: the concurrency is between
the player, the server's clocks, the network and the referee.

**What is hard, and what makes each part correct.**

* See timing. The server's see timer has a period of 37.5 ms and a cycle lasts 100 ms, so
  where in a cycle a see arrives depends on all earlier view changes. The
  player infers it from how many sees it got in each of the last cycles while its
  view was (narrow, low). It is correct if, once the player believes itself
  synchronised, its belief is true, stays true, and lets it decide after the see of a
  cycle and never wait for one that cannot come.
* Decision loop. A decision is asked for on two paths (drained socket,
  timeout), in two server modes. The time that says "already decided" is
  composed by the agent, since the server does not number the steps of a
  stopped cycle. It is correct if each step is decided once: not twice, and not
  never.
* Command effects. Commands travel by UDP, and the world model predicts with the
  last command before it sees its result. It is correct if no effect is applied
  of a command that was not carried out, and none twice.
* Referee's calls. Each player hears them for itself, over UDP, and keeps the last mode, the
  score, the start of a set play, the count of penalty kicks and a queued intention. One of
  them may miss a call or be restarted. It is correct if a player that heard the last call
  is right again in whatever one call can tell, and wrong in the rest by no more than it missed.
* Memory of the players. A seen player may show its number, its side or neither, and
  is matched with the remembered ones by distance; a team mate's word corrects the memory. It
  is correct if nobody seen is lost, nobody is there twice, and what was mistaken is
  put right in the end.
* Substitutions. The coach keeps a book of the types and substitutions that are left, the server
  another; commands, notices and the players' words cross. It is correct if the coach
  asks for nothing that is refused, replaces those that are tired and no others, and does so in the end.

`PROJECT.json` lists the hazards at their lines, those no property covers yet
included.

## 2. Modules

| Module | Models | Extends |
|---|---|---|
| `SeeState` | the class `SeeState`, each method an operator on a record | |
| `SeeSync` | `SeeState` driven by `PlayerAgent`, with the server's see timer | `SeeState` |
| `SeeSync_proofs` | types, and that estimate, prediction and synchronisation of an undisturbed player are exact | `SeeSync`, `TLAPS` |
| `DecisionCycle` | the abstract promise: one decision in each step heard of | |
| `PlayerLoop` | the client's loop and game time, with the server's steps and a lossy socket; implements `DecisionCycle` | |
| `PlayerLoop_proofs` | types, the cycle, the bye, one decision in a step, and the steps of `DecisionCycle` | `PlayerLoop`, `TLAPS` |
| `CommandEffect` | the command counters and the predicted effect, with a lossy and slow network | |
| `CommandEffect_proofs` | types, no effect twice, no false effect, exactness and healing of the counters | `CommandEffect`, `TLAPS` |
| `GameMode` | the classes `GameMode` and `PenaltyKickState`, and which way a player faces, as operators | |
| `Referee` | the referee, and a team of players that hear it each for itself: mode, server status, set play, shootout, intention | `GameMode` |
| `Referee_proofs` | types, score, shootout counters, life of an intention, the mode in touch, decisions, set plays | `Referee`, `TLAPS` |
| `Shootout_proofs` | who takes a penalty kick and which goal is faced, for any team size | `Referee_proofs` |
| `Coach` | substitutions: coach, server, players and the network between them | |
| `Coach_proofs` | types, the coach's book against the server's, and that nothing is refused as long as nothing is lost | `Coach`, `TLAPS` |
| `Waste_proofs` | that a fresh player is replaced no more often than faults account for | `Coach_proofs` |
| `PlayerMemory` | the remembered players: ageing, matching of a see, limits, ghosts, hearing | |
| `PlayerMemory_proofs` | types, unique numbers, truth and fate of what is seen, and the limits | `PlayerMemory`, `TLAPS` |

The three component models meet in the handlers of `player_agent.cpp`. Each
takes its own part of `analyzeSenseBody`, `analyzeSee` and `action`, in the order the
code has them, and abstracts the other two. `SeeSync` knows a stamp for each cycle and
whether the cycle is decided; `PlayerLoop` allows both answers to "is no see
expected?" (`predicted` in `Timeout`); `CommandEffect` knows whether the
step's update and decision have happened.

`Referee` composes several players with the referee, on the strength of `PlayerLoop`: each
player senses and decides once in a step (`Sense` still compares the game time, since a
player out of touch may see the same one twice). `Coach` and `PlayerMemory`
take a step of the server as one round of decisions.

### 2.1 SeeState and SeeSync

A unit of time is 12.5 ms: 8 units to a cycle, 3 to a tick of the see timer.
`clock` runs through 9 cycles and wraps; three cycles bring timer and cycle
back in phase. `due` is a tick not served yet, so that a see and whatever happens in
the same instant come in either order. `ss` is the `SeeState` object, `self_view` the view
mode the world model believes in, `srv_view` the server's. A handler is an operator
from `[ss, view, sent]` to the same, so that `ReceiveSee` is `updateBySee`,
then the adjustment, then, when the cycle is not decided yet, the whole of
`action()`: missed-see check, adjustment, view action. `Commit` delivers the
`change_view` commands a handler sent, or loses some of them.

| TLA+ | Code |
|---|---|
| `SenseBody` | `analyzeSenseBody` -> `SeeState::updateBySenseBody`; the sensed view overwrites the believed one |
| `ReceiveSee` | `analyzeSee`, then `handleMessage` in the server's normal mode |
| `Timeout`, `Think` | `handleTimeout` with `isDecisionTiming`; `handleMessage` after think |
| `GetSynchSee` | `analyzeOK` on `(ok synch_see)` |
| `Decide` | `action()`: `CheckMissedSee`, `AdjustSynchMode`, `DoViewAction` |
| `Pass`, `SkipTick`, `SendSee`, `LoseSee`, `Referee` | the server and the network (external) |

`Configs` selects the server's normal mode, its synch mode, or the normal mode with
`synch_see`, which `team/src` asks for. The configuration is fixed from the start.

### 2.2 PlayerLoop and DecisionCycle

The server counts its steps (`srv_step`) and its cycle (`srv_cycle`), which
stands still while a set play stops it. A step begins with the referee's call, if
any, then `sense_body`, then `see`, `hear` and `think` in any order, each at most
once. `net` is the socket. `Receive` takes one datagram; `Drained` is what
`handleMessage` does once nothing is left; `Timeout` is an expired `select`. Real time is
a count of timeouts: `timeouts` since any message, `elapsed` since the
`sense_body`, capped at the threshold since only the comparison matters.

| TLA+ | Code |
|---|---|
| `UpdateCurrentTime` | `PlayerAgent::Impl::updateCurrentTime` |
| `StoppedAfter` | `updateServerStatus` |
| `GetInit` ... `GetThink` | `analyzeInit`, `analyzeSenseBody`, `analyzeSee`, `analyzeHear`, `analyzeHearReferee`, the think branch of `parse` |
| `Drained`, `SeenNow` | the end of `handleMessage` |
| `Timeout`, `IsDecisionTiming`, `ServerDown` | `handleTimeout`, `isDecisionTiming` |
| `EndsGame`, `SelectFails`, `ByesAfterExit` | `isGameEndMode`, the exits of `runOnline`, and `finalize` |

`step`, `sensed`, `acts` and `used` are history: the step whose messages
the agent has processed and what it decided since. So is `ends`, the ends of the game that reached the
socket before the client exited. Nothing keeps the referee from calling the end twice, in two steps that the agent
reads as one batch; `ByesAnswerEnds` counts the byes against the ends. `DecisionCycle` is the
specification a player promises: hear of a step, decide in it at most once, and once
unless a newer step comes or the player takes its leave. `PlayerLoop!KeepsPromise` is the
refinement with `up <- pc # "exited" \/ byes = 0`: only a bye releases the player, so that a client that gives its
server up must have decided the last step it heard of.

### 2.3 CommandEffect

A command is named by the step that sent it. `Decide` is the end of `action()`:
the pending `WorldModel::update`, `ActionEffector::reset`, the setter of a body
command, and `makeCommand`, which counts what it sends and sends the dummy
`(turn 0)` when there is no body command. The datagram arrives in its step
(`current`), in the next (`underway`, then `late`) or never. `ServerStep` carries
out one body command and counts it. `SenseBody` is `checkCommandCount`
followed by the update; `See` is the update when the `sense_body` was lost.
`applied` is the command whose effect the update of this step used, `executed`
the one the server carried out in the step before.

### 2.4 GameMode and Referee

A call is a record of name, side and score. `Parse` is the map from names to modes with the special
cases (`foul_l` is a free kick of the other side, `drop_ball` is play_on); `UpdateMode` is
`GameMode::update`; `UpdatePenalty` is `PenaltyKickState::update`. `PlayerLoop` has the
game time with all its messages; here a player's time comes from calls and
`sense_body` alone.

| TLA+ | Code |
|---|---|
| `Hear` | `analyzeHearReferee`: game time, `GameMode::update`, `updateServerStatus`, `WorldModel::updateGameMode`, `PenaltyKickState`, and the intention that is dropped; the early returns for an unknown call and the end of the game |
| `Sense`, `Decide`, `Execute`, `Finished`, `Receive` | `analyzeSenseBody`, then the intention as `SamplePlayer::doPreprocess` and `IntentionReceive` treat it |
| `Rejoin`, `Reconnect` | a restart of the process, and `analyzeInit` with the answer to `reconnect` |
| `Reversed` | the side to face in a shootout, in `updateAfterSenseBody` |
| `Announce`, `NextCalls`, `NextStep`, `ClockStops` | the referee and the server (external) |

`deaf` is the set of players that a call does not reach. `past` is history:
what each player has missed, by kind, so that a property can say exactly how wrong it may be.

### 2.5 Coach

A step is one decision of every client. The coach decides with all it has received; its
commands reach the server in that step or late; each is carried out or refused by the
server's rules, and announced to coach and player, each of which may miss it. Recovery is
fresh or tired. `Assignments` leaves open which of the candidate types `getFastestType`
takes, and the goalie and players in view before the kick-off vary.

| TLA+ | Code |
|---|---|
| `FirstSubstitution` | `SampleCoach::doFirstSubstitute`, `substituteTo` |
| `TiredSubstitution` | `doSubstituteTiredPlayers`, with `updateTeammateStamina` |
| `HearChange` | `analyzeChangePlayerType`, `GlobalWorldModel::setPlayerType` |
| `HearSay` | the recovery message and `AudioMemory` |
| `Speak`, `NextTurn` | `SampleCommunication`: whose turn it is, who adds its recovery |
| `OwnChange` | the player's own `setOurPlayerType` |
| `Accepts`, `Serve`, `Tire`, `NextMode`, `Step` | the server (external) |

### 2.6 PlayerMemory

The player stands at 0 and the others move on a line, one of them by one place in a step; before a
kick-off they are placed anew. `where` is the truth, `memory` the three lists. A see shows
a part of the line (`Views`), and of a player beyond `NumberFar` its number, its side or neither.

| TLA+ | Code |
|---|---|
| `Step`, `Updated` | `WorldModel::update`: ages, forgets, clears before the kick-off |
| `See` | `updateAfterSee`: `localizePlayers` with `checkTeamPlayer` and `checkUnknownPlayer` in the search order, the limits, `checkGhost` |
| `TellGoalie`, `TellPlayer` | `updateGoalieByHear`, `updatePlayerByHear`, before the decision |
| `Work`, `Matched` | the loops of `localizePlayers` over the seen players, with the lists spliced together |
| `Arranged`, `Pick` | `remove_if` and `sort` of a `std::list`, by the number of members that come before |
| `Keep`, `KeepUnknown` | the sorts with `PtrCountCmp` and what is dropped beyond the limits |

Left out: velocities, angles and noise; sees of low quality and of a player that is
not localised; fullstate; `estimateUnknownPlayerUnum`, which has no effect in the one decision of a game time:
`updateJustBeforeDecision` calls it (`world_model.cpp:1714`), but the lists it reads were cleared by `update` and are
filled again only afterwards, by `updatePlayerStateCache`. Ties between
equally certain objects are left open, between equally near ones the first in the list wins, as in the code.

## 3. Runs

| Run | Outcome | Question and bounds |
|---|---|---|
| `seesync` | pass | Is a synchronised player right? All configurations, three view actions, 1 loss, 2 mode changes, all 24 relative phases of joining and timer. `TimingExact`, `SeeForeseen`, `SeenBeforeDecision`, `KeepsSynch` speak of undisturbed runs; the disturbed ones are explored for the types and for the next run's question |
| `seesync_atlast` | pass | Does it become right again? One loss of a see or `change_view` at any point |
| `seesync_playon` | violation | `DetectedExactly` (see 5) |
| `seesync_stuck` | violation | `OutOfPlayPrepares` (see 5) |
| `playerloop_prompt` | pass | Once in a step, and the refinement; both server modes, 2 steps, 2 referee calls |
| `playerloop_lossy` | pass | Types, game time, the byes, termination, no step forgotten; 2 steps, 2 calls at any moment, both of which may end the game, 1 loss, an agent that may fall behind |
| `playerloop_midstep` | violation | `OneDecisionPerStep` with a mid-step call (see 5) |
| `commandeffect` | pass | Counters against losses, delays and missed decisions: 5 steps, 2 lost commands, 1 lost `sense_body`, 1 late command, 1 missed decision |
| `commandeffect_missed` | violation | `EffectOnce` with a missed decision (see 5) |
| `referee` | pass | What do players know that miss calls? Two players, from a kick-off, in play, or at the start of a shootout, on either side; 3 calls, one of them lost, one restart, one step without a call; 3 penalty kicks |
| `coach` | pass | Does the substitution loop keep its book, replace the tired, and only those? A goalie and a player, the default and another type with one player each, 2 substitutions, one datagram lost or late |
| `playermemory` | pass | Whom does it take whom for? One team mate, two opponents with their goalie, three places, two views, 2 players seen without number, one told of |

**Why the bounds are enough.** In `SeeSync` time itself is not bounded: the clock
wraps, so every infinite schedule of sees is covered, and the estimator's memory
is three cycles. In `PlayerLoop` the guards compare the current step with the one
before; the joining (step 0) and two steps with a call in each give every pair of a step
before and a step that starts while it is being handled, from and into a
stopped cycle. Thresholds are 3 and 4 timeouts: above the 2 that
`isDecisionTiming` names, and in the order the code has them. In `CommandEffect` a
comparison looks back one step, a lost `sense_body` makes it two, a late command
three. The theorems of section 4 hold for all values of the bounds.

In `Referee` a call is compared with the one before, and `SetPlayAge` with the one before that:
three calls from play are offence, kick and play, or a catch, its kick and a second kick. A
lost call and a restart can each come before, between and after them. Three kicks of a shootout
are one round of a team of two and the first of the next, which is where the
turn wraps; that it does so for eleven players is proved (`TakersAgree`). In `Coach` two
substitutions are the second one that may meet a book left wrong by the first; with `Types = {0, 1, 2}`
(four times the states) the properties hold as well. In `PlayerMemory` a mistake needs
one unnumbered player and its correction a second, and the line is long enough for
a place that is seen, one where numbers are not, and one out of view. The lists' limits are those of the
instance's own players, so that a mistaken one fills them; age and ghost counts reach their thresholds.

`CHECK_DEADLOCK FALSE` stands in the `PlayerLoop` and `CommandEffect`
configurations, whose server stops at `MaxStep` and whose player exits, and in `Referee.cfg`, where a game
ends. `SeeSync`, `Coach` and `PlayerMemory` never stop, and their runs check for deadlock.

**Assumed of the environment.**

* A socket is FIFO and may lose datagrams, up to the bound. (`CommandEffect` lets a
  datagram be a step late, which is the reordering of one step.)
* `Prompt` (in `playerloop_prompt`) and `AgentIsPrompt`: the agent is not
  suspended for a whole cycle. The wait threshold, 75 ms, or 79 when
  synchronised, is below the 100 ms of a cycle. `playerloop_lossy` does without.
* `SenseDelay`: the `sense_body` follows the referee's call of its step
  within two 10 ms timeouts. The guard at `player_agent.cpp:576` relies on just that. In synch mode the think of a step
  comes before `server_wait_seconds`.
* `AnswerIsPrompt`: `synch_see` is granted in the cycle it is asked in, on joining.
* In `PlayerLoop` the referee calls at most once as a step starts, and once more within it if `MidStepCalls`; two ends
  of the game come in two steps.
* The referee's calls of a step come before its `sense_body` (`Referee`), and follow one another as
  `NextCalls` says: the rules of the game as the code's comments and the mode map name them.
* What the server sends the coach in a step is received before it decides in it, or is lost
  (`Coach!Step` waits for the empty queue); a command may come a step late.
* A team mate is up to a place off when it tells of a player, and it tells of players that exist. A decision
  handles one such message, where `updatePlayerByHear` loops over all that were heard: the loop's body is the operation,
  and no property of `PlayerMemory` speaks of how many come in one decision.
* Server mode and `synch_see` do not change during a game (`server_param` comes once).

**Fairness.** The server's clock goes on, ticks are served, an answer owed comes
(`SeeSync`); a begun step sends its `sense_body`, and its think in synch mode, and the
agent's loop is never suspended for ever (`PlayerLoop`): `select` always returns, with a
message or on its timeout, and each handler runs to its end. Losses, referee
calls, new steps and `select` errors are never forced. Weak fairness is enough
there, because each of these actions stays enabled until it is taken. In `Coach` every
client decides in every step and the server answers (weak), and for each player the ball
goes out of play again and again in the step of its turn to speak (`DeadBall`, strong): a game has
hundreds of set plays, and the turn changes with every cycle, whatever play does. Without it a player could
be tired for ever and never have said so. In `PlayerMemory` steps go on
and each is decided; a look is never forced, since `Settles` speaks of the looks that happen.
`Referee` has no liveness property: what it claims of a player is due in the same step.

## 4. What is proved

TLAPS checks the theorems for all constants that satisfy the named
assumptions (`SeeSyncAssumption`, `PlayerLoopAssumption`, `CommandEffectAssumption`,
`GameModeAssumption`, `RefereeAssumption`, `CoachAssumption`, `PlayerMemoryAssumption`).

* `SeeSync_proofs!TypeCorrect`: `Spec => []TypeOK`. One lemma for each method of
  `SeeState` says that it keeps the record's type. The count of cycles stays
  a natural number since `setNewCycle` floors it at zero.
* `SeeSync_proofs!TimingIsExact` (`TimingExact`), `SeesForeseen` (`SeeForeseen`), `SeesBeforeDeciding`
  (`SeenBeforeDecision`) and `StaysSynched` (`KeepsSynch`), in all configurations and for any view actions
  and bounds. They speak of undisturbed runs, and so does their invariant `IInv` (checked by TLC on the
  `seesync` instance first). `Timed` says what an estimate is worth: the age of the last see, in units, is
  the whole cycles since then plus the phase the timing claims (`SeenAgo`), and the cycles counted down are those to
  the next see. `TimingTable` is the lemma on `TimingAfter` that carries it from one see to the next: under each view
  that keeps the timing, the timer's period is the cycles counted plus the shift of the phase. That an estimate is right when it
  starts needs an invariant on the time before it: no cycle counts more sees than it had ticks
  (`Counted`), and in (narrow, low) all of them (`AllSeen`), so that the counts 3, 2 (3, 2, 3 in the
  server's synch mode) leave one phase only. With `synch_see`, `Asked` says that a player whose estimate is not there yet
  expects a see later, and has no counts from before that could pass for the pattern.
* `PlayerLoop_proofs!TypeCorrect` and `NeverAhead`: `Spec => []TypeOK` and
  `Spec => []FollowsServer`. `FollowsServer` bounds the agent's cycle by every
  message in the socket, and that is not inductive: a received message leaves the
  rest of the queue to compare with the new time. `IInv` adds `InOrder`, that the cycles
  in the socket do not decrease. A loss or a mid-step call keeps both. `EndsAnswered`
  (`ByesAnswerEnds`) counts the ends that are still in the socket (`Unread`): one more when an end arrives, one less, and a bye more, when
  `analyzeHearReferee` handles it. `ByeInv` adds that the server is alive in `select`, and while the client runs exactly
  as long as no bye has been said; the socket is empty when the client leaves for an end or gives the server up, so that
  nothing is left over then.
* `PlayerLoop_proofs!DecidesOnce`, `DecidesFresh` and `PromiseSteps`: `OneDecisionPerStep`, `FreshTime`, and that
  every step of the loop is a step of `DecisionCycle` or a stutter (the safety part of `KeepsPromise`). All three
  assume `Prompted`: no call in mid-step, an agent that keeps up, a socket that loses nothing. The code needs
  each of them: `playerloop_midstep` decides twice, and without the other two TLC finds
  a step that is forgotten. The invariant `DInv` places every message of the socket in
  the step that sent it (`SocketKept`), says what game time the agent must hold for each of them (`TimesKept`:
  in a stopped cycle the count of stopped steps, which a referee's call may already have raised), whether it takes the
  clock for stopped (`StatusKept`), and when `decided_at` may equal `time` (`DecisionsKept`).
* `CommandEffect_proofs!OnceWhenDecided`: until a decision is missed no
  command takes effect twice. `Ordered` says that the stored command is of this step
  or the one before, according to whether the step is decided.
* `CommandEffect_proofs!TrueWhenInTime`: until a command is late or a
  decision is missed, an effect applied after a comparison is that of the
  command carried out. Its invariant relates the counters over the network: the
  agent has counted whatever the server has counted or will count from a
  datagram under way (`CountsAhead`), and the last command is under way, or was
  carried out, or the agent's count of its type is ahead for good
  (`LastCommand`), so that equal counters mean that it was carried out. The counters
  `missed` and `delayed` only grow (`Monotone`), which is what lets
  the invariant be conditional on them.
* `CommandEffect_proofs!ExactWhenSensed` (`EffectExact`): with every `sense_body` received, and no command late or decision
  missed, the agent's counters are the server's plus the one command under way (`Exact`), so that an
  effect is applied exactly when the server has carried one out, lost commands or not.
  `HealsInOneStep` (`Heals`): whatever was lost, late or missed, after one step without a disturbance the counters agree
  again and the stored command is the one carried out (`Healed`), since `checkCommandCount` copies them.
* `Referee_proofs`: `TypeCorrect`, `Counted`, `ScoreKnown`, `IntentionFresh`. One invariant
  serves all four. Beside the properties it holds `CallOK`, which pairs a call's name with what its
  side and score may be, and `dead <= step`, without which a new intention could be older than a
  dead ball to come. `GameMode` is used through lemmas: what `UpdateMode` does to the score
  and `UpdatePenalty` to each counter, whatever the mode before.
* `Referee_proofs!KnowsMode` (`InTouch`), `SetPlayCounted` (`SetPlayAge`), `DecidesAlways` (`DecidesInTouch`) and
  `SetPlayOwned` (`SetPlayStays`), from the invariant `Touch` (checked by TLC on the `referee` instance before it was proved).
  `GameMode::update` hides a free kick behind a catch heard in the same cycle, so
  `CallsKept` says that a catch and the goalie's kick share a cycle, and `CatchHeard` that a
  catch heard in this cycle is the one in force, across lost calls and restarts. A player in touch decides in each
  step because its game time is new: `DecisionKept` says that a last decision in the current cycle was made while the clock
  stood still, where the time counts steps, and that no call that stops the clock is followed at once by
  one that lets play go on in the same step.
* `Shootout_proofs!TakersAgree`: `Spec => []OneTaker` for a team of any size. `OneTaker` says nothing
  between two of our kicks, so `Shootouts` adds that a player that heard all of them has a taker
  computed from its count, that the referee's `turn` is that number for the kicks set up so far, and that a
  player in touch takes the side of the call in force for the taker's. The step to the next
  kick is modular arithmetic (`OneRemainder`, `NextRemainder`, `NextTaker`).
  `GoalFaced` (`FacesGoal`) adds `Facing`: who heard where the kicks are taken has that side in its `PenaltyKickState`.
* `Coach_proofs`: `TypeCorrect` and `BookTrue`. The book is compared with the server's through the notices
  on their way, so the proof counts notices in a sequence that is appended to and
  taken from (`NoticesAppend`, `NoticesTail`). `BookKept` is inductive only with
  `WithinLimit`: a notice of a type that has none left in the book takes nothing from it
  (the floor at zero), and then the server's own limit is what keeps the sum.
* `Coach_proofs!NothingRefused`: `Spec => []NeverRefused`. Its invariant `Quiet` says that in the calm a
  decision finds no command under way, the server's count of substitutions is the
  coach's plus the notices under way, and the commands under way fit into what the server has left, by
  type and in number (`WithinBook`). A decision establishes the last part from `BookKept`
  with nothing missed and nothing under way; each command carried out moves one unit from the commands
  to the players; a fault ends the calm.
* `Waste_proofs!WastePaidFor`: `Spec => []WasteBounded`. Each replacement of a fresh player is charged to a fault before it
  happens: `PaidFor` says that what is wasted, the fresh players that somebody still takes for tired
  (`Doomed`: they have said so or will, or the coach has noted it, and no notice of a replacement is on its way) and
  the commands of earlier steps are together no more than the faults so far. A lost or late datagram adds one to each side; a
  decision moves a player from the coach's list to its commands; the server's answer moves it on to `wasted`.

* `PlayerMemory_proofs`: `TypeCorrect`, `NumbersOnce` (`NumbersUnique`), `SeenIsTrue` (`SeenTrue`), `NoMoreThanThereAre`
  (`Bounded`) and `SeenAreKept` (`SeenKept`), for any two finite teams, places, views and limits. Of the thresholds it is
  assumed what the code's defaults have in plenty: what was just heard is still valid (`CountThr > 1`), and what is
  in reach is nearer than the distance the search begins with. One invariant, `Inv` (checked by TLC first),
  serves all five. `Sound` says of an object in a list that a number seen in this step is in
  the place of its player, and of their list that the object with the goalie's number is the one that is known for a
  goalie, which is why a message about the goalie finds it; that is true until an
  opponent is told of as a plain player, and `Exempt` names the goalie from then on. `Stale` says that nothing is fresh or
  certain when a see begins, so that what is certain afterwards is what was seen.
* The matching of a see is a fold over the seen players. `WorkInv` is its invariant: what is left of the old lists is
  stale, the new lists hold one object for each player so far, and a number is in the old or the new list, never
  in both, and in the new one only for a numbered player so far or by an unnumbered one that took
  over an old object. That the numbered players of a side come before the others (`RankOrder`) is what
  makes it work: else one could take the object whose number is seen next. The
  induction over the fold is `Induction`, a lemma on sets of naturals from their well-foundedness, since the induction theorems of
  the library take an operator. `ArrangedOnce` says that a list that is filtered or sorted has each of its members
  once: no two have as many before them.

Model-checked only: all liveness (`SynchAtLast`, `Terminates`, `StepDecided`, `TiredReplaced`, `Settles`, the fairness
part of `KeepsPromise`), which is beyond this prover. Every safety property of a passing run is stated by a theorem.

## 5. What the violation runs show

1. `seesync_playon`: `isSynchedSeeCountNormalMode` accepts the see counts (2, 3) from
   whatever view mode. When play resumes in the middle of an adjustment, the view goes
   back to (narrow, high), the counts match by accident, and the player takes a
   wrong timing for certain until a missed or second see disproves it.
2. `seesync_stuck`: `adjustSeeSynchSynchMode` asks for *not narrow and not low*
   where the normal mode asks for *or*. A (narrow, high) view is then never changed, and
   a player in the server's synch mode stays unsynchronised for as long as play is stopped.
3. `playerloop_midstep`: a kick-off by a monitor or trainer after the
   `sense_body` of a stopped step turns that step's time from (c, k) into (c, 0). The
   player does not recognise the step and decides again.
4. `commandeffect_missed`: only `action()` resets the last command. In a
   step without a decision it survives, and the next update applies its effect again.

Seen while modelling, and without a run of their own:

* A lost referee message leaves `server_cycle_stopped_` false. The agent then stamps all
  steps of the stopped cycle alike, and decides one of them (hence `lost = 0` in
  `StepDecided`).
* The client says bye for every end of the game in the batch it drains (`player_agent.cpp:882-886`, `1806-1810`):
  twice when it reads, say, the winner on penalties and `time_over` together. A see or think later in the batch still leads to a decision, sent after the bye. `ByesAnswerEnds` allows both.
* When a lost dash is noticed one step late, `checkCommandCount` also drops
  the effect of a kick that was carried out meanwhile (`action_effector.cpp:196-212`).
* A late command can make the counters of two steps agree by accident; the effect is
  exact again a quiet step later (`Heals`).
* An unknown play mode becomes `play_on` without `updateServerStatus` and without the world
  model (`player_agent.cpp:1797`): agent and world model disagree until the next call. `InTouch` counts
  such a player as out of touch.
* After `reconnect` the mode goes to the agent only (`player_agent.cpp:2056`); the world model stays before the
  kick-off until the next call.
* `PenaltyKickState` does not initialise `M_current_taker_side`, and nothing reads it.
* `updateGoalieByHear` takes `begin()` for the end of the unknown players (`world_model.cpp:1444`), so that
  it never finds the goalie among them. `updatePlayerByHear` gives the nearest object the number it is
  told, whatever number that has (`world_model.cpp:1520`, with a TODO on duplicated players). With both, once their
  goalie has been told of as a plain player two goalie objects can live on, seen in turn: hence the exceptions
  in `NumbersUnique` and `Settles`.
* Misidentified players can fill a list and crowd out one that is seen now; `SeenKept` says of whom the
  list must then consist.
* `PtrCountCmp` (`player_object.h:401`) puts any goalie first, another goalie included: with two it is no strict weak order.
* `sayPlayerTypes` no longer stores what it has told (`sample_coach.cpp:832` is commented out).
* `IntentionWaitAfterSetPlayKick` counts no steps: only positions end it.
* `setTheirPlayerType` may keep a substituted player's card (`world_model.cpp:471`). In the server's synch mode
  `say` follows `done` (`action_effector.cpp:467`). `setCompressionLevel` rejects levels that may have been asked
  for (`basic_client.cpp:222`). `PlayerTypeAnalyzer` counts the used types of an earlier moment
  (`player_type_analyzer.cpp:374`). These four are in no model.

## 6. Plan

Done: `SeeState`, `SeeSync`, `PlayerLoop`, `DecisionCycle`, `CommandEffect`, `GameMode` with the shootout,
`Referee`, `Coach`, `PlayerMemory`, and the proofs of section 4.

Left: nothing of the plan for the models; of the proofs the liveness properties, for which runs must do. Assumptions that
`playerloop_lossy` does without (an agent that falls behind, a lost datagram) may yield weaker theorems about `PlayerLoop`.

## 7. Not modelled

* Numerical algorithms: interception, kick tables, dribbling, formations, triangulation, neural networks, stamina
  formulas, field evaluation, chain action search with its evaluators. They are most of the 215 000 lines, with
  the vendored `triangle` library, tools and generated parameter code. Their state lives within one decision,
  and a finite instance of real-valued code says little of it; hence the small share of lines that are mapped.
* Team behaviour: decision rules over positions and roles, without state between decisions other than the intention
  that `Referee` models.
* The ball, cards, interception table and pass lists of the world model; the coach's analysis of opponents, freeform messages, team graphic and
  eye commands; the encoding of say messages.
* Network, compression, logs, monitor, trainer, parameters and options: I/O and formats.
